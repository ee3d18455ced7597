---------------------------- MODULE MCFatVolume ----------------------------
(***************************************************************************)
(* Small volumes for TLC: two FAT sectors, three or four clusters for      *)
(* files, two file names.                                                  *)
(***************************************************************************)
EXTENDS FatVolume, TLC

NoBad  == {}
OneBad == {3}

(* The names of files are interchangeable. *)
FileSymmetry == Permutations(Files)
=============================================================================
