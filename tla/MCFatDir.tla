------------------------------ MODULE MCFatDir ------------------------------
(***************************************************************************)
(* Small directories for TLC.  The name a has two fragments, and a and b   *)
(* have the same short name.  An entry of b fills a cluster of two slots.  *)
(***************************************************************************)
EXTENDS FatDir

TwoFrags == [n \in Names |-> IF n = "a" THEN 2 ELSE 1]
Alike    == [n \in Names |-> IF n \in {"a", "b"} THEN 1 ELSE 2]

Empty     == {<<>>}
EmptyFull == {<<>>, <<"b">>}
=============================================================================
