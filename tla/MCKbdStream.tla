---------------------------- MODULE MCKbdStream ----------------------------
(***************************************************************************)
(* A ring of four slots, which fills up and wraps round, and lines of no,  *)
(* one or two characters.                                                  *)
(***************************************************************************)
EXTENDS KbdStream

Lengths == {0, 1, 3}
=============================================================================
