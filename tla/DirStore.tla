------------------------------ MODULE DirStore ------------------------------
(***************************************************************************)
(* What a directory of src/trfs/fat32/fat.c promises about its names: a    *)
(* call changes nothing of the set the driver sees but the name it is      *)
(* asked about, the set on the medium only ever follows, and after a power *)
(* loss the driver sees what is on the medium.                             *)
(***************************************************************************)
CONSTANTS Names, Requests, None, Adding, Removing

VARIABLES
    seen,    \* the names the driver sees
    kept,    \* the names on the medium
    asked    \* the running call: [op, n]

vars == <<seen, kept, asked>>

Init == seen \subseteq Names /\ kept = seen /\ asked = None

(* On the medium a name comes or goes only when the driver has said so. *)
Follows == kept' \ kept \subseteq seen' /\ (kept \ kept') \cap seen' = {}

Add    == asked.op \in Adding /\ seen' = seen \cup {asked.n}
Remove == asked.op = Removing /\ seen' = seen \ {asked.n}
Settle == UNCHANGED seen
Crash  == seen' = kept'

Next == asked' \in Requests \cup {None} /\ Follows /\ (Settle \/ Add \/ Remove \/ Crash)

Spec == Init /\ [][Next]_vars
=============================================================================
