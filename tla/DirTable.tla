------------------------------ MODULE DirTable ------------------------------
(***************************************************************************)
(* What programs can rely on when they list directories through the        *)
(* descriptors of src/kernel/driver/fat32.c: a descriptor delivers the     *)
(* entries of one directory, each once and in order, then says that there  *)
(* are no more.  After that, or after an error, what it delivers is not    *)
(* known until it is closed.  An open fails for want of a descriptor only  *)
(* when all are open, and no descriptor changes by the use of another.     *)
(***************************************************************************)
EXTENDS Integers, Sequences

CONSTANTS Slots, Listings, Closed, Unknown

VARIABLES todo, out

vars == <<todo, out>>

Init == todo = [s \in Slots |-> Closed] /\ out = "ask"

Ask == out' = "ask" /\ todo' = todo

Opens(s) == /\ todo[s] = Closed
            /\ \E l \in Listings : todo' = [todo EXCEPT ![s] = l]
            /\ out' = "NONE"

Refuses == out' \in {"PARAM", "PATH", "EOF", "BROKEN", "IO"} /\ todo' = todo

RunsOut == (\A s \in Slots : todo[s] # Closed) /\ out' = "FULL" /\ todo' = todo

IsOpen(s) == todo[s] \notin {Closed, Unknown}

Delivers(s) == /\ IsOpen(s) /\ todo[s] # <<>>
               /\ out' = Head(todo[s])
               /\ todo' = [todo EXCEPT ![s] = Tail(@)]

Finishes(s) == /\ todo[s] = <<>> /\ out' = "EOF"
               /\ todo' = [todo EXCEPT ![s] = Unknown]

Fails(s) == /\ todo[s] # Closed /\ out' \in {"IO", "BROKEN"}
            /\ todo' = [todo EXCEPT ![s] = Unknown]

DeliversAny(s) == todo[s] = Unknown /\ todo' = todo

Closes(s) == todo[s] # Closed /\ out' = "NONE" /\ todo' = [todo EXCEPT ![s] = Closed]

Next == \/ Ask \/ Refuses \/ RunsOut
        \/ \E s \in Slots : \/ Opens(s) \/ Delivers(s) \/ Finishes(s) \/ Fails(s)
                            \/ DeliversAny(s) \/ Closes(s)

Spec == Init /\ [][Next]_vars
=============================================================================
