------------------------------ MODULE ByteFile ------------------------------
(***************************************************************************)
(* What the callers of src/trfs/fat32/fat.c can rely on while they read    *)
(* and write one file through several handles.  content is what a reader   *)
(* gets, stable what the medium holds.  Only a write changes content, at   *)
(* the offset of its handle.  Sectors two handles had at once, one of them *)
(* for writing, are lost until all handles are closed.  A handle that      *)
(* fails is gone, and content is stable again where it stood; using it     *)
(* all the same ends every promise.                                        *)
(***************************************************************************)
EXTENDS Integers, FiniteSets

CONSTANTS Handles, Bytes, SectSize, Gone

VARIABLES content, stable, pos, lost, broken

vars == <<content, stable, pos, lost, broken>>

Sector(i) == i \div SectSize

(* content and stable agree with what they were, but for the lost sectors. *)
Same(a, b) == \A i \in Bytes : Sector(i) \notin lost \cup lost' => a[i] = b[i]

Init ==
    /\ content \in [Bytes -> Nat] /\ stable = content
    /\ pos = [h \in Handles |-> Gone]
    /\ lost = {} /\ broken = FALSE

(* A handle is opened, or moves, or ends, and nothing else is seen. *)
Moves == /\ \E h \in Handles : \A g \in Handles \ {h} : pos'[g] = pos[g]
         /\ Same(content', content) /\ Same(stable', stable)

(* A handle writes some bytes of one sector at its offset. *)
Writes == \E h \in Handles, n \in 1 .. SectSize :
    /\ pos[h] # Gone /\ pos' = pos
    /\ LET at == pos[h] .. (pos[h] + n - 1) IN
         /\ \A i, j \in at : Sector(i) = Sector(j) /\ content'[i] = content'[j]
         /\ \A i \in Bytes \ at : Sector(i) \notin lost \cup lost' => content'[i] = content[i]
    /\ Same(stable', stable)

(* One sector reaches the medium. *)
Settles == /\ Same(content', content)
           /\ \E s \in {Sector(i) : i \in Bytes} : \A i \in Bytes :
                Sector(i) \notin lost \cup lost' =>
                  stable'[i] = IF Sector(i) = s THEN content[i] ELSE stable[i]
           /\ \E h \in Handles : \A g \in Handles \ {h} : pos'[g] = pos[g]

(* A handle fails: of one sector, content is what the medium has of it.    *)
Fails == \E h \in Handles, s \in {Sector(i) : i \in Bytes} :
    /\ pos' = [pos EXCEPT ![h] = Gone]
    /\ \A i \in Bytes : Sector(i) \notin lost \cup lost' =>
         /\ content'[i] = IF Sector(i) = s THEN stable'[i] ELSE content[i]
         /\ stable'[i] # stable[i] => Sector(i) = s /\ stable'[i] = content[i]

(* Power is lost. *)
Restarts == /\ pos' = [h \in Handles |-> Gone] /\ content' = stable'
            /\ Same(stable', stable)

Keep == /\ ~broken' /\ (Moves \/ Writes \/ Settles \/ Fails \/ Restarts)
        /\ (\A h \in Handles : pos'[h] = Gone) => content' = stable'

Next == Keep \/ broken'

Spec == Init /\ [][Next]_vars
=============================================================================
