----------------------------- MODULE BlockDevice -----------------------------
(***************************************************************************)
(* What the file system can rely on when it moves sectors through          *)
(* src/kernel/driver/disk.c.  A job moves its sectors one by one.  When it *)
(* succeeds all have moved, but for the last one of a write, which the     *)
(* drive may have failed to store.  When it fails some have.  After a      *)
(* timeout nothing is sure.                                                *)
(***************************************************************************)
EXTENDS Integers, Sequences

CONSTANTS Sects, NoJob, Jobs

VARIABLES store, job, moved, out, unsure

vars == <<store, job, moved, out, unsure>>

Init == store \in [Sects -> Nat] /\ job = NoJob /\ moved = 0 /\ out.end = "none" /\ unsure = FALSE

Start == /\ job = NoJob /\ job' \in Jobs /\ moved' = 0 /\ out'.end = "none" /\ store' = store

(* The next sector goes from the store to the buffer, or the other way. *)
Move == /\ job # NoJob /\ moved' = moved + 1 /\ moved' <= job.count /\ out' = out
        /\ LET at == job.lba + moved IN
             IF job.op = "read"
             THEN /\ store' = store
                  /\ job' = [job EXCEPT !.buf[moved'] = store[at]]
             ELSE store' = [store EXCEPT ![at] = job.buf[moved']] /\ job' = job

Succeed == /\ job # NoJob /\ moved >= (IF job.op = "read" THEN job.count ELSE job.count - 1)
           /\ out' = [end |-> "ok", buf |-> job.buf] /\ job' = NoJob /\ moved' = 0 /\ store' = store

Fail == /\ job # NoJob
        /\ out' = [end |-> "failed", buf |-> job.buf] /\ job' = NoJob /\ moved' = 0 /\ store' = store

Next == unsure' \/ (~unsure /\ ~unsure' /\ (Start \/ Move \/ Succeed \/ Fail))

Spec == Init /\ [][Next]_vars
=============================================================================
