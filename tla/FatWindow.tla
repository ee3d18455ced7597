----------------------------- MODULE FatWindow -----------------------------
(***************************************************************************)
(* The one-sector window of src/trfs/fat32/fat.c: all sectors but those of *)
(* file data are read and changed in it, so it alone decides in which      *)
(* order changes reach the medium.  FatVolume and FatDir are built on it.  *)
(* SyncBufForgets and SyncBufClearsFirst are mistakes sync_buf could have  *)
(* made: in SyncBuf's place, each breaks a property.                       *)
(***************************************************************************)
EXTENDS Integers

CONSTANT MaxFaults   \* bound: failed transfers and power losses in a behaviour

ASSUME WindowAssumption == MaxFaults \in Nat

VARIABLES
    disk,    \* what the medium holds: sector -> contents
    win,     \* fat->sect, fat->buf and FAT_BUF_DIRTY
    faults   \* transfers failed and power losses so far

(* What the driver sees of a sector: the window shadows the medium. *)
View(s) == IF win.sect = s THEN win.buf ELSE disk[s]

SyncBufForgets == {[win |-> [win EXCEPT !.dirty = FALSE], disk |-> disk, ok |-> TRUE]}
SyncBufClearsFirst ==
    LET clean == [win EXCEPT !.dirty = FALSE]
    IN  IF win.dirty
        THEN {[win |-> clean, disk |-> [disk EXCEPT ![win.sect] = win.buf], ok |-> TRUE],
              [win |-> clean, disk |-> disk, ok |-> FALSE]}
        ELSE {[win |-> win, disk |-> disk, ok |-> TRUE]}

(* The ways sync_buf can end.  A write that fails leaves the window dirty; *)
(* the sector may or may not have reached the medium.                      *)
SyncBuf ==
    LET written == [disk EXCEPT ![win.sect] = win.buf]
    IN  IF win.dirty
        THEN {[win |-> [win EXCEPT !.dirty = FALSE], disk |-> written, ok |-> TRUE]}
             \cup {[win |-> win, disk |-> d, ok |-> FALSE] : d \in {disk, written}}
        ELSE {[win |-> win, disk |-> disk, ok |-> TRUE]}

(* The ways update_buf can end: the window is written back, then refilled. *)
UpdateBuf(s) ==
    IF win.sect = s
    THEN {[win |-> win, disk |-> disk, ok |-> TRUE]}
    ELSE LET load(o) == {[o EXCEPT !.win = [sect |-> s, buf |-> o.disk[s], dirty |-> FALSE]],
                         [o EXCEPT !.ok = FALSE]}
         IN  UNION {IF o.ok THEN load(o) ELSE {o} : o \in SyncBuf}

Took(o) ==
    /\ win' = o.win
    /\ disk' = o.disk
    /\ IF o.ok THEN UNCHANGED faults
       ELSE faults < MaxFaults /\ faults' = faults + 1

(* Store v in cell x of the sector that outcome o left in the window. *)
Writes(o, x, v) ==
    /\ o.ok
    /\ win' = [o.win EXCEPT !.buf[x] = v, !.dirty = TRUE]
    /\ disk' = o.disk
    /\ UNCHANGED faults
=============================================================================
