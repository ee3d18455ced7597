------------------------------ MODULE AtaDisk ------------------------------
(***************************************************************************)
(* The disk driver src/kernel/driver/disk.c: read_disk and write_disk poll *)
(* a drive that answers when it likes, fails, or hangs.                    *)
(*                                                                         *)
(* The drive is external: what it does follows from the registers the      *)
(* driver reads and writes.  While it has data to move (DRQ) it may ignore *)
(* a new command, as the drives of QEMU do.                                *)
(*                                                                         *)
(* Definitions such as AfterSectorEarly stand before the one whose name    *)
(* they extend and are mistakes the code could have made.                  *)
(***************************************************************************)
EXTENDS Integers, Sequences

CONSTANTS
    Sectors,    \* disks[id].sectors
    MaxCount,   \* 255 in the code
    Vals,       \* what a sector can hold
    MaxFaults   \* bound: errors of the drive, and hangs

ASSUME DiskAssumption ==
    /\ {Sectors, MaxCount} \subseteq Nat \ {0} /\ MaxFaults \in Nat
    /\ Vals \subseteq Nat /\ Vals # {}

VARIABLES
    medium,   \* what the drive has stored
    drive,    \* the drive: its status, its command and how far that is
    pc,       \* where the running call is; "idle" between calls
    call,     \* the running call: arguments, buffer, sectors done
    res,      \* how the last call ended, and what it left in the buffer
    faults,   \* errors and hangs of the drive so far
    late      \* a poll has timed out

vars == <<medium, drive, pc, call, res, faults, late>>

Sects == 0 .. (Sectors - 1)
Bufs(n) == [1 .. n -> Vals]

(* st is "busy" (BSY), "data" (DRQ) or "rest"; err is ERR or DF.  held is  *)
(* a sector the drive has in its own buffer; left, those not yet done.     *)
None == -1
AtRest == [st |-> "rest", err |-> FALSE, cmd |-> "none", lba |-> 0, left |-> 0,
           held |-> None, hung |-> FALSE]

NoRes  == [end |-> "none", buf |-> <<>>]
NoCall == [op |-> "none", lba |-> 0, count |-> 0, buf |-> <<>>, s |-> 0]

Init ==
    /\ medium \in [Sects -> Vals]
    /\ drive = AtRest
    /\ pc = "idle" /\ call = NoCall /\ res = NoRes
    /\ faults = 0 /\ late = FALSE

(* read_disk and write_disk: a request outside the disk is refused.        *)
InRange(lba, n) == lba + n <= Sectors

Returns(e) == pc' = "idle" /\ call' = NoCall /\ res' = [end |-> e, buf |-> call.buf]

Begin(op, lba, n, buf) ==
    /\ pc = "idle"
    /\ UNCHANGED <<medium, drive, faults, late>>
    /\ LET c == [op |-> op, lba |-> lba, count |-> n, buf |-> buf, s |-> 0]
       IN  call' = c /\ res' = NoRes
           /\ pc' = IF n \in 1 .. MaxCount /\ InRange(lba, n) THEN "select" ELSE "refuse"

Failed == Returns("failed")

Refuse == pc = "refuse" /\ Failed /\ UNCHANGED <<medium, drive, faults, late>>

NeverTimesOut == FALSE
(* The ten million polls have all found the drive not ready. *)
TimesOut == TRUE

(* ata_wait_bsy, then on to l. *)
WaitBsy(from, l) ==
    /\ pc = from /\ UNCHANGED <<medium, drive, faults>>
    /\ \/ drive.st # "busy" /\ pc' = l /\ UNCHANGED <<call, res, late>>
       \/ drive.st = "busy" /\ TimesOut /\ late' = TRUE /\ Failed
       \/ drive.st = "busy" /\ UNCHANGED <<pc, call, res, late>>   \* polls again

ChecksError == drive.err

(* ata_wait_drq. *)
WaitDrq ==
    /\ pc = "drq" /\ UNCHANGED <<medium, drive, faults>>
    /\ \/ ChecksError /\ Failed /\ UNCHANGED late
       \/ ~ChecksError /\ drive.st = "data" /\ pc' = "move" /\ UNCHANGED <<call, res, late>>
       \/ ~ChecksError /\ drive.st # "data" /\ TimesOut /\ late' = TRUE /\ Failed

(* A command goes to the drive, which is not busy. *)
Command(d) == drive' = d \/ (drive.st = "data" /\ drive' = drive)

LbaSentLow(c) == c.lba % 2
(* The address goes in three registers and four bits of a fourth, enough   *)
(* for the sectors a drive can name in the words the driver asks for.      *)
LbaSent(c) == c.lba

(* The address and the command are sent. *)
Issue ==
    /\ pc = "issue" /\ pc' = "bsy"
    /\ Command([AtRest EXCEPT !.st = "busy", !.cmd = call.op, !.lba = LbaSent(call),
                              !.left = call.count])
    /\ UNCHANGED <<medium, call, res, faults, late>>

AfterSectorEarly(c) == IF c.s + 1 < c.count THEN "bsy" ELSE IF c.op = "write" THEN "end" ELSE "done"
(* After a sector the drive is waited for again. *)
AfterSector(c) == IF c.s < c.count THEN "bsy" ELSE IF c.op = "write" THEN "end" ELSE "done"

(* The 256 words of a sector. *)
MoveIn ==
    /\ pc = "move" /\ call.op = "read"
    /\ LET n == call.s + 1
           get(v) == call' = [call EXCEPT !.buf[n] = v, !.s = n]
       IN  \/ /\ drive.st = "data" /\ drive.cmd = "read"
              /\ get(drive.held)
              /\ drive' = [drive EXCEPT !.held = None, !.lba = @ + 1, !.left = @ - 1,
                                        !.st = IF drive.left > 1 THEN "busy" ELSE "rest"]
           \/ /\ ~(drive.st = "data" /\ drive.cmd = "read")
              /\ \E v \in Vals : get(v)
              /\ UNCHANGED drive
    /\ pc' = AfterSector(call')
    /\ UNCHANGED <<medium, res, faults, late>>

MoveOut ==
    /\ pc = "move" /\ call.op = "write"
    /\ call' = [call EXCEPT !.s = @ + 1]
    /\ drive' = IF drive.st = "data" /\ drive.cmd = "write"
                THEN [drive EXCEPT !.held = call.buf[call.s + 1], !.st = "busy"]
                ELSE drive
    /\ pc' = AfterSector(call')
    /\ UNCHANGED <<medium, res, faults, late>>

(* write_disk ends with a flush; its status is only looked at for BSY.     *)
Flush ==
    /\ pc = "flush" /\ pc' = "last"
    /\ Command([drive EXCEPT !.st = "busy", !.cmd = "flush", !.err = FALSE])
    /\ UNCHANGED <<medium, call, res, faults, late>>

Done ==
    /\ pc = "done" /\ Returns("ok")
    /\ UNCHANGED <<medium, drive, faults, late>>

Driver ==
    \/ Refuse \/ WaitBsy("select", "issue") \/ Issue \/ WaitBsy("bsy", "drq") \/ WaitDrq
    \/ MoveIn \/ MoveOut \/ WaitBsy("end", "flush") \/ Flush \/ WaitBsy("last", "done") \/ Done
-----------------------------------------------------------------------------
(* The drive works on its command. *)
Works(d) == drive' = d /\ UNCHANGED <<pc, call, res, faults, late>>

DriveReads ==
    /\ drive.st = "busy" /\ drive.cmd = "read"
    /\ Works([drive EXCEPT !.st = "data", !.held = medium[drive.lba]])
    /\ UNCHANGED medium

DriveAsks ==
    /\ drive.st = "busy" /\ drive.cmd = "write" /\ drive.held = None
    /\ Works([drive EXCEPT !.st = "data"]) /\ UNCHANGED medium

DriveStores ==
    /\ drive.st = "busy" /\ drive.cmd = "write" /\ drive.held # None
    /\ medium' = [medium EXCEPT ![drive.lba] = drive.held]
    /\ Works([drive EXCEPT !.held = None, !.lba = @ + 1, !.left = @ - 1,
                           !.st = IF drive.left > 1 THEN "data" ELSE "rest"])

DriveFlushes ==
    /\ drive.st = "busy" /\ drive.cmd = "flush"
    /\ Works([drive EXCEPT !.st = "rest"]) /\ UNCHANGED medium

DriveFails ==
    /\ drive.st = "busy" /\ faults < MaxFaults /\ faults' = faults + 1
    /\ drive' \in {[drive EXCEPT !.st = "rest", !.err = TRUE, !.held = None],
                   [drive EXCEPT !.hung = TRUE]}
    /\ UNCHANGED <<medium, pc, call, res, late>>

Drive == /\ ~drive.hung
         /\ DriveReads \/ DriveAsks \/ DriveStores \/ DriveFlushes \/ DriveFails

(* Callers ask for one sector (fat32.c, gpt.c) or more, and may be wrong.  *)
Jobs == {[op |-> op, lba |-> lba, count |-> n, buf |-> b] :
           op \in {"read", "write"}, lba \in 0 .. Sectors, n \in 0 .. (MaxCount + 1),
           b \in UNION {Bufs(k) : k \in 0 .. (MaxCount + 1)}}

Next ==
    \/ \E j \in Jobs : Len(j.buf) = j.count /\ Begin(j.op, j.lba, j.count, j.buf)
    \/ Driver
    \/ Drive

Spec == Init /\ [][Next]_vars

(* The loops of the driver end by themselves; nothing is asked of drives.  *)
FairSpec == Spec /\ WF_vars(Driver)
-----------------------------------------------------------------------------
(* A call has sent its command to the drive. *)
Issued == pc \in {"bsy", "drq", "move", "end", "flush", "last", "done"}

TypeOK ==
    /\ medium \in [Sects -> Vals]
    /\ drive.st \in {"busy", "data", "rest"} /\ {drive.err, drive.hung, late} \subseteq BOOLEAN
    /\ drive.left > 0 => drive.lba \in Sects
    /\ drive.left \in 0 .. MaxCount /\ drive.held \in Vals \cup {None}
    /\ pc \in {"idle", "refuse", "select", "issue"} \/ Issued
    /\ call.buf \in Bufs(call.count)
    /\ Issued => call.s \in 0 .. call.count
    /\ faults \in 0 .. MaxFaults

(* While no poll has timed out, driver and drive are at the same sector,   *)
(* and a call that starts finds the drive with nothing left of another.    *)
InStep == ~late =>
    /\ pc \in {"idle", "refuse", "select", "issue"} => drive.st = "rest"
    /\ pc = "move" => drive.left = call.count - call.s /\ drive.lba = call.lba + call.s
    /\ pc = "done" => drive.left \in {0, 1} /\ (call.op = "read" => drive.left = 0)

(* The states of the driver and the drive fit each other.                  *)
DriverSound == TypeOK /\ InStep

Device == INSTANCE BlockDevice WITH
    NoJob  <- NoCall,
    Jobs   <- [op : {"read", "write"}, lba : 0 .. Sectors, count : 0 .. (MaxCount + 1),
               buf : UNION {Bufs(k) : k \in 0 .. (MaxCount + 1)}, s : {0}],
    store  <- medium,
    job    <- [call EXCEPT !.s = 0],
    moved  <- IF call.op = "read" THEN call.s ELSE IF Issued THEN call.count - drive.left ELSE 0,
    out    <- res,
    unsure <- late

(* The driver is a device that moves the sectors it is asked for.          *)
ImplementsDevice == Device!Spec

(* Every call returns, whatever the drive does. *)
CallsReturn == pc # "idle" ~> pc = "idle"
=============================================================================
