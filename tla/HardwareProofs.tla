--------------------------- MODULE HardwareProofs ---------------------------
(***************************************************************************)
(* Proofs about AtaDisk, Irq, Boot, FatMount and Gpt, the components that  *)
(* talk to the machine, its firmware and the drives that come with it.     *)
(*                                                                         *)
(* For every size of disk, every length of a call and any number of        *)
(* failures: until a poll times out, driver and drive are at the same      *)
(* sector, and the driver is a device that moves the sectors it is asked   *)
(* for.                                                                    *)
(*                                                                         *)
(* For controllers with any number of lines, whichever of them are the     *)
(* keyboard's, the cascade and other drivers', and however many keys and   *)
(* spurious requests come: the processor and the controllers agree on what *)
(* is being handled at every step of the dispatcher.                       *)
(*                                                                         *)
(* For every memory, every list of displays and a firmware that takes      *)
(* pages and fails when it likes: what the loader hands the kernel is true *)
(* when the kernel is entered.                                             *)
(*                                                                         *)
(* For every set of drives whose sectors and clusters 32 bits can number,  *)
(* whatever partition tables and FSINFO say, any number of objects and of  *)
(* failures: what is mounted is a FAT32 volume, its areas are apart, the   *)
(* list has what is mounted, FSINFO that was right stays right, and the    *)
(* first sector is kept from all but objects whose unmounting failed.      *)
(*                                                                         *)
(* For every partition table: a first partition for EFI is found.          *)
(***************************************************************************)
EXTENDS AtaDisk, Iteration

Ops  == {"read", "write"}
Cmds == {"none", "read", "write", "flush"}

(* The driver waits for a sector, or moves it. *)
Moving == pc \in {"bsy", "drq", "move"}

DriveSet == [st : {"busy", "data", "rest"}, err : BOOLEAN, cmd : Cmds, lba : Nat,
             left : 0 .. MaxCount, held : Vals \cup {None}, hung : BOOLEAN]

DriveTypes ==
    /\ drive \in DriveSet
    /\ medium \in [Sects -> Vals]

CallSet == [op : Ops \cup {"none"}, lba : Nat, count : Nat, buf : Seq(Vals), s : Nat]

CallTypes ==
    /\ call \in CallSet
    /\ call.buf \in Bufs(call.count)
    /\ pc \in {"idle", "refuse", "select", "issue"} \/ Issued
    /\ faults \in 0 .. MaxFaults /\ late \in BOOLEAN

(* A call that is running was not refused. *)
CallFits ==
    /\ pc = "idle" => call = NoCall
    /\ pc # "idle" => call.op \in Ops
    /\ pc \notin {"idle", "refuse"} => call.count \in 1 .. MaxCount /\ call.lba + call.count <= Sectors
    /\ ~Issued => call.s = 0
    /\ Moving => call.s < call.count
    /\ pc \in {"end", "flush", "last", "done"} => call.s = call.count
    /\ pc \in {"end", "flush", "last"} => call.op = "write"

(* What the drive has left to do is on the disk. *)
DriveFits ==
    /\ drive.left > 0 => drive.lba + drive.left <= Sectors
    /\ drive.st # "rest" => drive.cmd # "none"
    /\ drive.st # "rest" /\ drive.cmd \in Ops => drive.left > 0
    /\ drive.st = "data" => drive.cmd \in Ops
    /\ drive.st = "data" /\ drive.cmd = "read" => drive.held # None
    /\ drive.err => drive.st = "rest"

(* The drive is at the sector the driver is at. *)
SameSector == drive.left = call.count - call.s /\ drive.lba = call.lba + call.s

(* The drive is still to store the sector the driver has just moved. *)
OneBehind == /\ drive.left = call.count - call.s + 1 /\ drive.lba + 1 = call.lba + call.s
             /\ call.s > 0 /\ drive.held = call.buf[call.s]

(* Where the drive is, for each place of the driver. *)
Together ==
    /\ pc \in {"idle", "refuse", "select", "issue"} => drive.st = "rest"
    /\ Moving =>
         /\ drive.cmd = call.op
         /\ drive.st = "rest" => drive.err
         /\ drive.st # "rest" =>
              \/ SameSector /\ (call.op = "write" => drive.held = None)
              \/ OneBehind /\ drive.st = "busy" /\ call.op = "write"
    /\ pc = "move" => drive.st = "data"
    /\ drive.st = "data" /\ drive.cmd = "read" => drive.held = medium[drive.lba]
    /\ pc = "end" =>
         /\ drive.cmd = "write" /\ drive.st # "data" /\ drive.left \in {0, 1}
         /\ drive.st = "busy" => OneBehind
    /\ pc = "flush" => drive.st = "rest" /\ drive.left \in {0, 1}
    /\ pc = "last" => drive.cmd = "flush" /\ drive.st # "data" /\ drive.left \in {0, 1}
    /\ pc = "done" => /\ drive.st = "rest" /\ drive.left \in {0, 1}
                      /\ call.op = "read" => drive.left = 0

IInv == DriveTypes /\ CallTypes /\ CallFits /\ DriveFits /\ (~late => Together)

LEMMA Constants ==
    /\ Sectors \in Nat /\ Sectors > 0 /\ MaxCount \in Nat /\ MaxCount > 0 /\ MaxFaults \in Nat
    /\ Vals \subseteq Nat /\ None \notin Vals
  BY DiskAssumption DEF None

LEMMA EmptyBuf == <<>> \in Bufs(0) /\ <<>> \in Seq(Vals)
  BY Constants DEF Bufs

LEMMA InitHolds == ASSUME Init PROVE IInv
  <1> USE Constants DEF Init, AtRest, NoCall
  <1>1. DriveTypes  BY DEF DriveTypes, DriveSet, Cmds
  <1>2. CallTypes
    <2>1. call \in CallSet
      BY EmptyBuf DEF CallSet, Ops
    <2>2. call.buf \in Bufs(call.count)  BY EmptyBuf
    <2>3. late \in BOOLEAN  BY Zenon
    <2>4. faults \in 0 .. MaxFaults  OBVIOUS
    <2> QED BY <2>1, <2>2, <2>3, <2>4 DEF CallTypes, CallSet
  <1>3. CallFits /\ DriveFits /\ Together  BY DEF CallFits, DriveFits, Together, Issued, Moving
  <1> QED BY <1>1, <1>2, <1>3 DEF IInv

(* A call begins with a buffer of its own. *)
LEMMA JobIs ==
    ASSUME NEW j \in Jobs, Len(j.buf) = j.count
    PROVE  /\ j.op \in Ops /\ j.lba \in 0 .. Sectors /\ j.count \in 0 .. (MaxCount + 1)
           /\ j.buf \in Bufs(j.count) /\ j.buf \in Seq(Vals)
  <1>1. j.op \in Ops /\ j.lba \in 0 .. Sectors /\ j.count \in 0 .. (MaxCount + 1)  BY DEF Jobs, Ops
  <1>2. j.buf \in Bufs(j.count)  BY DEF Jobs, Bufs
  <1> QED BY <1>1, <1>2 DEF Bufs

LEMMA BeginKeeps ==
    ASSUME IInv, NEW j \in Jobs, Len(j.buf) = j.count, Begin(j.op, j.lba, j.count, j.buf)
    PROVE  IInv'
  <1> USE Constants DEF Begin, NoCall
  <1>1. /\ j.op \in Ops /\ j.lba \in 0 .. Sectors /\ j.count \in 0 .. (MaxCount + 1)
        /\ j.buf \in Bufs(j.count) /\ j.buf \in Seq(Vals)
    BY JobIs
  <1>2. DriveTypes'  BY DEF IInv, DriveTypes, DriveSet
  <1>3. CallTypes'  BY <1>1 DEF IInv, CallTypes, CallSet
  <1>4. CallFits'  BY <1>1 DEF IInv, CallFits, InRange, Issued, Moving
  <1>5. DriveFits'  BY DEF IInv, DriveFits
  <1>6. ~late' => Together'  BY DEF IInv, Together, Moving
  <1> QED BY <1>2, <1>3, <1>4, <1>5, <1>6 DEF IInv

(* The call ends, with whatever it has in its buffer. *)
LEMMA ReturnKeeps ==
    ASSUME IInv, NEW e, Returns(e), UNCHANGED <<medium, drive, faults>>,
           late' \/ (~late /\ ~late' /\ drive.st = "rest"), late' \in BOOLEAN
    PROVE  IInv'
  <1> USE Constants DEF Returns, NoCall
  <1>1. DriveTypes' /\ DriveFits'  BY DEF IInv, DriveTypes, DriveSet, DriveFits
  <1>2. CallTypes'  BY EmptyBuf DEF IInv, CallTypes, CallSet, Ops
  <1>3. CallFits'  BY DEF CallFits, Issued, Moving
  <1>4. ~late' => Together'  BY DEF IInv, Together, Moving
  <1> QED BY <1>1, <1>2, <1>3, <1>4 DEF IInv

(* The loops that wait for the drive. *)
LEMMA WaitBsyKeeps ==
    ASSUME IInv, NEW l, NEW from, WaitBsy(from, l),
           \/ from = "select" /\ l = "issue"
           \/ from = "bsy" /\ l = "drq"
           \/ from = "end" /\ l = "flush"
           \/ from = "last" /\ l = "done"
    PROVE  IInv'
  <1>1. CASE drive.st # "busy" /\ pc' = l /\ UNCHANGED <<call, res, late>>
    <2> USE <1>1 DEF WaitBsy
    <2>1. DriveTypes' /\ DriveFits'  BY DEF IInv, DriveTypes, DriveSet, DriveFits
    <2>2. CallTypes'  BY DEF IInv, CallTypes, CallSet, Issued
    <2>3. CallFits'  BY DEF IInv, CallFits, Issued, Moving
    <2>4. ~late' => Together'
      <3>1. drive.st # "data" => drive.st = "rest"  BY DEF IInv, DriveTypes, DriveSet
      <3> QED BY <3>1 DEF IInv, CallFits, Together, Moving, SameSector, OneBehind
    <2> QED BY <2>1, <2>2, <2>3, <2>4 DEF IInv
  <1>2. CASE late' = TRUE /\ Failed
    BY <1>2, ReturnKeeps DEF WaitBsy, Failed
  <1>3. CASE UNCHANGED <<pc, call, res, late>>
    BY <1>3 DEF WaitBsy, IInv, DriveTypes, DriveSet, DriveFits, CallTypes, CallSet, CallFits, Together,
                Issued, Moving, SameSector, OneBehind
  <1> QED BY <1>1, <1>2, <1>3 DEF WaitBsy

LEMMA WaitDrqKeeps == ASSUME IInv, WaitDrq PROVE IInv'
  <1>1. CASE ChecksError /\ Failed /\ UNCHANGED late
    <2>1. late' \in BOOLEAN /\ drive.st = "rest"
      BY <1>1 DEF IInv, CallTypes, CallSet, DriveFits, ChecksError
    <2> QED BY <1>1, <2>1, ReturnKeeps DEF WaitDrq, Failed
  <1>2. CASE drive.st = "data" /\ pc' = "move" /\ UNCHANGED <<call, res, late>>
    <2> USE <1>2 DEF WaitDrq
    <2>1. DriveTypes' /\ DriveFits'  BY DEF IInv, DriveTypes, DriveSet, DriveFits
    <2>2. CallTypes'  BY DEF IInv, CallTypes, CallSet, Issued
    <2>3. CallFits'  BY DEF IInv, CallFits, Issued, Moving
    <2>4. ~late' => Together'
      BY DEF IInv, CallFits, Together, Moving, SameSector, OneBehind
    <2> QED BY <2>1, <2>2, <2>3, <2>4 DEF IInv
  <1>3. CASE late' = TRUE /\ Failed
    BY <1>3, ReturnKeeps DEF WaitDrq, Failed
  <1> QED BY <1>1, <1>2, <1>3 DEF WaitDrq

(* A command starts the drive at the first sector of the call. *)
LEMMA IssueKeeps == ASSUME IInv, Issue PROVE IInv'
  <1> USE Constants DEF Issue
  <1>1. /\ call.op \in Ops /\ call.count \in 1 .. MaxCount /\ call.lba + call.count <= Sectors
        /\ call.lba \in Nat /\ call.s = 0
    BY DEF IInv, CallFits, CallTypes, CallSet, Issued
  <1>2. \/ drive' = [AtRest EXCEPT !.st = "busy", !.cmd = call.op, !.lba = call.lba, !.left = call.count]
        \/ drive.st = "data" /\ drive' = drive
    BY DEF Command, LbaSent
  <1>3. DriveTypes' /\ DriveFits'
    <2>1. CASE drive' = [AtRest EXCEPT !.st = "busy", !.cmd = call.op, !.lba = call.lba, !.left = call.count]
      <3>1. /\ call.op \in Cmds \ {"none"} /\ call.count \in 0 .. MaxCount /\ call.count > 0
        BY <1>1 DEF Ops, Cmds
      <3>2. drive' \in DriveSet
        BY <1>1, <2>1, <3>1 DEF AtRest, DriveSet
      <3>3. /\ drive'.st = "busy" /\ drive'.cmd = call.op /\ drive'.lba = call.lba
            /\ drive'.left = call.count /\ ~drive'.err
        BY <2>1 DEF AtRest
      <3> QED BY <1>1, <3>1, <3>2, <3>3 DEF IInv, DriveTypes, DriveSet, DriveFits
    <2>2. CASE drive' = drive
      BY <2>2 DEF IInv, DriveTypes, DriveSet, DriveFits
    <2> QED BY <1>2, <2>1, <2>2
  <1>5. ~late => /\ drive'.st = "busy" /\ drive'.cmd = call.op /\ drive'.lba = call.lba
                 /\ drive'.left = call.count /\ drive'.held = None
    BY <1>2 DEF IInv, Together, AtRest
  <1>7. CallTypes'  BY DEF IInv, CallTypes, CallSet, Issued
  <1>8. CallFits'  BY <1>1 DEF IInv, CallFits, Issued, Moving
  <1>9. ~late' => Together'
    BY <1>1, <1>5 DEF Together, Moving, SameSector, OneBehind, Ops
  <1> QED BY <1>3, <1>7, <1>8, <1>9 DEF IInv

(* Sending the flush. *)
LEMMA FlushKeeps == ASSUME IInv, Flush PROVE IInv'
  <1> USE Constants DEF Flush
  <1>1. \/ drive' = [drive EXCEPT !.st = "busy", !.cmd = "flush", !.err = FALSE]
        \/ drive.st = "data" /\ drive' = drive
    BY DEF Command
  <1>2. ~late => drive' = [drive EXCEPT !.st = "busy", !.cmd = "flush", !.err = FALSE]
    BY <1>1 DEF IInv, Together
  <1>3. DriveTypes'
    <2>1. drive \in DriveSet /\ medium \in [Sects -> Vals]  BY DEF IInv, DriveTypes
    <2>2. drive' \in DriveSet  BY <1>1, <2>1 DEF DriveSet, Cmds
    <2> QED BY <2>1, <2>2 DEF DriveTypes
  <1>4. DriveFits'  BY <1>1 DEF IInv, DriveFits, DriveTypes, DriveSet, Ops
  <1>5. CallTypes'  BY DEF IInv, CallTypes, CallSet, Issued
  <1>6. CallFits'  BY DEF IInv, CallFits, Issued, Moving
  <1>7. ~late' => Together'
    BY <1>2 DEF IInv, Together, Moving, DriveTypes, DriveSet
  <1> QED BY <1>3, <1>4, <1>5, <1>6, <1>7 DEF IInv

LEMMA DoneKeeps == ASSUME IInv, Done PROVE IInv'
  <1>1. ~late => drive.st = "rest"  BY DEF Done, IInv, Together
  <1>2. late' = late /\ late \in BOOLEAN  BY DEF Done, IInv, CallTypes, CallSet
  <1> QED BY <1>1, <1>2, ReturnKeeps DEF Done

LEMMA RefuseKeeps == ASSUME IInv, Refuse PROVE IInv'
  <1>1. ~late => drive.st = "rest"  BY DEF Refuse, IInv, Together
  <1>2. late' = late /\ late \in BOOLEAN  BY DEF Refuse, IInv, CallTypes, CallSet
  <1> QED BY <1>1, <1>2, ReturnKeeps DEF Refuse, Failed

(* A buffer in which one sector is changed. *)
LEMMA BufChanged ==
    ASSUME NEW k \in Nat, NEW b \in Bufs(k), NEW n \in 1 .. k, NEW v \in Vals
    PROVE  [b EXCEPT ![n] = v] \in Bufs(k) /\ [b EXCEPT ![n] = v] \in Seq(Vals)
  BY DEF Bufs

(* The fields of a call in which a sector was moved.                       *)
LEMMA CallMoved ==
    ASSUME call \in CallSet, NEW b \in Seq(Vals), NEW k \in Nat, call' = [call EXCEPT !.buf = b, !.s = k]
    PROVE  /\ call' \in CallSet
           /\ call'.op = call.op /\ call'.lba = call.lba /\ call'.count = call.count
           /\ call'.buf = b /\ call'.s = k
  BY DEF CallSet

(* The drive when it has another sector or another state. *)
Shifted(st, lba, left, held) ==
    [drive EXCEPT !.st = st, !.lba = lba, !.left = left, !.held = held]

(* Where a call is after one more sector. *)
LEMMA SectorDone ==
    ASSUME IInv, pc = "move", call'.count = call.count, call'.s = call.s + 1, call'.op = call.op,
           pc' = AfterSector(call')
    PROVE  /\ call.count \in 1 .. MaxCount /\ call.s \in Nat /\ call.s + 1 <= call.count
           /\ \/ pc' = "bsy" /\ call'.s < call.count
              \/ pc' = "end" /\ call.op = "write" /\ call'.s = call.count
              \/ pc' = "done" /\ call.op = "read" /\ call'.s = call.count
  <1>1. /\ call.count \in 1 .. MaxCount /\ call.s \in Nat /\ call.s < call.count
        /\ call.op \in Ops
    BY DEF IInv, CallFits, CallTypes, CallSet, Moving
  <1> QED BY <1>1, Constants DEF AfterSector, Ops

(* Reading a sector's words. *)
LEMMA MoveInKeeps == ASSUME IInv, MoveIn PROVE IInv'
  <1> USE Constants
  <1> DEFINE n == call.s + 1
             asked == drive.st = "data" /\ drive.cmd = "read"
  <1>1. /\ call \in CallSet
        /\ call.buf \in Bufs(call.count) /\ call.op = "read" /\ pc = "move" /\ Issued
        /\ call.lba + call.count <= Sectors
        /\ call.lba \in Nat /\ call.count \in Nat /\ call.s \in Nat
    BY DEF IInv, CallTypes, CallSet, MoveIn, CallFits, Issued
  <1>2. PICK v \in Vals : /\ call' = [call EXCEPT !.buf[n] = v, !.s = n]
                          /\ asked => v = drive.held
    <2>1. CASE asked
      <3>1. drive.held \in Vals  BY <2>1 DEF IInv, DriveTypes, DriveSet, DriveFits
      <3> QED BY <2>1, <3>1 DEF MoveIn
    <2> QED BY <2>1 DEF MoveIn
  <1>b. n \in 1 .. call.count /\ n \in Nat
    BY <1>1 DEF IInv, CallFits, Moving, CallSet
  <1>3. /\ call' \in CallSet /\ call'.buf \in Bufs(call.count)
        /\ call'.count = call.count /\ call'.op = call.op /\ call'.lba = call.lba /\ call'.s = n
    <2>1. call' = [call EXCEPT !.buf = [call.buf EXCEPT ![n] = v], !.s = n]  BY <1>2
    <2>2. [call.buf EXCEPT ![n] = v] \in Bufs(call.count) /\ [call.buf EXCEPT ![n] = v] \in Seq(Vals)
      BY <1>1, <1>b, BufChanged DEF CallSet
    <2> QED BY <1>1, <1>b, <2>1, <2>2, CallMoved
  <1>u. pc' = AfterSector(call') /\ UNCHANGED <<medium, res, faults, late>>  BY DEF MoveIn
  <1>4. /\ n \in 1 .. call.count /\ call.count \in 1 .. MaxCount
        /\ \/ pc' = "bsy" /\ n < call.count
           \/ pc' = "done" /\ n = call.count
    BY <1>1, <1>3, <1>u, SectorDone
  <1>5. CallTypes'
    BY <1>3, <1>4, <1>u DEF IInv, CallTypes, Issued
  <1>6. CallFits'
    BY <1>1, <1>3, <1>4 DEF IInv, CallFits, Moving, Issued, MoveIn
  <1>7. CASE asked
    <2>1. drive' = [drive EXCEPT !.held = None, !.lba = @ + 1, !.left = @ - 1,
                                 !.st = IF drive.left > 1 THEN "busy" ELSE "rest"]
      BY <1>7 DEF MoveIn
    <2>2. /\ drive.left \in 1 .. MaxCount /\ drive.lba \in Nat /\ drive.lba + drive.left <= Sectors
          /\ ~drive.err
      BY <1>7 DEF IInv, DriveTypes, DriveSet, DriveFits, Ops
    <2>4. /\ drive' \in DriveSet
          /\ drive'.lba = drive.lba + 1 /\ drive'.left = drive.left - 1 /\ drive'.cmd = "read"
          /\ drive'.st = IF drive.left > 1 THEN "busy" ELSE "rest"
          /\ drive'.err = drive.err
      <3> DEFINE st == IF drive.left > 1 THEN "busy" ELSE "rest"
      <3>1. drive' = Shifted(st, drive.lba + 1, drive.left - 1, None)
        BY <2>1 DEF Shifted
      <3>2. st \in {"busy", "data", "rest"}  OBVIOUS
      <3> HIDE DEF st
      <3>3. drive \in DriveSet /\ drive.lba + 1 \in Nat /\ drive.left - 1 \in 0 .. MaxCount
        BY <2>2 DEF IInv, DriveTypes, DriveSet
      <3>4. /\ drive' \in DriveSet /\ drive'.st = st /\ drive'.lba = drive.lba + 1
            /\ drive'.left = drive.left - 1 /\ drive'.cmd = drive.cmd /\ drive'.err = drive.err
        BY <3>1, <3>2, <3>3 DEF DriveSet, Shifted
      <3> QED BY <1>7, <3>4 DEF st
    <2>3. DriveTypes'  BY <1>u, <2>4 DEF IInv, DriveTypes, DriveSet
    <2>5. DriveFits'  BY <2>2, <2>4 DEF DriveFits, Ops
    <2>6. ~late' => Together'
      <3> SUFFICES ASSUME ~late PROVE Together'  BY DEF MoveIn
      <3>1. drive.left = call.count - call.s /\ drive.lba = call.lba + call.s
        BY <1>1, <1>7 DEF IInv, Together, SameSector, Moving
      <3>2. SameSector'  BY <1>1, <1>3, <2>2, <2>4, <3>1 DEF SameSector
      <3> QED BY <1>1, <1>3, <1>4, <2>2, <2>4, <3>1, <3>2 DEF Together, Moving
    <2> QED BY <1>5, <1>6, <2>3, <2>5, <2>6 DEF IInv
  <1>8. CASE ~asked
    <2>1. late /\ late' /\ drive' = drive /\ medium' = medium
      BY <1>1, <1>8 DEF IInv, Together, Moving, MoveIn
    <2>2. DriveTypes' /\ DriveFits'  BY <2>1 DEF IInv, DriveTypes, DriveSet, DriveFits
    <2> QED BY <1>5, <1>6, <2>1, <2>2 DEF IInv
  <1> QED BY <1>7, <1>8

(* Writing a sector's words. *)
LEMMA MoveOutKeeps == ASSUME IInv, MoveOut PROVE IInv'
  <1> USE Constants
  <1> DEFINE asked == drive.st = "data" /\ drive.cmd = "write"
  <1>1. /\ call \in CallSet
        /\ call.buf \in Bufs(call.count) /\ call.op = "write" /\ pc = "move" /\ Issued
        /\ call.lba + call.count <= Sectors
        /\ call.lba \in Nat /\ call.count \in Nat /\ call.s \in Nat
    BY DEF IInv, CallTypes, CallSet, MoveOut, CallFits, Issued
  <1>2. call' = [call EXCEPT !.buf = call.buf, !.s = call.s + 1]  BY <1>1 DEF MoveOut, CallSet
  <1>3. /\ call' \in CallSet /\ call'.count = call.count /\ call'.op = call.op /\ call'.lba = call.lba
        /\ call'.s = call.s + 1 /\ call'.buf = call.buf
    <2>1. call.buf \in Seq(Vals) /\ call.s + 1 \in Nat  BY <1>1 DEF CallSet
    <2> QED BY <1>1, <1>2, <2>1, CallMoved
  <1>u. pc' = AfterSector(call') /\ UNCHANGED <<medium, res, faults, late>>  BY DEF MoveOut
  <1>4. /\ call.s + 1 \in 1 .. call.count /\ call.count \in 1 .. MaxCount
        /\ \/ pc' = "bsy" /\ call.s + 1 < call.count
           \/ pc' = "end" /\ call.s + 1 = call.count
    BY <1>1, <1>3, <1>u, SectorDone
  <1>5. CallTypes'
    BY <1>1, <1>3, <1>4, <1>u DEF IInv, CallTypes, Issued
  <1>6. CallFits'
    BY <1>1, <1>3, <1>4 DEF IInv, CallFits, Moving, Issued, MoveOut
  <1>7. CASE asked
    <2>1. drive' = [drive EXCEPT !.held = call.buf[call.s + 1], !.st = "busy"]
      BY <1>7 DEF MoveOut
    <2>2. call.buf[call.s + 1] \in Vals  BY <1>1, <1>4 DEF Bufs
    <2>3. drive.left > 0 /\ ~drive.err  BY <1>7 DEF IInv, DriveFits, Ops
    <2>4. DriveTypes'  BY <2>1, <2>2 DEF IInv, DriveTypes, DriveSet, MoveOut
    <2>5. /\ drive'.lba = drive.lba /\ drive'.left = drive.left /\ drive'.cmd = "write"
          /\ drive'.st = "busy" /\ drive'.held = call.buf[call.s + 1] /\ drive'.err = drive.err
      BY <1>7, <2>1 DEF IInv, DriveTypes, DriveSet
    <2>6. DriveFits'  BY <2>3, <2>5 DEF IInv, DriveFits
    <2>7. ~late' => Together'
      <3> SUFFICES ASSUME ~late PROVE Together'  BY DEF MoveOut
      <3>1. drive.left = call.count - call.s /\ drive.lba = call.lba + call.s
        BY <1>1, <1>7 DEF IInv, Together, SameSector, Moving
      <3>2. drive.left \in Nat /\ drive.lba \in Nat /\ call.lba \in Nat  BY <1>1 DEF IInv, DriveTypes, DriveSet, CallSet
      <3>3. OneBehind'  BY <1>1, <1>3, <2>5, <3>1, <3>2 DEF OneBehind
      <3>4. pc' = "end" => drive'.left = 1  BY <1>1, <1>4, <2>5, <3>1, <3>2
      <3> QED BY <1>1, <1>3, <1>4, <2>5, <3>3, <3>4 DEF Together, Moving
    <2> QED BY <1>5, <1>6, <2>4, <2>6, <2>7 DEF IInv
  <1>8. CASE ~asked
    <2>1. late /\ late' /\ drive' = drive /\ medium' = medium
      BY <1>1, <1>8 DEF IInv, Together, Moving, MoveOut
    <2>2. DriveTypes' /\ DriveFits'  BY <2>1 DEF IInv, DriveTypes, DriveSet, DriveFits
    <2> QED BY <1>5, <1>6, <2>1, <2>2 DEF IInv
  <1> QED BY <1>7, <1>8

(* The drive works, the driver does not: what is left to show of a step.   *)
LEMMA WorkKeeps ==
    ASSUME IInv, UNCHANGED <<pc, call, res, late>>, faults' \in 0 .. MaxFaults,
           DriveTypes', DriveFits', ~late => Together'
    PROVE  IInv'
  <1>1. CallTypes' /\ CallFits'
    BY DEF IInv, CallTypes, CallSet, CallFits, Issued, Moving
  <1> QED BY <1>1 DEF IInv

LEMMA DriveReadsKeeps == ASSUME IInv, DriveReads PROVE IInv'
  <1> USE Constants
  <1>1. /\ drive \in DriveSet /\ drive.lba \in Nat /\ drive.left \in 0 .. MaxCount /\ drive.left > 0
        /\ drive.st = "busy" /\ drive.cmd = "read" /\ drive.lba \in Sects /\ ~drive.err
        /\ drive.lba + drive.left <= Sectors
    BY DEF DriveReads, IInv, DriveTypes, DriveSet, DriveFits, Ops, Sects
  <1>2. medium[drive.lba] \in Vals  BY <1>1 DEF IInv, DriveTypes
  <1>3. drive' = [drive EXCEPT !.st = "data", !.lba = drive.lba, !.left = drive.left,
                               !.held = medium[drive.lba]]
    BY <1>1 DEF DriveReads, Works, DriveSet
  <1>4. /\ drive' \in DriveSet /\ drive'.st = "data" /\ drive'.lba = drive.lba
        /\ drive'.left = drive.left /\ drive'.held = medium[drive.lba]
        /\ drive'.cmd = "read" /\ drive'.err = drive.err
    <2> DEFINE st == "data"
    <2>1. st \in {"busy", "data", "rest"} /\ medium[drive.lba] \in Vals \cup {None}  BY <1>2
    <2>2. drive' = Shifted(st, drive.lba, drive.left, medium[drive.lba])
      BY <1>3 DEF Shifted
    <2> HIDE DEF st
    <2>3. /\ drive' \in DriveSet /\ drive'.st = st /\ drive'.lba = drive.lba /\ drive'.left = drive.left
          /\ drive'.held = medium[drive.lba] /\ drive'.cmd = drive.cmd /\ drive'.err = drive.err
      BY <1>1, <2>1, <2>2 DEF DriveSet, Shifted
    <2> QED BY <1>1, <2>3 DEF st
  <1>5. UNCHANGED <<medium, pc, call, res, faults, late>>  BY DEF DriveReads, Works
  <1>6. DriveTypes'  BY <1>4, <1>5 DEF IInv, DriveTypes
  <1>7. DriveFits'  BY <1>1, <1>2, <1>4 DEF DriveFits, Ops
  <1>8. ~late => Together'
    BY <1>1, <1>4, <1>5 DEF IInv, Together, Moving, SameSector, OneBehind
  <1>9. faults' \in 0 .. MaxFaults  BY <1>5 DEF IInv, CallTypes
  <1> QED BY <1>5, <1>6, <1>7, <1>8, <1>9, WorkKeeps

LEMMA DriveAsksKeeps == ASSUME IInv, DriveAsks PROVE IInv'
  <1> USE Constants
  <1>1. /\ drive \in DriveSet /\ drive.lba \in Nat /\ drive.left \in 0 .. MaxCount /\ drive.left > 0
        /\ drive.st = "busy" /\ drive.cmd = "write" /\ drive.held = None /\ ~drive.err
        /\ drive.lba + drive.left <= Sectors
    BY DEF DriveAsks, IInv, DriveTypes, DriveSet, DriveFits, Ops
  <1>3. drive' = Shifted("data", drive.lba, drive.left, None)
    BY <1>1 DEF DriveAsks, Works, DriveSet, Shifted
  <1>4. /\ drive' \in DriveSet /\ drive'.st = "data" /\ drive'.lba = drive.lba
        /\ drive'.left = drive.left /\ drive'.held = None
        /\ drive'.cmd = "write" /\ drive'.err = drive.err
    <2> DEFINE st == "data"
    <2>1. st \in {"busy", "data", "rest"} /\ None \in Vals \cup {None}  OBVIOUS
    <2>2. drive' = Shifted(st, drive.lba, drive.left, None)
      BY <1>3 DEF Shifted
    <2> HIDE DEF st
    <2>3. /\ drive' \in DriveSet /\ drive'.st = st /\ drive'.lba = drive.lba /\ drive'.left = drive.left
          /\ drive'.held = None /\ drive'.cmd = drive.cmd /\ drive'.err = drive.err
      BY <1>1, <2>1, <2>2 DEF DriveSet, Shifted
    <2> QED BY <1>1, <2>3 DEF st
  <1>5. UNCHANGED <<medium, pc, call, res, faults, late>>  BY DEF DriveAsks, Works
  <1>6. DriveTypes'  BY <1>4, <1>5 DEF IInv, DriveTypes
  <1>7. DriveFits'  BY <1>1, <1>4 DEF DriveFits, Ops
  <1>8. ~late => Together'
    <2>1. OneBehind /\ call \in CallSet => drive.held \in Vals \/ ~Moving
      BY DEF OneBehind, IInv, CallFits, CallTypes, CallSet, Bufs, Moving
    <2>2. call \in CallSet  BY DEF IInv, CallTypes
    <2>3. pc = "end" /\ ~late => call.s \in 1 .. call.count
      BY <1>1 DEF IInv, CallFits, Together, OneBehind, CallTypes, CallSet
    <2>4. pc = "end" /\ ~late => drive.held \in Vals
      BY <1>1, <2>3 DEF IInv, CallTypes, Together, OneBehind, Bufs
    <2> QED BY <1>1, <1>4, <1>5, <2>1, <2>2, <2>4 DEF IInv, Together, Moving, SameSector
  <1>9. faults' \in 0 .. MaxFaults  BY <1>5 DEF IInv, CallTypes
  <1> QED BY <1>5, <1>6, <1>7, <1>8, <1>9, WorkKeeps

LEMMA DriveStoresKeeps == ASSUME IInv, DriveStores PROVE IInv'
  <1> USE Constants
  <1> DEFINE st == IF drive.left > 1 THEN "data" ELSE "rest"
  <1>1. /\ drive \in DriveSet /\ drive.lba \in Nat /\ drive.left \in 1 .. MaxCount
        /\ drive.st = "busy" /\ drive.cmd = "write" /\ drive.held \in Vals /\ ~drive.err
        /\ drive.lba \in Sects /\ drive.lba + drive.left <= Sectors
    BY DEF DriveStores, IInv, DriveTypes, DriveSet, DriveFits, Ops, Sects
  <1>2. drive' = Shifted(st, drive.lba + 1, drive.left - 1, None)
    BY <1>1 DEF DriveStores, Works, Shifted
  <1>3. st \in {"busy", "data", "rest"} /\ drive.lba + 1 \in Nat /\ drive.left - 1 \in 0 .. MaxCount
    BY <1>1
  <1>4. /\ drive' \in DriveSet /\ drive'.lba = drive.lba + 1 /\ drive'.left = drive.left - 1
        /\ drive'.held = None /\ drive'.cmd = "write" /\ drive'.err = drive.err /\ drive'.st = st
    <2> DEFINE lba == drive.lba + 1
               left == drive.left - 1
    <2>1. None \in Vals \cup {None} /\ drive \in DriveSet  BY <1>1
    <2>2. /\ st \in {"busy", "data", "rest"} /\ lba \in Nat /\ left \in 0 .. MaxCount
          /\ drive' = Shifted(st, lba, left, None)
      BY <1>2, <1>3
    <2> HIDE DEF st, lba, left
    <2>3. /\ drive' \in DriveSet /\ drive'.lba = lba /\ drive'.left = left
          /\ drive'.held = None /\ drive'.cmd = drive.cmd /\ drive'.err = drive.err /\ drive'.st = st
      BY <2>1, <2>2 DEF DriveSet, Shifted
    <2> QED BY <1>1, <2>3 DEF lba, left
  <1>5. UNCHANGED <<pc, call, res, faults, late>>  BY DEF DriveStores, Works
  <1>6. medium' \in [Sects -> Vals]  BY <1>1 DEF DriveStores, IInv, DriveTypes
  <1>7. DriveTypes'  BY <1>4, <1>6 DEF DriveTypes
  <1>8. DriveFits'  BY <1>1, <1>4 DEF DriveFits, Ops
  <1>9. ~late => Together'
    <2>0. /\ call.s \in Nat /\ call.count \in Nat /\ call.lba \in Nat
          /\ pc = "end" => call.s = call.count
          /\ Moving => call.s < call.count
      BY DEF IInv, CallTypes, CallSet, CallFits
    <2>1. Moving /\ ~late => OneBehind /\ call.op = "write"
      BY <1>1 DEF IInv, Together
    <2>2. Moving /\ ~late => drive.left > 1 /\ SameSector'
      BY <1>1, <1>4, <1>5, <2>0, <2>1 DEF OneBehind, SameSector
    <2>3. pc = "end" /\ ~late => drive.left = 1
      BY <1>1, <2>0 DEF IInv, Together
    <2> QED BY <1>1, <1>4, <1>5, <2>2, <2>1, <2>3 DEF IInv, Together, Moving
  <1>10. faults' \in 0 .. MaxFaults  BY <1>5 DEF IInv, CallTypes
  <1> QED BY <1>5, <1>7, <1>8, <1>9, <1>10, WorkKeeps

LEMMA DriveFlushesKeeps == ASSUME IInv, DriveFlushes PROVE IInv'
  <1> USE Constants
  <1>1. /\ drive \in DriveSet /\ drive.lba \in Nat /\ drive.left \in 0 .. MaxCount
        /\ drive.st = "busy" /\ drive.cmd = "flush" /\ ~drive.err
        /\ drive.held \in Vals \cup {None}
    BY DEF DriveFlushes, IInv, DriveTypes, DriveSet, DriveFits
  <1>3. drive' = Shifted("rest", drive.lba, drive.left, drive.held)
    BY <1>1 DEF DriveFlushes, Works, DriveSet, Shifted
  <1>4. /\ drive' \in DriveSet /\ drive'.st = "rest" /\ drive'.lba = drive.lba
        /\ drive'.left = drive.left /\ drive'.cmd = "flush" /\ drive'.err = drive.err
    <2> DEFINE st == "rest"
    <2>1. st \in {"busy", "data", "rest"} /\ drive' = Shifted(st, drive.lba, drive.left, drive.held)
      BY <1>3
    <2> HIDE DEF st
    <2>2. /\ drive' \in DriveSet /\ drive'.st = st /\ drive'.lba = drive.lba
          /\ drive'.left = drive.left /\ drive'.cmd = drive.cmd /\ drive'.err = drive.err
      BY <1>1, <2>1 DEF DriveSet, Shifted
    <2> QED BY <1>1, <2>2 DEF st
  <1>5. UNCHANGED <<medium, pc, call, res, faults, late>>  BY DEF DriveFlushes, Works
  <1>6. DriveTypes'  BY <1>4, <1>5 DEF IInv, DriveTypes
  <1>7. DriveFits'  BY <1>1, <1>4 DEF IInv, DriveFits, Ops
  <1>8. ~late => Together'
    <2>1. ~late => ~Moving
      BY <1>1 DEF IInv, Together, Moving, CallFits, Ops
    <2> QED BY <1>1, <1>4, <1>5, <2>1 DEF IInv, Together, Moving
  <1>9. faults' \in 0 .. MaxFaults  BY <1>5 DEF IInv, CallTypes
  <1> QED BY <1>5, <1>6, <1>7, <1>8, <1>9, WorkKeeps

(* An error ends the command; a drive that hangs stays as it is. *)
LEMMA DriveFailsKeeps == ASSUME IInv, DriveFails PROVE IInv'
  <1> USE Constants
  <1>1. drive \in DriveSet /\ drive.st = "busy"  BY DEF DriveFails, IInv, DriveTypes
  <1>2. UNCHANGED <<medium, pc, call, res, late>> /\ faults' \in 0 .. MaxFaults
    BY DEF DriveFails, IInv, CallTypes
  <1>3. CASE drive' = [drive EXCEPT !.st = "rest", !.err = TRUE, !.held = None]
    <2>1. /\ drive'.st = "rest" /\ drive'.err /\ drive'.left = drive.left /\ drive'.lba = drive.lba
          /\ drive'.cmd = drive.cmd
      BY <1>1, <1>3 DEF DriveSet
    <2>2. DriveTypes'  BY <1>1, <1>2, <1>3 DEF IInv, DriveTypes, DriveSet
    <2>3. DriveFits'  BY <2>1 DEF IInv, DriveFits
    <2>4. ~late => Together'
      BY <1>1, <1>2, <2>1 DEF IInv, Together, Moving
    <2> QED BY <1>2, <2>2, <2>3, <2>4, WorkKeeps
  <1>4. CASE drive' = [drive EXCEPT !.hung = TRUE]
    <2>1. /\ drive'.st = drive.st /\ drive'.err = drive.err /\ drive'.left = drive.left
          /\ drive'.lba = drive.lba /\ drive'.cmd = drive.cmd /\ drive'.held = drive.held
      BY <1>1, <1>4 DEF DriveSet
    <2>2. DriveTypes'  BY <1>1, <1>2, <1>4 DEF IInv, DriveTypes, DriveSet
    <2>3. DriveFits'  BY <2>1 DEF IInv, DriveFits
    <2>4. ~late => Together'
      BY <1>1, <1>2, <2>1 DEF IInv, Together, Moving, SameSector, OneBehind
    <2> QED BY <1>2, <2>2, <2>3, <2>4, WorkKeeps
  <1> QED BY <1>3, <1>4 DEF DriveFails

(* Every step keeps the invariant. *)
LEMMA StepKeeps == ASSUME IInv, [Next]_vars PROVE IInv'
  <1>1. CASE \E j \in Jobs : Len(j.buf) = j.count /\ Begin(j.op, j.lba, j.count, j.buf)
    BY <1>1, BeginKeeps
  <1>2. CASE Driver
    BY <1>2, RefuseKeeps, WaitBsyKeeps, IssueKeeps, WaitDrqKeeps, MoveInKeeps, MoveOutKeeps,
       FlushKeeps, DoneKeeps DEF Driver
  <1>3. CASE Drive
    BY <1>3, DriveReadsKeeps, DriveAsksKeeps, DriveStoresKeeps, DriveFlushesKeeps, DriveFailsKeeps
       DEF Drive
  <1>4. CASE UNCHANGED vars
    BY <1>4 DEF vars, IInv, DriveTypes, DriveSet, DriveFits, CallTypes, CallSet, CallFits, Together,
                Issued, Moving, SameSector, OneBehind
  <1> QED BY <1>1, <1>2, <1>3, <1>4 DEF Next

LEMMA Inductive == Spec => []IInv
  BY InitHolds, StepKeeps, PTL DEF Spec

(* For every size of disk, every length of a call and any number of         *)
(* failures, a drive that no poll has given up is at the sector the driver  *)
(* is at, and has nothing left of an earlier call: what read_disk puts in   *)
(* the buffer, and write_disk on the disk, belongs there.                   *)
THEOREM DriverIsSound == Spec => []DriverSound
  <1>1. IInv => DriverSound
    <2> SUFFICES ASSUME IInv PROVE DriverSound  OBVIOUS
    <2> USE Constants
    <2>1. /\ drive \in DriveSet /\ medium \in [Sects -> Vals] /\ call \in CallSet
          /\ late \in BOOLEAN
      BY DEF IInv, DriveTypes, CallTypes
    <2>2. {drive.err, drive.hung, late} \subseteq BOOLEAN  BY <2>1 DEF DriveSet
    <2>3. drive.left > 0 => drive.lba \in Sects
      BY <2>1 DEF IInv, DriveFits, DriveSet, Sects
    <2>4. Issued => call.s \in 0 .. call.count
      BY <2>1 DEF Issued, IInv, CallFits, CallSet, Moving
    <2>5. TypeOK
      BY <2>1, <2>2, <2>3, <2>4 DEF TypeOK, IInv, CallTypes, DriveSet
    <2>6. InStep
      BY DEF IInv, InStep, Together, Moving, SameSector, OneBehind
    <2> QED BY <2>5, <2>6 DEF DriverSound
  <1> QED BY <1>1, Inductive, PTL
-----------------------------------------------------------------------------
(* The job and the sectors moved of the device that the driver implements. *)
Job   == [call EXCEPT !.s = 0]
Moved == IF call.op = "read" THEN call.s ELSE IF Issued THEN call.count - drive.left ELSE 0

LEMMA SameCall ==
    ASSUME NEW x \in CallSet, NEW y \in CallSet, x.op = y.op, x.lba = y.lba,
           x.count = y.count, x.buf = y.buf, x.s = y.s
    PROVE  x = y
  BY DEF CallSet

LEMMA JobFields ==
    ASSUME call \in CallSet
    PROVE  /\ Job \in CallSet /\ Job.op = call.op /\ Job.lba = call.lba
           /\ Job.count = call.count /\ Job.buf = call.buf /\ Job.s = 0
  BY DEF Job, CallSet

LEMMA NoJobYet == NoCall \in CallSet /\ [NoCall EXCEPT !.s = 0] = NoCall
  <1>1. NoCall \in CallSet  BY EmptyBuf DEF NoCall, CallSet
  <1>2. [NoCall EXCEPT !.s = 0] = NoCall  BY DEF NoCall
  <1> QED BY <1>1, <1>2

(* A call that is running is a job. *)
LEMMA Running ==
    ASSUME IInv, pc # "idle"
    PROVE  Job # NoCall /\ call \in CallSet /\ call.op \in Ops
  <1>1. call \in CallSet /\ call.op \in Ops  BY DEF IInv, CallTypes, CallFits
  <1>2. Job.op \in Ops  BY <1>1, JobFields
  <1> QED BY <1>1, <1>2 DEF NoCall, Ops

(* A call returns with what is in its buffer, and the device is free. *)
LEMMA ReturnFrees ==
    ASSUME IInv, pc # "idle", NEW e, Returns(e)
    PROVE  /\ Job # NoCall /\ Job' = NoCall /\ Moved' = 0 /\ res' = [end |-> e, buf |-> Job.buf]
  <1>1. Job # NoCall /\ Job.buf = call.buf  BY Running, JobFields
  <1>2. call' = NoCall /\ pc' = "idle"  BY DEF Returns
  <1>3. Job' = NoCall /\ Moved' = 0
    BY <1>2, NoJobYet DEF Job, Moved, Issued, NoCall
  <1> QED BY <1>1, <1>3 DEF Returns

(* Failing is a step of the device, unless a poll has timed out. *)
LEMMA FailingMaps ==
    ASSUME IInv, pc # "idle", Failed, UNCHANGED <<medium, late>>, late \in BOOLEAN
    PROVE  Device!Next
  <1>1. /\ Job # NoCall /\ Job' = NoCall /\ Moved' = 0
        /\ res' = [end |-> "failed", buf |-> Job.buf]
    BY ReturnFrees DEF Failed
  <1>2. Device!Fail  BY <1>1 DEF Device!Fail, Job, Moved
  <1> QED BY <1>2 DEF Device!Next

LEMMA BeginMaps ==
    ASSUME IInv, NEW j \in Jobs, Len(j.buf) = j.count, Begin(j.op, j.lba, j.count, j.buf)
    PROVE  Device!Next
  <1>1. Job = NoCall  BY NoJobYet DEF IInv, CallFits, Begin, Job
  <1>2. /\ j.op \in {"read", "write"} /\ j.lba \in 0 .. Sectors /\ j.count \in 0 .. (MaxCount + 1)
        /\ j.buf \in UNION {Bufs(k) : k \in 0 .. (MaxCount + 1)}
    BY DEF Jobs
  <1>3. call' = [op |-> j.op, lba |-> j.lba, count |-> j.count, buf |-> j.buf, s |-> 0]
    BY DEF Begin
  <1>4. Job' = call'  BY <1>3 DEF Job
  <1>5. Job' \in [op : {"read", "write"}, lba : 0 .. Sectors, count : 0 .. (MaxCount + 1),
                  buf : UNION {Bufs(k) : k \in 0 .. (MaxCount + 1)}, s : {0}]
    BY <1>2, <1>3, <1>4
  <1>6. pc' \in {"select", "refuse"} /\ UNCHANGED <<medium, late>> /\ res'.end = "none"
    BY DEF Begin, NoRes
  <1>7. Moved' = 0  BY <1>3, <1>6 DEF Moved, Issued
  <1>8. Device!Start  BY <1>1, <1>5, <1>6, <1>7 DEF Device!Start, Job, Moved
  <1>9. late \in BOOLEAN  BY DEF IInv, CallTypes
  <1> QED BY <1>6, <1>8, <1>9 DEF Device!Next

(* A step in which the device does not move. *)
LEMMA Stutters ==
    ASSUME UNCHANGED <<medium, res, late>>, Job' = Job, Moved' = Moved
    PROVE  UNCHANGED Device!vars
  BY DEF Device!vars, Job, Moved

LEMMA WaitBsyMaps ==
    ASSUME IInv, NEW l, NEW from, WaitBsy(from, l),
           \/ from = "select" /\ l = "issue"
           \/ from = "bsy" /\ l = "drq"
           \/ from = "end" /\ l = "flush"
           \/ from = "last" /\ l = "done"
    PROVE  [Device!Next]_(Device!vars)
  <1>1. CASE UNCHANGED <<call, res, late>> /\ (pc' = l \/ UNCHANGED pc)
    <2>1. Job' = Job /\ Moved' = Moved  BY <1>1 DEF WaitBsy, Job, Moved, Issued
    <2> QED BY <1>1, <2>1, Stutters DEF WaitBsy
  <1>2. CASE late' = TRUE
    BY <1>2 DEF Device!Next
  <1> QED BY <1>1, <1>2 DEF WaitBsy

LEMMA IssueMaps == ASSUME IInv, Issue PROVE [Device!Next]_(Device!vars)
  <1>1. CASE late'
    BY <1>1 DEF Device!Next
  <1>2. CASE ~late'
    <2>1. drive.st = "rest" /\ call.op \in Ops /\ call.s = 0 /\ call.count \in Nat /\ ~Issued
      BY <1>2 DEF Issue, IInv, Together, CallFits, CallTypes, CallSet, Issued
    <2>2. drive'.left = call.count  BY <2>1 DEF Issue, Command, AtRest
    <2>3. Moved' = Moved /\ Job' = Job
      BY <2>1, <2>2 DEF Issue, Moved, Job, Issued
    <2> QED BY <2>3, Stutters DEF Issue
  <1> QED BY <1>1, <1>2

LEMMA WaitDrqMaps == ASSUME IInv, WaitDrq PROVE [Device!Next]_(Device!vars)
  <1>1. CASE Failed /\ UNCHANGED late
    <2>1. late \in BOOLEAN  BY DEF IInv, CallTypes
    <2> QED BY <1>1, <2>1, FailingMaps DEF WaitDrq
  <1>2. CASE pc' = "move" /\ UNCHANGED <<call, res, late>>
    <2>1. Job' = Job /\ Moved' = Moved  BY <1>2 DEF WaitDrq, Job, Moved, Issued
    <2> QED BY <1>2, <2>1, Stutters DEF WaitDrq
  <1>3. CASE late' = TRUE
    BY <1>3 DEF Device!Next
  <1> QED BY <1>1, <1>2, <1>3 DEF WaitDrq

(* The sector read goes from the medium to its place in the buffer. *)
LEMMA MoveInMaps == ASSUME IInv, IInv', MoveIn PROVE [Device!Next]_(Device!vars)
  <1>1. CASE late'
    BY <1>1 DEF Device!Next
  <1>2. CASE ~late'
    <2> DEFINE n == call.s + 1
               b == [call.buf EXCEPT ![n] = drive.held]
    <2>1. /\ call \in CallSet /\ call.op = "read" /\ call.s \in Nat /\ call.count \in Nat
          /\ call.s < call.count /\ drive.lba = call.lba + call.s /\ drive.st = "data"
          /\ drive.cmd = "read" /\ drive.held = medium[drive.lba] /\ drive.held \in Vals
          /\ call.buf \in Bufs(call.count) /\ ~late
      BY <1>2, Constants DEF MoveIn, IInv, CallTypes, CallFits, CallSet, Together, Moving, SameSector,
         DriveTypes, DriveSet, DriveFits
    <2>2. /\ call' = [call EXCEPT !.buf[n] = drive.held, !.s = n]
          /\ UNCHANGED <<medium, res, late>>
      BY <2>1 DEF MoveIn
    <2>3. b \in Seq(Vals)  BY <2>1, BufChanged DEF CallSet
    <2>4. call' = [call EXCEPT !.buf = b, !.s = n] /\ n \in Nat  BY <2>1, <2>2
    <2>5. /\ call' \in CallSet /\ call'.op = call.op /\ call'.lba = call.lba
          /\ call'.count = call.count /\ call'.buf = b /\ call'.s = n
      <3> HIDE DEF b, n
      <3> QED BY <2>1, <2>3, <2>4, CallMoved
    <2>6. Job' \in CallSet /\ Job'.op = call.op /\ Job'.lba = call.lba
          /\ Job'.count = call.count /\ Job'.buf = b /\ Job'.s = 0
      <3> HIDE DEF b, n
      <3> QED BY <2>5 DEF Job, CallSet
    <2>7. Moved = call.s /\ Moved' = n  BY <2>1, <2>5 DEF Moved
    <2>8. Job' = [Job EXCEPT !.buf[n] = medium[call.lba + call.s]]
      <3>1. Job \in CallSet /\ Job.op = call.op /\ Job.lba = call.lba
            /\ Job.count = call.count /\ Job.buf = call.buf /\ Job.s = 0
        BY <2>1, JobFields
      <3>2. [Job EXCEPT !.buf[n] = medium[call.lba + call.s]] = [Job EXCEPT !.buf = b]
        BY <2>1, <3>1 DEF CallSet
      <3> HIDE DEF b, n
      <3> DEFINE y == [Job EXCEPT !.buf = b]
      <3>3. y \in CallSet /\ y.op = call.op /\ y.lba = call.lba
            /\ y.count = call.count /\ y.buf = b /\ y.s = 0
        BY <2>3, <3>1 DEF CallSet
      <3> HIDE DEF y
      <3>4. Job' = y  BY <2>6, <3>3, SameCall
      <3> QED BY <3>2, <3>4 DEF y
    <2>9. Job # NoCall  BY Running DEF MoveIn
    <2>10. Device!Move
      <3>1. Job.op = "read" /\ Job.lba = call.lba /\ Job.count = call.count
        BY <2>1, JobFields
      <3>2. Moved' = Moved + 1 /\ Moved' <= Job.count  BY <2>1, <2>7, <3>1
      <3>3. Job' = [Job EXCEPT !.buf[Moved'] = medium[Job.lba + Moved]]  BY <2>7, <2>8, <3>1
      <3> HIDE DEF n, b
      <3> QED BY <2>2, <2>9, <3>1, <3>2, <3>3 DEF Device!Move, Job, Moved
    <2> QED BY <2>1, <1>2, <2>10 DEF Device!Next
  <1> QED BY <1>1, <1>2

(* Handing a sector to the drive is not yet storing it. *)
LEMMA MoveOutMaps == ASSUME IInv, IInv', MoveOut PROVE [Device!Next]_(Device!vars)
  <1>1. CASE late'
    BY <1>1 DEF Device!Next
  <1>2. CASE ~late'
    <2>1. /\ call \in CallSet /\ call.op = "write" /\ call.s + 1 \in Nat /\ call.buf \in Seq(Vals)
          /\ drive \in DriveSet /\ Issued
      BY DEF MoveOut, IInv, CallTypes, CallSet, DriveTypes, Issued
    <2>2. call' = [call EXCEPT !.buf = call.buf, !.s = call.s + 1]
      BY <2>1 DEF MoveOut, CallSet
    <2>3. /\ call' \in CallSet /\ call'.op = call.op /\ call'.lba = call.lba
          /\ call'.count = call.count /\ call'.buf = call.buf
      BY <2>1, <2>2, CallMoved
    <2>4. Job' \in CallSet /\ Job'.op = call.op /\ Job'.lba = call.lba
          /\ Job'.count = call.count /\ Job'.buf = call.buf /\ Job'.s = 0
      BY <2>3 DEF Job, CallSet
    <2>5. Job' = Job  BY <2>1, <2>4, JobFields, SameCall
    <2>6. drive'.left = drive.left  BY <2>1 DEF MoveOut, DriveSet
    <2>7. Issued'  BY DEF Issued, MoveOut, AfterSector
    <2>8. Moved' = Moved  BY <2>1, <2>3, <2>6, <2>7 DEF Moved
    <2> QED BY <2>5, <2>8, Stutters DEF MoveOut
  <1> QED BY <1>1, <1>2

LEMMA FlushMaps == ASSUME IInv, Flush PROVE [Device!Next]_(Device!vars)
  <1>1. drive'.left = drive.left  BY DEF Flush, Command, IInv, DriveTypes, DriveSet
  <1>2. Moved' = Moved /\ Job' = Job  BY <1>1 DEF Flush, Moved, Job, Issued
  <1> QED BY <1>2, Stutters DEF Flush

LEMMA DoneMaps == ASSUME IInv, Done PROVE [Device!Next]_(Device!vars)
  <1>1. /\ Job # NoCall /\ Job' = NoCall /\ Moved' = 0
        /\ res' = [end |-> "ok", buf |-> Job.buf]
    BY ReturnFrees DEF Done
  <1>2. CASE late'
    BY <1>2 DEF Device!Next
  <1>3. CASE ~late'
    <2>1. /\ ~late /\ drive.left \in {0, 1} /\ call.op \in Ops /\ call.s = call.count /\ Issued
          /\ call.count \in Nat /\ call \in CallSet
      BY <1>3 DEF Done, IInv, Together, CallFits, CallTypes, CallSet, Issued
    <2>2. /\ Job.op = "read" => Moved >= Job.count
          /\ Job.op # "read" => Moved >= Job.count - 1
      BY <2>1, JobFields DEF Moved
    <2>3. Device!Succeed  BY <1>1, <2>2 DEF Device!Succeed, Done, Job, Moved
    <2> QED BY <1>3, <2>1, <2>3 DEF Device!Next
  <1> QED BY <1>2, <1>3

(* The drive stores the sector it was handed last. *)
LEMMA DriveStoresMaps == ASSUME IInv, DriveStores PROVE [Device!Next]_(Device!vars)
  <1>0. UNCHANGED <<pc, call, res, late>>  BY DEF DriveStores, Works
  <1>1. CASE late'
    BY <1>1 DEF Device!Next
  <1>2. CASE ~late'
    <2>1. /\ drive \in DriveSet /\ drive.lba \in Nat /\ drive.left \in 1 .. MaxCount
          /\ drive.st = "busy" /\ drive.cmd = "write" /\ drive.held \in Vals /\ ~late
      BY <1>0, <1>2 DEF DriveStores, IInv, DriveTypes, DriveSet, DriveFits, Ops
    <2>2. pc \in {"bsy", "drq", "move", "end"}
      BY <2>1 DEF IInv, CallTypes, Issued, Together
    <2>3. /\ OneBehind /\ call.op = "write" /\ Issued /\ pc # "idle"
      <3>1. call.op = "write"  BY <2>1, <2>2 DEF IInv, Together, CallFits, Moving
      <3>2. drive.held # None  BY <2>1, Constants
      <3>3. OneBehind  BY <2>1, <2>2, <3>1, <3>2 DEF IInv, Together, Moving
      <3> QED BY <2>2, <3>1, <3>3 DEF Issued
    <2>4. /\ call \in CallSet /\ call.s \in Nat /\ call.count \in Nat /\ call.lba \in Nat
          /\ call.s <= call.count /\ call.s > 0
      BY <2>2, <2>3 DEF IInv, CallTypes, CallSet, CallFits, Moving, OneBehind
    <2>5. drive'.left = drive.left - 1
      BY <2>1 DEF DriveStores, Works, DriveSet
    <2>6. Moved = call.s - 1 /\ Moved' = call.s
      BY <1>0, <2>1, <2>3, <2>4, <2>5, Constants DEF Moved, OneBehind, Issued
    <2>7. medium' = [medium EXCEPT ![call.lba + Moved] = call.buf[Moved']]
      <3>1. drive.lba = call.lba + Moved /\ drive.held = call.buf[Moved']
        BY <2>1, <2>3, <2>4, <2>6 DEF OneBehind
      <3> QED BY <3>1 DEF DriveStores
    <2>8. Job # NoCall  BY <2>3, Running
    <2>9. Job' = Job  BY <1>0 DEF Job
    <2>10. Device!Move
      <3>1. Job.op = "write" /\ Job.lba = call.lba /\ Job.buf = call.buf /\ Job.count = call.count
        BY <2>3, <2>4, JobFields
      <3>2. Moved' = Moved + 1 /\ Moved' <= Job.count  BY <2>4, <2>6, <3>1
      <3>3. medium' = [medium EXCEPT ![Job.lba + Moved] = Job.buf[Moved']]  BY <2>7, <3>1
      <3> QED BY <1>0, <2>8, <2>9, <3>1, <3>2, <3>3 DEF Device!Move, Job, Moved
    <2> QED BY <1>2, <2>1, <2>10 DEF Device!Next
  <1> QED BY <1>1, <1>2

(* Else the drive works without storing anything. *)
LEMMA DriveMaps == ASSUME IInv, Drive PROVE [Device!Next]_(Device!vars)
  <1>1. CASE DriveStores
    BY <1>1, DriveStoresMaps
  <1>2. CASE DriveReads \/ DriveAsks \/ DriveFlushes \/ DriveFails
    <2>1. drive \in DriveSet  BY DEF IInv, DriveTypes
    <2>2. UNCHANGED <<medium, pc, call, res, late>> /\ drive'.left = drive.left
      BY <1>2, <2>1 DEF DriveReads, DriveAsks, DriveFlushes, DriveFails, Works, DriveSet
    <2>3. Job' = Job /\ Moved' = Moved  BY <2>2 DEF Job, Moved, Issued
    <2> QED BY <2>2, <2>3, Stutters
  <1> QED BY <1>1, <1>2 DEF Drive

LEMMA StepMaps == ASSUME IInv, IInv', [Next]_vars PROVE [Device!Next]_(Device!vars)
  <1>1. CASE \E j \in Jobs : Len(j.buf) = j.count /\ Begin(j.op, j.lba, j.count, j.buf)
    BY <1>1, BeginMaps
  <1>2. CASE Driver
    <2>1. CASE Refuse
      <3>1. late \in BOOLEAN  BY DEF IInv, CallTypes
      <3> QED BY <2>1, <3>1, FailingMaps DEF Refuse
    <2> QED BY <1>2, <2>1, WaitBsyMaps, IssueMaps, WaitDrqMaps, MoveInMaps, MoveOutMaps,
               FlushMaps, DoneMaps DEF Driver
  <1>3. CASE Drive
    BY <1>3, DriveMaps
  <1>4. CASE UNCHANGED vars
    BY <1>4, Stutters DEF vars, Job, Moved, Issued
  <1> QED BY <1>1, <1>2, <1>3, <1>4 DEF Next

LEMMA InitMaps == ASSUME Init PROVE Device!Init
  <1>1. Job = NoCall /\ Moved = 0  BY NoJobYet DEF Init, Job, Moved, Issued, NoCall
  <1>2. medium \in [Sects -> Nat]  BY Constants DEF Init
  <1> QED BY <1>1, <1>2 DEF Init, Device!Init, Job, Moved, NoRes

(* The driver implements the device src/kernel/driver/disk.c gives the file *)
(* system, for every size of disk and any behaviour of the drive: until a   *)
(* poll times out, the sectors of a call are moved one by one, a call that  *)
(* succeeds has moved them all but the last one of a write, and nothing     *)
(* else on the disk changes.                                                *)
THEOREM DriverIsDevice == Spec => ImplementsDevice
  BY Inductive, InitMaps, StepMaps, PTL DEF Spec, ImplementsDevice, Device!Spec
-----------------------------------------------------------------------------
(* Irq, next to the driver: cpu is what its processor is at. *)
CONSTANTS W, Cascade, Kbd, Others, MaxBytes, MaxNoise
VARIABLES irr, isr, imr, kbd, noise, cpu, irq, seen

Ctl == INSTANCE Irq WITH pc <- cpu

(* The steps of the processor. *)
Steps == {"remap", "drain", "unmask", "others", "task", "ack", "dispatch", "handler",
          "eoi2", "eoi", "iret"}

ControllerTypes ==
    /\ irr \in [Ctl!Pics -> SUBSET Ctl!Lines] /\ isr \in [Ctl!Pics -> SUBSET Ctl!Lines]
    /\ imr \in [Ctl!Pics -> SUBSET Ctl!Lines]
    /\ kbd \in [has : Nat, had : Nat] /\ kbd.has <= kbd.had /\ kbd.had <= 2 * MaxBytes
    /\ noise \in 0 .. MaxNoise /\ cpu \in Steps /\ irq \in {Ctl!NoIrq} \cup (Ctl!Pics \X Ctl!Lines)
    /\ seen = {}

(* The controllers have these lines in service. *)
InService(m, s) == isr["m"] = m /\ isr["s"] = s

(* What was taken is in service, the cascade with it when it came from the  *)
(* second controller.                                                       *)
Real == \/ \E l \in Ctl!Lines : irq = <<"m", l>> /\ InService({l}, {})
        \/ \E k \in Ctl!Lines : irq = <<"s", k>> /\ InService({Cascade}, {k})

(* The last line, when the request was gone: of the first controller with   *)
(* nothing in service, or of the second, for which the first had a request. *)
Spurious == \/ irq = <<"m", Ctl!Last>> /\ InService({}, {})
            \/ irq = <<"s", Ctl!Last>> /\ InService({Cascade}, {})

(* What is in service at each step of the processor. *)
Serving ==
    /\ cpu \in {"remap", "drain", "unmask", "others", "task", "ack", "iret"} => InService({}, {})
    /\ cpu = "dispatch" => Real \/ Spurious
    /\ cpu = "handler" => Real
    /\ cpu = "eoi2" => irq[1] = "s" /\ Real
    /\ cpu = "eoi" => \E l \in Ctl!Lines : InService({l}, {})

Dispatching == ControllerTypes /\ Serving

(* The constants, and the numbers of lines. *)
LEMMA LinesShape ==
    ASSUME Ctl!IrqAssumption
    PROVE  /\ W \in Nat /\ Ctl!Last \in Int /\ Ctl!Lines \subseteq Nat /\ Cascade \in Ctl!Lines /\ Kbd \in Ctl!Lines
           /\ Ctl!Last \in Ctl!Lines /\ Cascade # Ctl!Last
           /\ MaxBytes \in Nat /\ MaxNoise \in Nat /\ Others \subseteq Ctl!Pics \X Ctl!Lines
  BY DEF Ctl!IrqAssumption, Ctl!Lines, Ctl!Last

(* A controller that presents something presents its highest request. *)
LEMMA BestIs ==
    ASSUME Ctl!IrqAssumption, ControllerTypes, NEW p \in Ctl!Pics, Ctl!Ready(p) # {}
    PROVE  Ctl!Best(p) \in Ctl!Ready(p) /\ Ctl!Best(p) \in Ctl!Lines
  <1>1. Ctl!Ready(p) \subseteq Ctl!Lines /\ Ctl!Lines \subseteq Nat  BY LinesShape DEF Ctl!Ready, ControllerTypes
  <1>2. \E l \in Ctl!Ready(p) : \A k \in Ctl!Ready(p) : l <= k
    <2> DEFINE T == Ctl!Ready(p)
    <2>1. T \subseteq Nat /\ T # {}  BY <1>1
    <2> HIDE DEF T
    <2>2. \E x \in T : \A y \in T : x <= y  BY <2>1, LeastOf
    <2> QED BY <2>2 DEF T
  <1>3. Ctl!Best(p) \in Ctl!Ready(p)  BY <1>2 DEF Ctl!Best
  <1> QED BY <1>1, <1>3

LEMMA EdgeFits == ASSUME Ctl!IrqAssumption, ControllerTypes, NEW n PROVE Ctl!KbdEdge(n) \in [Ctl!Pics -> SUBSET Ctl!Lines]
  BY LinesShape DEF Ctl!KbdEdge, ControllerTypes, Ctl!Pics

(* An end-of-interrupt with one line in service, or none. *)
LEMMA ServedOne ==
    ASSUME Ctl!IrqAssumption, ControllerTypes, NEW p \in Ctl!Pics, NEW l \in Ctl!Lines, isr[p] = {l}
    PROVE  Ctl!Served(p) = [isr EXCEPT ![p] = {}]
  <1>1. {k \in isr[p] : \A j \in isr[p] : k <= j} = {l}  BY LinesShape
  <1> QED BY <1>1 DEF Ctl!Served
-----------------------------------------------------------------------------
LEMMA BootKeeps == ASSUME Ctl!IrqAssumption, Dispatching, Ctl!Boot PROVE Dispatching'
  <1> USE DEF Dispatching, Ctl!Goes
  <1>1. CASE Ctl!Remap
    <2>1. isr' \in [Ctl!Pics -> SUBSET Ctl!Lines] /\ irr' \in [Ctl!Pics -> SUBSET Ctl!Lines]
      BY <1>1, LinesShape DEF Ctl!Remap
    <2>2. imr' \in [Ctl!Pics -> SUBSET Ctl!Lines]  BY <1>1, LinesShape DEF Ctl!Remap, Ctl!Pics
    <2>3. isr'["m"] = {} /\ isr'["s"] = {}  BY <1>1 DEF Ctl!Remap, Ctl!Pics
    <2>4. ControllerTypes'  BY <1>1, <2>1, <2>2 DEF Ctl!Remap, ControllerTypes, Steps
    <2> QED BY <1>1, <2>3, <2>4 DEF Ctl!Remap, Serving, InService
  <1>2. CASE Ctl!Drain
    <2>1. CASE Ctl!HasByte
      <3> DEFINE n == kbd.has - 1
      <3>1. kbd' = [kbd EXCEPT !.has = n] /\ n \in Nat /\ n <= kbd.had
        BY <1>2, <2>1 DEF Ctl!Drain, Ctl!HasByte, ControllerTypes
      <3>2. irr' = Ctl!KbdEdge(n)  BY <1>2, <2>1 DEF Ctl!Drain
      <3> HIDE DEF n
      <3>3. irr' \in [Ctl!Pics -> SUBSET Ctl!Lines]  BY <3>2, EdgeFits
      <3>4. kbd' \in [has : Nat, had : Nat] /\ kbd'.has <= kbd'.had /\ kbd'.had <= 2 * MaxBytes
        BY <3>1 DEF ControllerTypes
      <3>5. ControllerTypes'  BY <1>2, <2>1, <3>3, <3>4 DEF Ctl!Drain, ControllerTypes, Steps
      <3> QED BY <1>2, <2>1, <3>5 DEF Ctl!Drain, Serving, InService
    <2>2. CASE ~Ctl!HasByte
      BY <1>2, <2>2 DEF Ctl!Drain, ControllerTypes, Steps, Serving, InService
    <2> QED BY <2>1, <2>2
  <1>3. CASE Ctl!Unmask \/ Ctl!UnmaskOthers
    <2>1. imr' \in [Ctl!Pics -> SUBSET Ctl!Lines]
      BY <1>3 DEF Ctl!Unmask, Ctl!UnmaskOthers, Ctl!Unmasked, ControllerTypes, Ctl!Pics
    <2>2. UNCHANGED <<irr, isr, kbd, irq, seen, noise>> /\ cpu \in {"unmask", "others"}
          /\ cpu' \in {"others", "task"}
      BY <1>3 DEF Ctl!Unmask, Ctl!UnmaskOthers
    <2> QED BY <2>1, <2>2 DEF ControllerTypes, Steps, Serving, InService
  <1> QED BY <1>1, <1>2, <1>3 DEF Ctl!Boot

(* What the processor is told is in service, or is the last line. *)
LEMMA AcknowledgeKeeps == ASSUME Ctl!IrqAssumption, Dispatching, Ctl!Acknowledge PROVE Dispatching'
  <1> USE DEF Dispatching
  <1>0. /\ cpu = "ack" /\ cpu' = "dispatch" /\ UNCHANGED <<imr, kbd, noise, seen>>
        /\ isr["m"] = {} /\ isr["s"] = {} /\ "m" \in Ctl!Pics /\ "s" \in Ctl!Pics
        /\ irr \in [Ctl!Pics -> SUBSET Ctl!Lines] /\ isr \in [Ctl!Pics -> SUBSET Ctl!Lines]
    BY DEF Ctl!Acknowledge, Serving, InService, ControllerTypes, Ctl!Pics
  <1> DEFINE Good == /\ irr' \in [Ctl!Pics -> SUBSET Ctl!Lines] /\ isr' \in [Ctl!Pics -> SUBSET Ctl!Lines]
                     /\ irq' \in Ctl!Pics \X Ctl!Lines /\ (Real \/ Spurious)'
  <1>1. CASE Ctl!Ready("m") = {}
    <2>1. irr' = irr /\ isr' = isr /\ irq' = <<"m", Ctl!Last>>  BY <1>1 DEF Ctl!Acknowledge, Ctl!Takes
    <2>2. Spurious'  BY <1>0, <2>1 DEF Spurious, InService
    <2>3. Good  BY <1>0, <2>1, <2>2, LinesShape
    <2> QED BY <1>0, <2>3 DEF ControllerTypes, Steps, Serving
  <1>2. CASE Ctl!Ready("m") # {}
    <2> DEFINE l == Ctl!Best("m")
               r == [irr EXCEPT !["m"] = @ \ {l}]
               s == [isr EXCEPT !["m"] = @ \cup {l}]
    <2>1. l \in Ctl!Lines  BY <1>0, <1>2, BestIs
    <2>2. IF l # Cascade
          THEN Ctl!Takes(<<r, s>>, <<"m", l>>)
          ELSE IF Ctl!Ready("s") = {}
          THEN Ctl!Takes(<<r, s>>, <<"s", Ctl!Last>>)
          ELSE LET k == Ctl!Best("s")
               IN  Ctl!Takes(<<[r EXCEPT !["s"] = @ \ {k}], [s EXCEPT !["s"] = @ \cup {k}]>>, <<"s", k>>)
      BY <1>2 DEF Ctl!Acknowledge
    <2> HIDE DEF l
    <2>3. r \in [Ctl!Pics -> SUBSET Ctl!Lines]  BY <1>0
    <2>4. s \in [Ctl!Pics -> SUBSET Ctl!Lines]  BY <1>0, <2>1
    <2>5. s["m"] = {l} /\ s["s"] = {}  BY <1>0
    <2> HIDE DEF r, s
    <2>6. CASE l # Cascade
      <3>1. irr' = r /\ isr' = s /\ irq' = <<"m", l>>  BY <2>2, <2>6 DEF Ctl!Takes
      <3>2. Real'  BY <2>1, <2>5, <3>1 DEF Real, InService
      <3>3. Good  BY <1>0, <2>1, <2>3, <2>4, <3>1, <3>2
      <3> QED BY <1>0, <3>3 DEF ControllerTypes, Steps, Serving
    <2>7. CASE l = Cascade /\ Ctl!Ready("s") = {}
      <3>1. irr' = r /\ isr' = s /\ irq' = <<"s", Ctl!Last>>  BY <2>2, <2>7 DEF Ctl!Takes
      <3>2. Spurious'  BY <2>5, <2>7, <3>1 DEF Spurious, InService
      <3>3. Good  BY <1>0, <2>3, <2>4, <3>1, <3>2, LinesShape
      <3> QED BY <1>0, <3>3 DEF ControllerTypes, Steps, Serving
    <2>8. CASE l = Cascade /\ Ctl!Ready("s") # {}
      <3> DEFINE k == Ctl!Best("s")
      <3>1. k \in Ctl!Lines  BY <1>0, <2>8, BestIs
      <3>2. irr' = [r EXCEPT !["s"] = @ \ {k}] /\ isr' = [s EXCEPT !["s"] = @ \cup {k}]
            /\ irq' = <<"s", k>>
        BY <2>2, <2>8 DEF Ctl!Takes
      <3> HIDE DEF k
      <3>3. isr'["m"] = {Cascade} /\ isr'["s"] = {k}  BY <1>0, <2>4, <2>5, <2>8, <3>2
      <3>4. Real'  BY <3>1, <3>2, <3>3 DEF Real, InService
      <3>5. irr' \in [Ctl!Pics -> SUBSET Ctl!Lines]  BY <1>0, <2>3, <3>2
      <3>6. isr' \in [Ctl!Pics -> SUBSET Ctl!Lines]  BY <1>0, <2>4, <3>1, <3>2
      <3>7. Good  BY <1>0, <3>1, <3>2, <3>4, <3>5, <3>6
      <3> QED BY <1>0, <3>7 DEF ControllerTypes, Steps, Serving
    <2> QED BY <2>6, <2>7, <2>8
  <1> QED BY <1>1, <1>2

(* Only what is spurious, and all that is, goes past its handler. *)
LEMMA DispatchKeeps == ASSUME Ctl!IrqAssumption, Dispatching, Ctl!Dispatch PROVE Dispatching'
  <1> USE DEF Dispatching
  <1>0. /\ cpu = "dispatch" /\ UNCHANGED <<irr, isr, imr, kbd, irq, seen, noise>>
        /\ cpu' = IF irq[2] = Ctl!Last /\ Ctl!IsSpurious(irq) THEN IF irq[1] = "s" THEN "eoi" ELSE "iret"
                 ELSE "handler"
        /\ Real \/ Spurious
    BY DEF Ctl!Dispatch, Ctl!Goes, Ctl!Pic, Serving
  <1>1. ControllerTypes'  BY <1>0 DEF ControllerTypes, Steps
  <1>2. CASE Real
    <2>1. irq[2] \in isr[irq[1]]  BY <1>2 DEF Real, InService
    <2>2. cpu' = "handler"  BY <1>0, <2>1 DEF Ctl!IsSpurious
    <2> QED BY <1>0, <1>1, <1>2, <2>2 DEF Serving, Real, InService
  <1>3. CASE ~Real /\ irq = <<"m", Ctl!Last>> /\ InService({}, {})
    <2>1. cpu' = "iret"  BY <1>0, <1>3 DEF Ctl!IsSpurious, InService
    <2> QED BY <1>0, <1>1, <1>3, <2>1 DEF Serving, InService
  <1>4. CASE ~Real /\ irq = <<"s", Ctl!Last>> /\ InService({Cascade}, {})
    <2>1. cpu' = "eoi"  BY <1>0, <1>4 DEF Ctl!IsSpurious, InService
    <2> QED BY <1>0, <1>1, <1>4, <2>1, LinesShape DEF Serving, InService
  <1> QED BY <1>0, <1>2, <1>3, <1>4 DEF Spurious

LEMMA HandlerKeeps == ASSUME Ctl!IrqAssumption, Dispatching, Ctl!Handler PROVE Dispatching'
  <1> USE DEF Dispatching
  <1>0. /\ cpu = "handler" /\ UNCHANGED <<isr, imr, irq, noise>> /\ Real
        /\ cpu' = IF irq[1] = "s" THEN "eoi2" ELSE "eoi"
    BY DEF Ctl!Handler, Serving
  <1>1. irq[2] \in isr[irq[1]]  BY <1>0 DEF Real, InService
  <1>2. seen' = {}  BY <1>1 DEF Ctl!Handler, ControllerTypes
  <1>3. /\ irr' \in [Ctl!Pics -> SUBSET Ctl!Lines]
        /\ kbd' \in [has : Nat, had : Nat] /\ kbd'.has <= kbd'.had /\ kbd'.had <= 2 * MaxBytes
    <2>1. CASE irq = <<"m", Kbd>> /\ kbd.has > 0
      <3> DEFINE n == kbd.has - 1
      <3>1. kbd' = [kbd EXCEPT !.has = n] /\ n \in Nat /\ n <= kbd.had
        BY <2>1 DEF Ctl!Handler, ControllerTypes
      <3>2. irr' = Ctl!KbdEdge(n)  BY <2>1 DEF Ctl!Handler
      <3> HIDE DEF n
      <3> QED BY <3>1, <3>2, EdgeFits DEF ControllerTypes
    <2>2. CASE ~(irq = <<"m", Kbd>> /\ kbd.has > 0)
      BY <2>2 DEF Ctl!Handler, ControllerTypes
    <2> QED BY <2>1, <2>2
  <1>4. ControllerTypes'  BY <1>0, <1>2, <1>3 DEF ControllerTypes, Steps
  <1>5. CASE irq[1] = "s"
    <2>1. cpu' = "eoi2" /\ Real'  BY <1>0, <1>5 DEF Real, InService
    <2> QED BY <1>0, <1>4, <1>5, <2>1 DEF Serving
  <1>6. CASE irq[1] # "s"
    <2>1. cpu' = "eoi" /\ \E l \in Ctl!Lines : InService({l}, {})'  BY <1>0, <1>6 DEF Real, InService
    <2> QED BY <1>4, <2>1 DEF Serving
  <1> QED BY <1>5, <1>6

(* The end-of-interrupts take what was taken out of service, on the second  *)
(* controller first.                                                        *)
LEMMA EoiKeeps == ASSUME Ctl!IrqAssumption, Dispatching, Ctl!Eoi2 \/ Ctl!Eoi PROVE Dispatching'
  <1> USE DEF Dispatching
  <1>0. "m" \in Ctl!Pics /\ "s" \in Ctl!Pics /\ isr \in [Ctl!Pics -> SUBSET Ctl!Lines]  BY DEF Ctl!Pics, ControllerTypes
  <1>1. CASE Ctl!Eoi2
    <2>1. cpu = "eoi2" /\ cpu' = "eoi" /\ isr' = Ctl!Served("s")
          /\ UNCHANGED <<irr, imr, kbd, irq, seen, noise>>
      BY <1>1 DEF Ctl!Eoi2, Ctl!Goes
    <2>a. irq[1] = "s" /\ Real  BY <2>1 DEF Serving
    <2>b. \A l : irq # <<"m", l>>  BY <2>a
    <2>2. PICK k \in Ctl!Lines : InService({Cascade}, {k})  BY <2>a, <2>b DEF Real
    <2>3. isr' = [isr EXCEPT !["s"] = {}]  BY <1>0, <2>1, <2>2, ServedOne DEF InService
    <2>4. isr' \in [Ctl!Pics -> SUBSET Ctl!Lines] /\ isr'["m"] = {Cascade} /\ isr'["s"] = {}
      BY <1>0, <2>2, <2>3 DEF InService
    <2>5. ControllerTypes'  BY <2>1, <2>4 DEF ControllerTypes, Steps
    <2> QED BY <2>1, <2>4, <2>5, LinesShape DEF Serving, InService
  <1>2. CASE Ctl!Eoi
    <2>1. cpu = "eoi" /\ cpu' = "iret" /\ isr' = Ctl!Served("m")
          /\ UNCHANGED <<irr, imr, kbd, irq, seen, noise>>
      BY <1>2 DEF Ctl!Eoi, Ctl!Goes, Ctl!EoiMaster
    <2>2. PICK l \in Ctl!Lines : InService({l}, {})  BY <2>1 DEF Serving
    <2>3. isr' = [isr EXCEPT !["m"] = {}]  BY <1>0, <2>1, <2>2, ServedOne DEF InService
    <2>4. isr' \in [Ctl!Pics -> SUBSET Ctl!Lines] /\ isr'["m"] = {} /\ isr'["s"] = {}
      BY <1>0, <2>2, <2>3 DEF InService
    <2>5. ControllerTypes'  BY <2>1, <2>4 DEF ControllerTypes, Steps
    <2> QED BY <2>1, <2>4, <2>5 DEF Serving, InService
  <1> QED BY <1>1, <1>2

LEMMA RestKeeps ==
    ASSUME Ctl!IrqAssumption, Dispatching, Ctl!Accept \/ Ctl!Iret \/ Ctl!Cascades \/ Ctl!KeyByte \/ Ctl!Noise PROVE Dispatching'
  <1> USE DEF Dispatching
  <1>1. CASE Ctl!Accept \/ Ctl!Iret
    <2>1. /\ UNCHANGED <<irr, isr, imr, kbd, noise, seen>> /\ irq' \in {irq, Ctl!NoIrq}
          /\ \/ cpu = "task" /\ cpu' = "ack"
             \/ cpu = "iret" /\ cpu' = "task"
      BY <1>1 DEF Ctl!Accept, Ctl!Iret, Ctl!Goes, Ctl!Pic
    <2> QED BY <2>1 DEF ControllerTypes, Steps, Serving, InService
  <1>2. CASE Ctl!Cascades \/ Ctl!KeyByte \/ Ctl!Noise
    <2>1. UNCHANGED <<isr, imr, cpu, irq, seen>>  BY <1>2 DEF Ctl!Cascades, Ctl!KeyByte, Ctl!Noise
    <2>2. Serving'  BY <2>1 DEF Serving, Real, Spurious, InService
    <2>3. CASE Ctl!Cascades
      <3>1. irr' \in [Ctl!Pics -> SUBSET Ctl!Lines] /\ UNCHANGED <<kbd, noise>>
        BY <2>3, LinesShape DEF Ctl!Cascades, ControllerTypes, Ctl!Pics
      <3> QED BY <2>1, <2>2, <3>1 DEF ControllerTypes
    <2>4. CASE Ctl!KeyByte
      <3>1. irr' \in [Ctl!Pics -> SUBSET Ctl!Lines] /\ noise' = noise  BY <2>4, EdgeFits DEF Ctl!KeyByte, ControllerTypes
      <3>2. kbd' \in [has : Nat, had : Nat] /\ kbd'.has <= kbd'.had /\ kbd'.had <= 2 * MaxBytes
        BY <2>4, LinesShape DEF Ctl!KeyByte, ControllerTypes
      <3> QED BY <2>1, <2>2, <3>1, <3>2 DEF ControllerTypes
    <2>5. CASE Ctl!Noise
      <3>1. noise' \in 0 .. MaxNoise /\ kbd' = kbd  BY <2>5, LinesShape DEF Ctl!Noise, ControllerTypes
      <3>2. PICK o \in Others \cup {<<"m", Ctl!Last>>} :
              irr' = [irr EXCEPT ![o[1]] = IF o[2] \in @ THEN @ \ {o[2]} ELSE @ \cup {o[2]}]
        BY <2>5 DEF Ctl!Noise
      <3>3. o[1] \in Ctl!Pics /\ o[2] \in Ctl!Lines  BY LinesShape DEF Ctl!Pics
      <3>4. irr' \in [Ctl!Pics -> SUBSET Ctl!Lines]  BY <3>2, <3>3 DEF ControllerTypes
      <3> QED BY <2>1, <2>2, <3>1, <3>4 DEF ControllerTypes
    <2> QED BY <1>2, <2>3, <2>4, <2>5
  <1> QED BY <1>1, <1>2

LEMMA ControllersInit == ASSUME Ctl!IrqAssumption, Ctl!Init PROVE Dispatching
  <1>1. PICK requests \in [Ctl!Pics -> SUBSET {Kbd}], masks \in [Ctl!Pics -> {{}, Ctl!Lines}], n \in 0 .. MaxBytes :
          Ctl!Starts(requests, masks, n)
    BY DEF Ctl!Init
  <1>2. irr \in [Ctl!Pics -> SUBSET Ctl!Lines] /\ imr \in [Ctl!Pics -> SUBSET Ctl!Lines]
    BY <1>1, LinesShape DEF Ctl!Starts
  <1>3. isr \in [Ctl!Pics -> SUBSET Ctl!Lines] /\ isr["m"] = {} /\ isr["s"] = {}
    BY <1>1 DEF Ctl!Starts, Ctl!Pics
  <1>4. kbd \in [has : Nat, had : Nat] /\ kbd.has <= kbd.had /\ kbd.had <= 2 * MaxBytes
    BY <1>1, LinesShape DEF Ctl!Starts
  <1>5. ControllerTypes  BY <1>1, <1>2, <1>3, <1>4, LinesShape DEF Ctl!Starts, ControllerTypes, Steps
  <1>6. Serving  BY <1>1, <1>3 DEF Ctl!Starts, Serving, InService
  <1> QED BY <1>5, <1>6 DEF Dispatching

LEMMA ControllersKeep == ASSUME Ctl!IrqAssumption, Dispatching, [Ctl!Next]_(Ctl!vars) PROVE Dispatching'
  <1>1. CASE UNCHANGED Ctl!vars
    BY <1>1 DEF Ctl!vars, Dispatching, ControllerTypes, Serving, Real, Spurious, InService
  <1>2. CASE Ctl!Next
    BY <1>2, BootKeeps, AcknowledgeKeeps, DispatchKeeps, HandlerKeeps, EoiKeeps, RestKeeps DEF Ctl!Next, Ctl!Cpu
  <1> QED BY <1>1, <1>2

(* Whatever lines the controllers have and whatever comes on them: when no  *)
(* interrupt is being handled no line is in service, so that none is        *)
(* blocked, and isr_dispatcher calls no handler for a spurious interrupt of *)
(* either controller.                                                       *)
THEOREM DispatcherIsSound == ASSUME Ctl!IrqAssumption PROVE Ctl!Spec => []Ctl!InterruptsSound
  <1>1. Ctl!Init => Dispatching  BY ControllersInit
  <1>2. Dispatching /\ [Ctl!Next]_(Ctl!vars) => Dispatching'  BY ControllersKeep
  <1>3. Dispatching => Ctl!InterruptsSound
    <2> SUFFICES ASSUME Dispatching PROVE Ctl!InterruptsSound  OBVIOUS
    <2>1. \A p \in Ctl!Pics : irr[p] \subseteq Ctl!Lines /\ isr[p] \subseteq Ctl!Lines /\ imr[p] \subseteq Ctl!Lines
      BY DEF Dispatching, ControllerTypes
    <2>2. kbd.has \in 0 .. kbd.had /\ kbd.had \in 0 .. 2 * MaxBytes  BY LinesShape DEF Dispatching, ControllerTypes
    <2>3. Ctl!TypeOK  BY <2>1, <2>2 DEF Ctl!TypeOK, Dispatching, ControllerTypes, Steps
    <2>4. Ctl!NothingLeftInService  BY DEF Ctl!NothingLeftInService, Dispatching, Serving, InService, Ctl!Pics
    <2> QED BY <2>3, <2>4 DEF Ctl!InterruptsSound, Ctl!HandlersHaveRequests, Dispatching, ControllerTypes
  <1> QED BY <1>1, <1>2, <1>3, PTL DEF Ctl!Spec
-----------------------------------------------------------------------------
(* Boot: lpc is where the loader is, and lfaults counts its failed calls.  *)
CONSTANTS N, Kernel, Modes, FirstSize, Slack, MaxChanges
VARIABLES lpc, mem, kern, screen, scan, ds, msize, snap, key, info, changes, lfaults

Ldr == INSTANCE Boot WITH pc <- lpc, faults <- lfaults

LoaderSteps == {"protocols", "open", "modes", "info", "stack", "alloc", "map", "exit",
                "kernel", "fatal", "wild"}

InfoSet == [fb : -1 .. (Modes - 1), map : Ldr!Pages \cup {Ldr!NoPage}, size : 0 .. N,
            stack : Ldr!Pages \cup {Ldr!NoPage}]
ScreenSet == [modes : [0 .. (Modes - 1) -> Ldr!AllModes], mode : 0 .. (Modes - 1)]
ScanSet == [i : 0 .. Modes, best : 0 .. (Modes - 1), px : 0 .. 2]

LoaderShapes ==
    /\ mem \in [Ldr!Pages -> Ldr!Uses] /\ snap \in [Ldr!Pages -> Ldr!Uses]
    /\ lpc \in LoaderSteps /\ kern \in {"none", "binary", "empty"} /\ key \in {"current", "old"}
    /\ screen \in ScreenSet
    /\ scan \in ScanSet
    /\ ds \in Ldr!Pages \cup {Ldr!NoPage} /\ msize \in 1 .. (FirstSize + N + Slack)
    /\ changes \in 0 .. MaxChanges /\ lfaults \in 0 .. MaxFaults
    /\ info \in InfoSet
    /\ info.size <= msize

(* The kernel's pages are taken once they are read, and the pool is the    *)
(* only one.                                                               *)
Taken ==
    /\ lpc \notin {"protocols", "open", "fatal", "wild"} => \A p \in Kernel : mem[p] = "kernel"
    /\ \A p \in Ldr!Pages : mem[p] = "map" <=> p = ds
    /\ lpc \in {"map", "exit", "kernel"} => ds # Ldr!NoPage

(* A key that is current is that of the last map. *)
Mapped ==
    /\ lpc \notin {"exit", "kernel"} => key = "old"
    /\ lpc \in {"exit", "kernel"} => info.map = ds /\ info.size > 0
    /\ key = "current" => snap = mem /\ info.size = Ldr!Runs(mem)
    /\ lpc = "kernel" => key = "current"

Seen == lpc \in {"stack", "alloc", "map", "exit", "kernel"} => info.fb = screen.mode

Leaving == LoaderShapes /\ Taken /\ Mapped /\ Seen

LEMMA BootConstants ==
    ASSUME Ldr!BootAssumption
    PROVE  /\ N \in Nat /\ N > 0 /\ Kernel \subseteq Ldr!Pages /\ Modes \in Nat /\ Modes > 0
           /\ MaxChanges \in Nat /\ MaxFaults \in Nat /\ Slack \in Nat
           /\ FirstSize \in Nat /\ FirstSize > 0 /\ Ldr!NoPage \notin Ldr!Pages /\ 1 \in Ldr!Pages
  BY DEF Ldr!BootAssumption, Ldr!Pages, Ldr!NoPage

(* A map has a descriptor, and at most one for each page.                  *)
LEMMA RunsAre ==
    ASSUME Ldr!BootAssumption, NEW m
    PROVE  Ldr!Runs(m) \in 1 .. N
  <1> DEFINE S == {p \in Ldr!Pages : p = 1 \/ m[p] # m[p - 1]}
  <1>1. N \in Nat /\ Ldr!Pages = 1 .. N /\ S \subseteq Ldr!Pages /\ 1 \in S
    BY BootConstants DEF Ldr!Pages
  <1> HIDE DEF S
  <1>2. IsFiniteSet(Ldr!Pages) /\ Cardinality(Ldr!Pages) = N  BY <1>1, FS_Interval
  <1>3. IsFiniteSet(S) /\ Cardinality(S) <= N  BY <1>1, <1>2, FS_Subset
  <1>4. Cardinality(S) \in Nat /\ Cardinality(S) # 0
    BY <1>1, <1>3, FS_CardinalityType, FS_EmptySet
  <1>5. Ldr!Runs(m) = Cardinality(S)  BY DEF Ldr!Runs, Ldr!Cardinality, Cardinality, S
  <1> QED BY <1>1, <1>3, <1>4, <1>5

LEMMA LoaderStarts == ASSUME Ldr!BootAssumption, Ldr!Init PROVE Leaving
  <1>1. PICK m \in [Ldr!Pages -> {"conv", "fw"}],
             modes \in [0 .. (Modes - 1) -> Ldr!AllModes], k \in 0 .. (Modes - 1) :
          Ldr!Enters(m, [modes |-> modes, mode |-> k])
    BY DEF Ldr!Init
  <1>2. /\ mem \in [Ldr!Pages -> Ldr!Uses] /\ snap \in [Ldr!Pages -> Ldr!Uses]
        /\ \A p \in Ldr!Pages : mem[p] # "map"
    BY <1>1 DEF Ldr!Enters, Ldr!Uses
  <1>3. screen \in ScreenSet /\ scan \in ScanSet
    BY <1>1, BootConstants DEF Ldr!Enters, ScreenSet, ScanSet
  <1>4. info \in InfoSet  BY <1>1, BootConstants DEF Ldr!Enters, InfoSet
  <1>5. msize = FirstSize /\ info.size = 0  BY <1>1 DEF Ldr!Enters
  <1>6. LoaderShapes
    BY <1>1, <1>2, <1>3, <1>4, <1>5, BootConstants DEF Ldr!Enters, LoaderShapes, LoaderSteps
  <1>7. Taken /\ Mapped /\ Seen  BY <1>1, <1>2, BootConstants DEF Ldr!Enters, Taken, Mapped, Seen
  <1> QED BY <1>6, <1>7 DEF Leaving

(* Steps that leave memory and map alone, before there is a map.           *)
LEMMA BeforeMaps ==
    ASSUME Ldr!BootAssumption, Leaving, UNCHANGED <<mem, key, Ldr!MapVars, changes>>,
           lpc' \in LoaderSteps \ {"map", "exit", "kernel"}, lpc \notin {"exit", "kernel"},
           \/ lpc' \in {"protocols", "open", "fatal", "wild"}
           \/ lpc \notin {"protocols", "open", "fatal", "wild"},
           info'.size = info.size, LoaderShapes', Seen'
    PROVE  Leaving'
  <1>1. Taken'  BY DEF Leaving, Taken, Ldr!MapVars
  <1>2. Mapped'  BY DEF Leaving, Mapped, Ldr!MapVars
  <1> QED BY <1>1, <1>2 DEF Leaving

LEMMA FaultsFit ==
    ASSUME Ldr!BootAssumption, LoaderShapes, Ldr!Fault \/ Ldr!Fine PROVE lfaults' \in 0 .. MaxFaults
  BY BootConstants DEF LoaderShapes, Ldr!Fault, Ldr!Fine

LEMMA ProtocolsKeeps == ASSUME Ldr!BootAssumption, Leaving, Ldr!Protocols PROVE Leaving'
  <1>1. /\ UNCHANGED <<mem, key, kern, screen, scan, Ldr!MapVars, info, changes>>
        /\ lpc = "protocols" /\ lpc' \in {"open", "wild"} /\ (Ldr!Fault \/ Ldr!Fine)
    BY DEF Ldr!Protocols, Ldr!Goes
  <1>2. LoaderShapes'  BY <1>1, FaultsFit DEF Leaving, LoaderShapes, LoaderSteps, Ldr!MapVars
  <1> QED BY <1>1, <1>2, BeforeMaps DEF LoaderSteps, Seen

LEMMA ReadKernelKeeps == ASSUME Ldr!BootAssumption, Leaving, Ldr!ReadKernel PROVE Leaving'
  <1>1. /\ UNCHANGED <<screen, scan, Ldr!MapVars, info, changes>>
        /\ lpc = "open" /\ (Ldr!Fault \/ Ldr!Fine) /\ kern' \in {kern, "binary", "empty"}
    BY DEF Ldr!ReadKernel, Ldr!Goes
  <1>2. CASE /\ \A p \in Kernel : mem[p] = "conv"
             /\ Ldr!Becomes([p \in Ldr!Pages |-> IF p \in Kernel THEN "kernel" ELSE mem[p]])
             /\ lpc' = "modes"
    <2>1. mem' = [p \in Ldr!Pages |-> IF p \in Kernel THEN "kernel" ELSE mem[p]] /\ key' = "old"
      BY <1>2 DEF Ldr!Becomes
    <2>2. mem' \in [Ldr!Pages -> Ldr!Uses] /\ \A p \in Kernel : mem'[p] = "kernel"
      BY <2>1, BootConstants DEF Leaving, LoaderShapes, Ldr!Uses
    <2>3. \A p \in Ldr!Pages : mem'[p] = "map" <=> mem[p] = "map"  BY <1>2, <2>1
    <2>4. LoaderShapes'
      BY <1>1, <1>2, <2>1, <2>2, FaultsFit DEF Leaving, LoaderShapes, LoaderSteps, Ldr!MapVars
    <2>5. Taken'  BY <1>1, <1>2, <2>2, <2>3 DEF Leaving, Taken, Ldr!MapVars
    <2> QED BY <1>1, <1>2, <2>1, <2>4, <2>5 DEF Leaving, Mapped, Seen
  <1>3. CASE lpc' = "fatal" /\ UNCHANGED <<mem, key>>
    <2>1. LoaderShapes'
      BY <1>1, <1>3, FaultsFit DEF Leaving, LoaderShapes, LoaderSteps, Ldr!MapVars
    <2> QED BY <1>1, <1>3, <2>1, BeforeMaps DEF LoaderSteps, Seen
  <1> QED BY <1>2, <1>3 DEF Ldr!ReadKernel, Ldr!Goes

LEMMA NoDisplayKeeps == ASSUME Ldr!BootAssumption, Leaving, Ldr!NoDisplay PROVE Leaving'
  <1>1. /\ UNCHANGED <<mem, key, kern, screen, scan, Ldr!MapVars, info, changes>>
        /\ lpc = "modes" /\ lpc' = "fatal" /\ Ldr!Fault
    BY DEF Ldr!NoDisplay, Ldr!Goes
  <1>2. LoaderShapes'  BY <1>1, FaultsFit DEF Leaving, LoaderShapes, LoaderSteps, Ldr!MapVars
  <1> QED BY <1>1, <1>2, BeforeMaps DEF LoaderSteps, Seen

LEMMA ModesKeep == ASSUME Ldr!BootAssumption, Leaving, Ldr!QueryMode \/ Ldr!SetMode PROVE Leaving'
  <1>1. /\ UNCHANGED <<mem, key, kern, Ldr!MapVars, info, changes>>
        /\ lpc = "modes" /\ (Ldr!Fault \/ Ldr!Fine) /\ lpc' \in {"modes", "info"}
    BY DEF Ldr!QueryMode, Ldr!SetMode, Ldr!Goes
  <1>2. screen' \in ScreenSet /\ scan' \in ScanSet
    <2>1. CASE Ldr!QueryMode
      <3> DEFINE n == screen.modes[scan.i].px
      <3>1. scan.i < Modes  BY <2>1 DEF Ldr!QueryMode
      <3>2. /\ scan.i \in 0 .. (Modes - 1) /\ scan.i + 1 \in 0 .. Modes
            /\ scan.best \in 0 .. (Modes - 1) /\ scan.px \in 0 .. 2 /\ scan \in ScanSet
        BY <3>1, BootConstants DEF Leaving, LoaderShapes, ScanSet
      <3>3. n \in 0 .. 2
        <4>1. screen.modes \in [0 .. (Modes - 1) -> Ldr!AllModes]
          BY DEF Leaving, LoaderShapes, ScreenSet
        <4>2. screen.modes[scan.i] \in Ldr!AllModes  BY <3>2, <4>1
        <4> QED BY <4>2 DEF Ldr!AllModes
      <3>4. /\ screen' = screen
            /\ \/ scan' = [i |-> scan.i + 1, best |-> IF Ldr!Better(n) THEN scan.i ELSE scan.best,
                           px |-> IF Ldr!Better(n) THEN n ELSE scan.px]
               \/ scan' = [scan EXCEPT !.i = @ + 1]
        BY <2>1 DEF Ldr!QueryMode
      <3> HIDE DEF n
      <3> QED BY <3>2, <3>3, <3>4 DEF ScanSet, Leaving, LoaderShapes
    <2>2. CASE Ldr!SetMode
      <3>1. scan.best \in 0 .. (Modes - 1)  BY DEF Leaving, LoaderShapes, ScanSet
      <3>2. scan' = scan /\ screen' \in {screen, [screen EXCEPT !.mode = scan.best]}
        BY <2>2 DEF Ldr!SetMode
      <3> QED BY <3>1, <3>2 DEF Leaving, LoaderShapes, ScreenSet
    <2> QED BY <2>1, <2>2
  <1>3. LoaderShapes'  BY <1>1, <1>2, FaultsFit DEF Leaving, LoaderShapes, LoaderSteps, Ldr!MapVars
  <1> QED BY <1>1, <1>3, BeforeMaps DEF LoaderSteps, Seen

LEMMA FramebufferKeeps == ASSUME Ldr!BootAssumption, Leaving, Ldr!Framebuffer PROVE Leaving'
  <1>1. /\ UNCHANGED <<mem, key, kern, screen, scan, Ldr!MapVars, changes>> /\ lpc = "info" /\ Ldr!Fine
        /\ \/ lpc' = "stack" /\ info' = [info EXCEPT !.fb = screen.mode]
           \/ lpc' = "fatal" /\ UNCHANGED info
    BY DEF Ldr!Framebuffer, Ldr!Goes, Ldr!Described
  <1>2. /\ info' \in InfoSet
        /\ info'.size = info.size /\ (lpc' = "stack" => info'.fb = screen.mode)
    <2>1. screen.mode \in -1 .. (Modes - 1)  BY BootConstants DEF Leaving, LoaderShapes, ScreenSet
    <2>2. info \in InfoSet  BY DEF Leaving, LoaderShapes
    <2> QED BY <1>1, <2>1, <2>2 DEF InfoSet
  <1>3. LoaderShapes'  BY <1>1, <1>2, FaultsFit DEF Leaving, LoaderShapes, LoaderSteps, Ldr!MapVars
  <1> QED BY <1>1, <1>2, <1>3, BeforeMaps DEF LoaderSteps, Seen

LEMMA StackKeeps == ASSUME Ldr!BootAssumption, Leaving, Ldr!Stack PROVE Leaving'
  <1>1. PICK p \in Ldr!Pages :
          /\ info' = [info EXCEPT !.stack = p]
          /\ \/ Ldr!Fine /\ mem[p] = "conv" /\ Ldr!Becomes([mem EXCEPT ![p] = "stack"])
             \/ /\ Ldr!Fault \/ (Ldr!Fine /\ \A q \in Ldr!Pages : mem[q] # "conv")
                /\ UNCHANGED <<mem, key>>
    BY DEF Ldr!Stack
  <1>2. /\ UNCHANGED <<kern, screen, scan, Ldr!MapVars, changes>>
        /\ lpc = "stack" /\ lpc' = "alloc" /\ (Ldr!Fault \/ Ldr!Fine)
    BY <1>1 DEF Ldr!Stack, Ldr!Goes
  <1>3. /\ info' \in InfoSet
        /\ info'.size = info.size /\ info'.fb = info.fb
    BY <1>1 DEF Leaving, LoaderShapes, InfoSet
  <1>4. /\ key' = "old" /\ mem' \in [Ldr!Pages -> Ldr!Uses]
        /\ \A q \in Kernel : mem'[q] = "kernel"
        /\ \A q \in Ldr!Pages : mem'[q] = "map" <=> mem[q] = "map"
    <2>1. /\ key = "old" /\ mem \in [Ldr!Pages -> Ldr!Uses] /\ Kernel \subseteq Ldr!Pages
          /\ \A q \in Kernel : mem[q] = "kernel"
      BY <1>2, BootConstants DEF Leaving, LoaderShapes, Taken, Mapped
    <2>2. CASE mem[p] = "conv" /\ mem' = [mem EXCEPT ![p] = "stack"] /\ key' = "old"
      BY <2>1, <2>2 DEF Ldr!Uses
    <2>3. CASE UNCHANGED <<mem, key>>  BY <2>1, <2>3
    <2> QED BY <1>1, <2>2, <2>3 DEF Ldr!Becomes
  <1>5. LoaderShapes'
    BY <1>2, <1>3, <1>4, FaultsFit DEF Leaving, LoaderShapes, LoaderSteps, Ldr!MapVars
  <1>6. Taken'  BY <1>2, <1>4 DEF Leaving, Taken, Ldr!MapVars
  <1> QED BY <1>2, <1>3, <1>4, <1>5, <1>6 DEF Leaving, Mapped, Seen

LEMMA AllocatePoolKeeps == ASSUME Ldr!BootAssumption, Leaving, Ldr!AllocatePool PROVE Leaving'
  <1>1. /\ UNCHANGED <<kern, screen, scan, msize, info, snap, changes>>
        /\ lpc = "alloc" /\ (Ldr!Fault \/ Ldr!Fine)
    BY DEF Ldr!AllocatePool, Ldr!Goes
  <1>2. /\ Ldr!Freed \in [Ldr!Pages -> Ldr!Uses] /\ (\A q \in Ldr!Pages : Ldr!Freed[q] # "map")
        /\ \A q \in Kernel : Ldr!Freed[q] = "kernel"
    BY <1>1, BootConstants DEF Leaving, LoaderShapes, Taken, Ldr!Freed, Ldr!Uses
  <1>3. CASE \E p \in Ldr!Pages : /\ Ldr!Freed[p] = "conv" /\ ds' = p
                                  /\ Ldr!Becomes([Ldr!Freed EXCEPT ![p] = "map"]) /\ lpc' = "map"
    <2>1. PICK p \in Ldr!Pages : /\ Ldr!Freed[p] = "conv" /\ ds' = p
                                 /\ Ldr!Becomes([Ldr!Freed EXCEPT ![p] = "map"]) /\ lpc' = "map"
      BY <1>3
    <2>2. key' = "old" /\ mem' \in [Ldr!Pages -> Ldr!Uses] /\ (\A q \in Kernel : mem'[q] = "kernel")
          /\ (\A q \in Ldr!Pages : mem'[q] = "map" <=> q = ds') /\ ds' # Ldr!NoPage
      BY <1>2, <2>1, BootConstants DEF Ldr!Becomes, Ldr!Uses
    <2>3. LoaderShapes'  BY <1>1, <2>1, <2>2, FaultsFit DEF Leaving, LoaderShapes, LoaderSteps
    <2> QED BY <1>1, <2>1, <2>2, <2>3 DEF Leaving, Taken, Mapped, Seen
  <1>4. CASE Ldr!Becomes(Ldr!Freed) /\ ds' = Ldr!NoPage /\ lpc' = "fatal"
    <2>1. key' = "old" /\ mem' = Ldr!Freed /\ (\A q \in Ldr!Pages : mem'[q] = "map" <=> q = ds')
      BY <1>2, <1>4, BootConstants DEF Ldr!Becomes
    <2>2. LoaderShapes'  BY <1>1, <1>2, <1>4, <2>1, FaultsFit DEF Leaving, LoaderShapes, LoaderSteps
    <2> QED BY <1>1, <1>4, <2>1, <2>2 DEF Leaving, Taken, Mapped, Seen
  <1> QED BY <1>3, <1>4 DEF Ldr!AllocatePool, Ldr!Goes

LEMMA GetMemoryMapKeeps == ASSUME Ldr!BootAssumption, Leaving, Ldr!GetMemoryMap PROVE Leaving'
  <1> DEFINE r == Ldr!Runs(mem)
  <1>1. /\ UNCHANGED <<mem, kern, screen, scan, ds, changes>>
        /\ lpc = "map" /\ key = "old" /\ (Ldr!Fault \/ Ldr!Fine)
    BY DEF Ldr!GetMemoryMap, Ldr!Goes, Leaving, Mapped
  <1>2. r \in 1 .. N  BY RunsAre
  <1> HIDE DEF r
  <1>3. CASE r > msize /\ msize' = r + Slack /\ lpc' = "alloc" /\ UNCHANGED <<snap, key, info>>
    <2>1. msize' \in 1 .. (FirstSize + N + Slack) /\ info.size <= msize'
      BY <1>2, <1>3, BootConstants DEF Leaving, LoaderShapes, InfoSet
    <2>2. LoaderShapes'  BY <1>1, <1>3, <2>1, FaultsFit DEF Leaving, LoaderShapes, LoaderSteps
    <2> QED BY <1>1, <1>3, <2>2 DEF Leaving, Taken, Mapped, Seen
  <1>4. CASE lpc' = "fatal" /\ UNCHANGED <<msize, snap, key, info>>
    <2>1. LoaderShapes'  BY <1>1, <1>4, FaultsFit DEF Leaving, LoaderShapes, LoaderSteps
    <2> QED BY <1>1, <1>4, <2>1 DEF Leaving, Taken, Mapped, Seen
  <1>5. CASE /\ r <= msize /\ snap' = mem /\ key' = "current" /\ lpc' = "exit" /\ UNCHANGED msize
             /\ info' = [info EXCEPT !.map = ds, !.size = r]
    <2>1. /\ info' \in InfoSet
          /\ info'.size = r /\ info'.map = ds /\ info'.fb = info.fb
      <3>1. info \in InfoSet /\ ds \in Ldr!Pages \cup {Ldr!NoPage}  BY DEF Leaving, LoaderShapes
      <3>2. r \in 0 .. N  BY <1>2
      <3> QED BY <1>5, <3>1, <3>2 DEF InfoSet
    <2>2. LoaderShapes'  BY <1>1, <1>5, <2>1, FaultsFit DEF Leaving, LoaderShapes, LoaderSteps
    <2>3. Mapped'  BY <1>1, <1>2, <1>5, <2>1 DEF Mapped, r
    <2> QED BY <1>1, <1>5, <2>1, <2>2, <2>3 DEF Leaving, Taken, Seen
  <1> QED BY <1>3, <1>4, <1>5 DEF Ldr!GetMemoryMap, Ldr!Goes, Ldr!Grown, Ldr!MapSize, r

LEMMA ExitKeeps == ASSUME Ldr!BootAssumption, Leaving, Ldr!ExitBootServices PROVE Leaving'
  <1>1. UNCHANGED <<mem, key, kern, screen, scan, ds, snap, info, changes>> /\ lpc = "exit" /\ Ldr!Fine
    BY DEF Ldr!ExitBootServices, Ldr!Goes
  <1>2. CASE key = "current"
    <2>1. lpc' = "kernel" /\ UNCHANGED msize  BY <1>2 DEF Ldr!ExitBootServices, Ldr!Goes
    <2>2. LoaderShapes'  BY <1>1, <2>1, FaultsFit DEF Leaving, LoaderShapes, LoaderSteps
    <2> QED BY <1>1, <1>2, <2>1, <2>2 DEF Leaving, Taken, Mapped, Seen
  <1>3. CASE key # "current"
    <2>1. lpc' = "alloc" /\ msize' = info.size + Slack
      BY <1>3 DEF Ldr!ExitBootServices, Ldr!Goes, Ldr!AfterRefusal, Ldr!Grown
    <2>2. info.size \in 1 .. N  BY <1>1 DEF Leaving, LoaderShapes, InfoSet, Mapped
    <2>3. msize' \in 1 .. (FirstSize + N + Slack) /\ info.size <= msize'
      BY <2>1, <2>2, BootConstants
    <2>4. LoaderShapes'  BY <1>1, <2>1, <2>3, FaultsFit DEF Leaving, LoaderShapes, LoaderSteps
    <2>5. key = "old"  BY <1>3 DEF Leaving, LoaderShapes
    <2> QED BY <1>1, <2>1, <2>4, <2>5 DEF Leaving, Taken, Mapped, Seen
  <1> QED BY <1>2, <1>3

(* The firmware takes a page or gives one back; the key is an old one then.*)
LEMMA FirmwareKeeps == ASSUME Ldr!BootAssumption, Leaving, Ldr!Firmware PROVE Leaving'
  <1>1. PICK p \in Ldr!Pages : /\ key' = "old"
                                /\ \/ mem[p] = "conv" /\ mem' = [mem EXCEPT ![p] = "fw"]
                                   \/ mem[p] = "fw" /\ mem' = [mem EXCEPT ![p] = "conv"]
    BY DEF Ldr!Firmware, Ldr!Becomes
  <1>2. /\ UNCHANGED <<lpc, kern, screen, scan, ds, msize, snap, info, lfaults>>
        /\ changes' \in 0 .. MaxChanges /\ lpc # "kernel"
    BY BootConstants DEF Ldr!Firmware, Ldr!Running, Leaving, LoaderShapes
  <1>3. key' = "old" /\ mem' \in [Ldr!Pages -> Ldr!Uses]
        /\ \A q \in Ldr!Pages : /\ mem'[q] = "map" <=> mem[q] = "map"
                                /\ mem[q] = "kernel" => mem'[q] = "kernel"
    <2>1. mem \in [Ldr!Pages -> Ldr!Uses]  BY DEF Leaving, LoaderShapes
    <2> QED BY <1>1, <2>1 DEF Ldr!Uses
  <1>4. LoaderShapes'  BY <1>2, <1>3 DEF Leaving, LoaderShapes
  <1>5. Taken'  BY <1>2, <1>3, BootConstants DEF Leaving, Taken
  <1> QED BY <1>2, <1>3, <1>4, <1>5 DEF Leaving, Mapped, Seen

LEMMA LoaderKeeps == ASSUME Ldr!BootAssumption, Leaving, [Ldr!Next]_(Ldr!vars) PROVE Leaving'
  <1>1. CASE UNCHANGED Ldr!vars  BY <1>1 DEF Ldr!vars, Leaving, LoaderShapes, Taken, Mapped, Seen
  <1>2. CASE Ldr!Next
    BY <1>2, ProtocolsKeeps, ReadKernelKeeps, NoDisplayKeeps, ModesKeep, FramebufferKeeps, StackKeeps,
       AllocatePoolKeeps, GetMemoryMapKeeps, ExitKeeps, FirmwareKeeps DEF Ldr!Next, Ldr!Loader
  <1> QED BY <1>1, <1>2

(* Whatever memory and displays the machine has, and however the firmware  *)
(* changes the map and fails: when the kernel is entered, the map it is    *)
(* handed is the one in force and has the kernel and itself taken, the     *)
(* framebuffer is that of the mode in use, and the loader holds one pool   *)
(* at most at any time.                                                    *)
THEOREM LoaderIsSound == ASSUME Ldr!BootAssumption PROVE Ldr!Spec => []Ldr!LoaderSound
  <1>1. Ldr!Init => Leaving  BY LoaderStarts
  <1>2. Leaving /\ [Ldr!Next]_(Ldr!vars) => Leaving'  BY LoaderKeeps
  <1>3. Leaving => Ldr!LoaderSound
    <2> SUFFICES ASSUME Leaving PROVE Ldr!LoaderSound  OBVIOUS
    <2>1. Ldr!TypeOK
      <3>1. info \in [fb : -1 .. (Modes - 1), map : Ldr!Pages \cup {Ldr!NoPage}, size : 0 .. msize,
                      stack : Ldr!Pages \cup {Ldr!NoPage}]
        BY BootConstants DEF Leaving, LoaderShapes, InfoSet
      <3> QED BY <3>1 DEF Leaving, LoaderShapes, Ldr!TypeOK, LoaderSteps, ScreenSet, ScanSet
    <2>2. Ldr!MapIsTrue
      <3> SUFFICES ASSUME lpc = "kernel" PROVE Ldr!MapIsTrue  BY DEF Ldr!MapIsTrue
      <3>1. /\ snap = mem /\ info.map = ds /\ info.size = Ldr!Runs(mem) /\ ds \in Ldr!Pages
            /\ mem[ds] = "map" /\ \A p \in Kernel : mem[p] = "kernel"
        BY DEF Leaving, LoaderShapes, Taken, Mapped
      <3> QED BY <3>1 DEF Ldr!MapIsTrue
    <2>3. Ldr!OnePool  BY BootConstants DEF Ldr!OnePool, Leaving, LoaderShapes, Taken
    <2>4. Ldr!ScreenIsReal  BY DEF Ldr!ScreenIsReal, Leaving, Seen
    <2> QED BY <2>1, <2>2, <2>3, <2>4 DEF Ldr!LoaderSound
  <1> QED BY <1>1, <1>2, <1>3, PTL DEF Ldr!Spec
-----------------------------------------------------------------------------
(* FatMount: vpc is what the running call is at, and vdrive the drive.     *)
CONSTANTS Epc, MinClusts, Wrap, Parts, Drives, Fats
VARIABLES vdrive, vpc, vcall, fat, win, head, up, vres, vfaults, given, left

Vol == INSTANCE FatMount WITH
    drive <- vdrive, pc <- vpc, call <- vcall, res <- vres, faults <- vfaults

(* Where a volume's areas are, and its clusters, can be written in 32 bits. *)
Fitting(b) == 5 + Vol!Meta(b) < Wrap /\ b.spf * Epc < Wrap /\ b.res >= 2

VolumeAssumption == Vol!MountAssumption /\ Vol!NobodyAssumption

VolDrive ==
    /\ vdrive \in Vol!DriveType /\ Fitting(vdrive.bpb)
    /\ \A p \in Parts : vdrive.free[p] \subseteq 2 .. (vdrive.bpb.spf * Epc - 1)

(* What the calls, the objects, their buffers and results are.             *)
CallObjects == [op : {"none", "probe", "mount", "umount", "find", "scan", "sync"}, part : Parts,
                fat : Fats \cup {Vol!Nobody}, clust : Vol!Numbers]
ObjectSet == [next : Fats \cup {Vol!Nobody}, part : Parts, fat_sect : Vol!Numbers \X Vol!Numbers,
              info_sect : Vol!Numbers, data_sect : Vol!Numbers, clust_cnt : Vol!Numbers,
              last_used : Vol!Numbers, free_cnt : Vol!Numbers]
BufSet    == [marks : SUBSET Vol!Numbers, next_free : Vol!Numbers, free_cnt : Vol!Numbers]
WindowSet == [sect : Nat, dirty : BOOLEAN, told : BOOLEAN, buf : BufSet]
VolResults == {"NONE", "NOFAT", "IO", "PARAM", "PATH", "FULL", "FLAGS"}

(* The calls that write: where they are at, and whose they are.            *)
Writing == {"scan", "copy", "mark", "sync", "tell", "told"}
Stages  == {"idle", "zero", "part", "info", "panic"} \cup Writing
Active(f) == f \in up \/ (vpc \in Writing /\ f = vcall.fat)

(* A volume is there where the comment above fat_probe says so.            *)
There(p) ==
    /\ Vol!CheckFat(vdrive.bpb)
    /\ \/ p = 0 /\ vdrive.zero = "bpb"
       \/ vdrive.zero = "mbr" /\ vdrive.type[p] /\ vdrive.holds[p]

(* The free clusters of the volume of object r that is on drive d, with    *)
(* what is in r's buffer only.                                             *)
SeenFree(d, w, r) == d.free[r.part] \ (IF w.sect \in {0, r.info_sect} THEN {} ELSE w.buf.marks)

(* What the running call has found out.                                    *)
CallKnows ==
    /\ vpc \in {"zero", "part"} => vcall.op \in {"probe", "mount"}
    /\ vpc \in {"zero", "part", "info"} /\ vcall.op = "mount" =>
         vcall.fat \in Fats \ up /\ vcall.part \notin {fat[g].part : g \in up}
    /\ vpc = "part" => Vol!GetPartLba /\ ~(vdrive.zero = "bpb" /\ Vol!CheckFat(vdrive.bpb))
    /\ vpc = "info" => vcall.op = "mount" /\ There(vcall.part) /\ fat[vcall.fat].part = vcall.part
    /\ vpc \in Writing => /\ vcall.op \in {"scan", "sync", "umount"} /\ vcall.fat \in Fats
                          /\ vcall.op # "umount" => vcall.fat \in up
    /\ vpc \in {"scan", "copy", "mark"} => vcall.op = "scan"
    /\ vpc = "copy" => fat[vcall.fat].fat_sect[2] # 0
    /\ vpc \in {"copy", "mark"} => vcall.clust \in SeenFree(vdrive, win[vcall.fat], fat[vcall.fat])

(* An object has the areas of a volume that begins at lba. *)
AreasFrom(f, lba) ==
    LET b == vdrive.bpb
        first == IF b.act % 2 = 0 THEN lba + b.res ELSE lba + b.res + b.spf
        other == IF b.act % 2 = 0 THEN lba + b.res + b.spf ELSE lba + b.res
    IN  /\ fat[f].fat_sect = <<first, IF b.mirror THEN other ELSE 0>>
        /\ fat[f].info_sect = lba + 1 /\ fat[f].data_sect = lba + Vol!Meta(b)

AreasFit == \A f \in Fats : Active(f) \/ (vpc = "info" /\ f = vcall.fat) => \E lba \in 0 .. 4 : AreasFrom(f, lba)

(* No volume has two objects.                                              *)
PartsApart == \A f, g \in Fats : Active(f) /\ Active(g) /\ f # g => fat[f].part # fat[g].part

(* A buffer that is not dirty has nothing the medium lacks. *)
Windows == win \in [Fats -> WindowSet] /\ \A f \in Fats : ~win[f].dirty => win[f].buf = Vol!Nothing

(* s is the list that begins with h, by the objects of g; its members are u.*)
Chain(g, h, u, n, s) ==
    /\ n \in Nat /\ s \in [1 .. n -> Fats]
    /\ \A i, j \in 1 .. n : s[i] = s[j] => i = j
    /\ h = IF n = 0 THEN Vol!Nobody ELSE s[1]
    /\ \A i \in 1 .. n : g[s[i]].next = IF i = n THEN Vol!Nobody ELSE s[i + 1]
    /\ u = {s[i] : i \in 1 .. n}
Linked == \E n, s : Chain(fat, head, up, n, s)

VolShapes ==
    /\ vpc \in Stages /\ vcall \in CallObjects /\ fat \in [Fats -> ObjectSet]
    /\ head \in Fats \cup {Vol!Nobody} /\ up \subseteq Fats /\ vfaults \in 0 .. MaxFaults
    /\ vres \in VolResults

Mounting ==
    /\ VolDrive /\ VolShapes /\ Windows /\ CallKnows /\ AreasFit /\ PartsApart /\ Linked
    /\ Vol!ProbeIsDocumented

LEMMA VolumeConstants ==
    ASSUME VolumeAssumption
    PROVE  /\ Epc \in Nat /\ Epc > 0 /\ MinClusts \in Nat /\ Wrap \in Nat /\ Wrap > 1 /\ MaxFaults \in Nat
           /\ Parts \subseteq 0 .. 3 /\ 0 \in Parts /\ Drives \subseteq Vol!DriveType
           /\ IsFiniteSet(Fats) /\ Vol!Nobody \notin Fats
           /\ Vol!Numbers = 0 .. (Wrap - 1)
           /\ \A d \in Drives, p \in Parts : d.free[p] \subseteq 2 .. (d.bpb.spf * Epc - 1)
           /\ \A d \in Drives : Fitting(d.bpb)
  <1>1. Vol!MountAssumption /\ Vol!Nobody \notin Fats  BY DEF VolumeAssumption, Vol!NobodyAssumption
  <1>2. /\ {Epc, MinClusts, Wrap, MaxFaults} \subseteq Nat /\ Wrap > 1 /\ Epc > 0 /\ Vol!IsFiniteSet(Fats)
        /\ Parts \subseteq 0 .. 3 /\ 0 \in Parts /\ Drives \subseteq Vol!DriveType
        /\ \A d \in Drives, p \in Parts : d.free[p] \subseteq 2 .. (d.bpb.spf * Epc - 1)
        /\ \A d \in Drives : 5 + d.bpb.res + 2 * d.bpb.spf < Wrap /\ d.bpb.spf * Epc < Wrap /\ d.bpb.res >= 2
    BY <1>1 DEF Vol!MountAssumption
  <1>3. IsFiniteSet(Fats)  BY <1>2 DEF Vol!IsFiniteSet, IsFiniteSet
  <1>4. Vol!Numbers = 0 .. (Wrap - 1)  BY DEF Vol!Numbers
  <1>5. \A d \in Drives : Fitting(d.bpb)
    <2> SUFFICES ASSUME NEW d \in Drives PROVE Fitting(d.bpb)  OBVIOUS
    <2> DEFINE b == d.bpb
    <2>1. b.res \in Nat /\ b.spf \in Nat  BY <1>2, <1>4 DEF Vol!DriveType, Vol!Bpb
    <2>2. 5 + b.res + 2 * b.spf < Wrap /\ b.spf * Epc < Wrap /\ b.res >= 2  BY <1>2
    <2>3. 5 + (b.res + 2 * b.spf) < Wrap
      <3> DEFINE x == b.res
                 y == b.spf
      <3>1. x \in Nat /\ y \in Nat /\ Wrap \in Nat /\ 5 + x + 2 * y < Wrap  BY <1>2, <2>1, <2>2
      <3> HIDE DEF x, y
      <3>2. 5 + (x + 2 * y) < Wrap  BY <3>1
      <3> QED BY <3>2 DEF x, y
    <2> QED BY <2>2, <2>3 DEF Fitting, Vol!Meta
  <1> QED BY <1>1, <1>2, <1>3, <1>4, <1>5

LEMMA SameCount == \A S : Vol!Cardinality(S) = Cardinality(S)
  BY DEF Vol!Cardinality, Cardinality

(* The walk over g_fat_list comes to what is mounted. *)
LEMMA ListedIsUp == ASSUME VolumeAssumption, Linked PROVE Vol!Listed = up
  <1>1. PICK n, s : Chain(fat, head, up, n, s)  BY DEF Linked
  <1>2. /\ n \in Nat /\ s \in [1 .. n -> Fats]
        /\ \A i, j \in 1 .. n : s[i] = s[j] => i = j
        /\ head = IF n = 0 THEN Vol!Nobody ELSE s[1]
        /\ \A i \in 1 .. n : fat[s[i]].next = IF i = n THEN Vol!Nobody ELSE s[i + 1]
        /\ up = {s[i] : i \in 1 .. n}
        /\ Vol!Nobody \notin Fats
    BY <1>1, VolumeConstants DEF Chain
  <1> DEFINE C == Cardinality(Fats)
             Upto(k) == {s[i] : i \in {j \in 1 .. n : j <= k + 1}}
             Body(m) == [k \in 0 .. C |->
                            IF k = 0 THEN {head} \ {Vol!Nobody}
                            ELSE m[k - 1] \cup ({fat[f].next : f \in m[k - 1]} \ {Vol!Nobody})]
             met == CHOOSE m : m = Body(m)
  <1>3. C \in Nat /\ n <= C
    <2>1. s \in Injection(1 .. n, Fats)  BY <1>2 DEF Injection, IsInjective
    <2>2. IsFiniteSet(Fats)  BY VolumeConstants
    <2>3. Cardinality(1 .. n) <= C  BY <2>1, <2>2, FS_Injection
    <2>4. Cardinality(1 .. n) = n  BY <1>2, FS_Interval
    <2> QED BY <2>2, <2>3, <2>4, FS_CardinalityType
  <1> HIDE DEF C
  <1>4. Upto(0) = {head} \ {Vol!Nobody}  BY <1>2
  <1>5. ASSUME NEW k \in 1 .. C
        PROVE  Upto(k) = Upto(k - 1) \cup ({fat[f].next : f \in Upto(k - 1)} \ {Vol!Nobody})
    <2>1. ASSUME NEW x \in Upto(k) PROVE x \in Upto(k - 1) \cup ({fat[f].next : f \in Upto(k - 1)} \ {Vol!Nobody})
      <3>1. PICK i \in 1 .. n : i <= k + 1 /\ x = s[i]  OBVIOUS
      <3>2. CASE i <= k  BY <1>2, <3>1, <3>2
      <3>3. CASE i = k + 1
        <4>1. k \in 1 .. n /\ s[k] \in Upto(k - 1)  BY <1>2, <3>1, <3>3
        <4>2. fat[s[k]].next = s[i] /\ s[i] # Vol!Nobody  BY <1>2, <3>1, <3>3, <4>1
        <4> QED BY <3>1, <4>1, <4>2
      <3> QED BY <1>2, <3>1, <3>2, <3>3
    <2>2. Upto(k - 1) \subseteq Upto(k)  BY <1>2
    <2>3. ASSUME NEW f \in Upto(k - 1), fat[f].next # Vol!Nobody PROVE fat[f].next \in Upto(k)
      <3>1. PICK i \in 1 .. n : i <= k /\ f = s[i]  OBVIOUS
      <3>2. i # n /\ fat[f].next = s[i + 1] /\ i + 1 \in 1 .. n /\ i + 1 <= k + 1  BY <1>2, <2>3, <3>1
      <3> QED BY <3>2
    <2> HIDE DEF Upto
    <2> QED BY <2>1, <2>2, <2>3
  <1>6. \E m : m = Body(m)
    <2> DEFINE m == [k \in 0 .. C |-> Upto(k)]
    <2>1. \A k \in 0 .. C : k # 0 => k - 1 \in 0 .. C /\ k \in 1 .. C  BY <1>3
    <2> HIDE DEF Upto
    <2>2. m = Body(m)  BY <1>4, <1>5, <2>1
    <2> HIDE DEF m, Body
    <2> QED BY <2>2
  <1>7. met = Body(met)
    <2> HIDE DEF Body
    <2> QED BY <1>6
  <1>8. Vol!Listed = met[C]
    BY SameCount DEF Vol!Listed, Vol!Met, C
  <1> DEFINE T == {k \in 0 .. C : met[k] = Upto(k)}
  <1>9. 0 .. C \subseteq T
    <2> HIDE DEF Upto, met
    <2>1. 0 \in T  BY <1>3, <1>4, <1>7
    <2>2. \A p \in 1 .. C : p - 1 \in T => p \in T
      <3> SUFFICES ASSUME NEW p \in 1 .. C, p - 1 \in T PROVE p \in T  OBVIOUS
      <3>1. p \in 0 .. C /\ p # 0 /\ met[p - 1] = Upto(p - 1)  BY <1>3
      <3>2. met[p] = met[p - 1] \cup ({fat[f].next : f \in met[p - 1]} \ {Vol!Nobody})  BY <1>7, <3>1
      <3> QED BY <1>5, <3>1, <3>2
    <2> HIDE DEF T
    <2> QED BY <1>3, <2>1, <2>2, EveryRound
  <1>10. met[C] = Upto(C)
    <2> HIDE DEF Upto, met
    <2> QED BY <1>3, <1>9
  <1>11. Upto(C) = up  BY <1>2, <1>3
  <1> QED BY <1>8, <1>10, <1>11

LEMMA DriveShape ==
    ASSUME VolumeAssumption, VolDrive
    PROVE  /\ vdrive.info \in [Parts -> Vol!FsInfo] /\ vdrive.free \in [Parts -> SUBSET Vol!Numbers]
           /\ vdrive.bpb \in Vol!Bpb /\ vdrive.type \in [Parts -> BOOLEAN] /\ vdrive.holds \in [Parts -> BOOLEAN]
           /\ vdrive.zero \in {"bpb", "mbr", "none"}
           /\ \A p \in Parts : vdrive.free[p] \subseteq Vol!Numbers /\ IsFiniteSet(vdrive.free[p])
  <1>1. /\ vdrive.info \in [Parts -> Vol!FsInfo] /\ vdrive.free \in [Parts -> SUBSET Vol!Numbers]
        /\ vdrive.bpb \in Vol!Bpb /\ vdrive.type \in [Parts -> BOOLEAN] /\ vdrive.holds \in [Parts -> BOOLEAN]
        /\ vdrive.zero \in {"bpb", "mbr", "none"}
    BY DEF VolDrive, Vol!DriveType
  <1>2. ASSUME NEW p \in Parts PROVE vdrive.free[p] \subseteq Vol!Numbers /\ IsFiniteSet(vdrive.free[p])
    <2>1. vdrive.free[p] \subseteq 0 .. (Wrap - 1)  BY <1>1, <1>2, VolumeConstants
    <2>2. IsFiniteSet(0 .. (Wrap - 1))  BY VolumeConstants, FS_Interval
    <2> QED BY <2>1, <2>2, VolumeConstants, FS_Subset
  <1> QED BY <1>1, <1>2

LEMMA ShapesAreTypes ==
    ASSUME VolDrive, VolShapes, Windows PROVE Vol!TypeOK
  BY DEF Vol!TypeOK, VolDrive, VolShapes, Windows, Stages, Writing, CallObjects, ObjectSet, WindowSet, BufSet, VolResults

LEMMA NoCallFits == VolumeAssumption => Vol!NoCall \in CallObjects /\ 0 \in Parts /\ 0 \in Vol!Numbers
  BY VolumeConstants DEF Vol!NoCall, CallObjects

LEMMA VolumeStarts == ASSUME VolumeAssumption, Vol!Init PROVE Mounting
  <1>1. PICK d \in Drives : Vol!Attached(d)  BY DEF Vol!Init
  <1>2. /\ vdrive = d /\ vpc = "idle" /\ vcall = Vol!NoCall /\ fat = [f \in Fats |-> Vol!Blank]
        /\ win = [f \in Fats |-> Vol!Unused]
        /\ head = Vol!Nobody /\ up = {} /\ vres = "NONE" /\ vfaults = 0
    BY <1>1 DEF Vol!Attached
  <1>3. VolDrive  BY <1>2, VolumeConstants DEF VolDrive
  <1>4. VolShapes
    <2>1. 0 \in Vol!Numbers  BY VolumeConstants
    <2>2. Vol!Blank \in ObjectSet  BY <2>1, VolumeConstants DEF Vol!Blank, ObjectSet
    <2>3. fat \in [Fats -> ObjectSet]  BY <1>2, <2>2
    <2> QED BY <1>2, <2>3, NoCallFits, VolumeConstants DEF VolShapes, Stages, VolResults
  <1>5. Windows
    <2>1. Vol!Nothing \in BufSet  BY VolumeConstants DEF Vol!Nothing, BufSet
    <2>2. Vol!Unused \in WindowSet /\ Vol!Unused.buf = Vol!Nothing  BY <2>1 DEF Vol!Unused, WindowSet
    <2> QED BY <1>2, <2>2 DEF Windows
  <1>6. CallKnows /\ AreasFit /\ PartsApart
    BY <1>2 DEF CallKnows, AreasFit, PartsApart, Active, Writing
  <1>7. Linked
    <2> DEFINE s == [i \in 1 .. 0 |-> CHOOSE f \in Fats : TRUE]
    <2>1. Chain(fat, head, up, 0, s)  BY <1>2 DEF Chain
    <2> HIDE DEF s
    <2> QED BY <2>1 DEF Linked
  <1>8. Vol!ProbeIsDocumented  BY <1>2 DEF Vol!ProbeIsDocumented, Vol!NoCall
  <1> QED BY <1>3, <1>4, <1>5, <1>6, <1>7, <1>8 DEF Mounting

(* What mounting and unmounting do to the list. *)
LEMMA ChainKept ==
    ASSUME NEW g, NEW g2, NEW h, NEW u, NEW n, NEW s, Chain(g, h, u, n, s),
           \A f \in u : g2[f].next = g[f].next
    PROVE  Chain(g2, h, u, n, s)
  BY DEF Chain

LEMMA ChainPut ==
    ASSUME NEW g, NEW g2, NEW h, NEW u, NEW n, NEW s, Chain(g, h, u, n, s),
           NEW f \in Fats \ u, g2[f].next = h, \A x \in u : g2[x].next = g[x].next
    PROVE  \E m, t : Chain(g2, f, u \cup {f}, m, t)
  <1> DEFINE t == [i \in 1 .. (n + 1) |-> IF i = 1 THEN f ELSE s[i - 1]]
  <1>1. /\ n \in Nat /\ s \in [1 .. n -> Fats] /\ \A i, j \in 1 .. n : s[i] = s[j] => i = j
        /\ h = IF n = 0 THEN Vol!Nobody ELSE s[1]
        /\ \A i \in 1 .. n : g[s[i]].next = IF i = n THEN Vol!Nobody ELSE s[i + 1]
        /\ u = {s[i] : i \in 1 .. n}
    BY DEF Chain
  <1>2. \A i \in 1 .. (n + 1) : i # 1 => i - 1 \in 1 .. n  BY <1>1
  <1>3. t \in [1 .. (n + 1) -> Fats]  BY <1>1, <1>2
  <1>4. ASSUME NEW i \in 1 .. (n + 1), NEW j \in 1 .. (n + 1), t[i] = t[j] PROVE i = j
    <2>1. \A k \in 1 .. n : s[k] # f  BY <1>1
    <2>2. CASE i = 1 \/ j = 1  BY <1>2, <1>4, <2>1, <2>2
    <2>3. CASE i # 1 /\ j # 1
      <3>1. s[i - 1] = s[j - 1] /\ i - 1 \in 1 .. n /\ j - 1 \in 1 .. n  BY <1>2, <1>4, <2>3
      <3>2. i - 1 = j - 1  BY <1>1, <3>1
      <3> QED BY <3>2
    <2> QED BY <2>2, <2>3
  <1>5. ASSUME NEW i \in 1 .. (n + 1) PROVE g2[t[i]].next = IF i = n + 1 THEN Vol!Nobody ELSE t[i + 1]
    <2>1. CASE i = 1
      <3>1. n # 0 => t[i + 1] = s[1]  BY <1>1, <2>1
      <3> QED BY <1>1, <2>1, <3>1
    <2>2. CASE i # 1
      <3>1. i - 1 \in 1 .. n /\ t[i] = s[i - 1] /\ t[i] \in u  BY <1>1, <1>2, <2>2
      <3>2. g2[t[i]].next = IF i - 1 = n THEN Vol!Nobody ELSE s[(i - 1) + 1]  BY <1>1, <3>1
      <3>3. i # n + 1 => t[i + 1] = s[i]  BY <1>1, <2>2
      <3> QED BY <1>1, <3>2, <3>3
    <2> QED BY <2>1, <2>2
  <1>6. u \cup {f} = {t[i] : i \in 1 .. (n + 1)}
    <2>1. \A i \in 1 .. n : i + 1 \in 1 .. (n + 1) /\ t[i + 1] = s[i]  BY <1>1
    <2>2. 1 \in 1 .. (n + 1) /\ t[1] = f  BY <1>1
    <2>3. \A i \in 1 .. (n + 1) : t[i] \in u \cup {f}  BY <1>1, <1>2
    <2> HIDE DEF t
    <2> QED BY <1>1, <2>1, <2>2, <2>3
  <1>7. t[1] = f /\ n + 1 # 0 /\ n + 1 \in Nat  BY <1>1
  <1> HIDE DEF t
  <1>8. Chain(g2, f, u \cup {f}, n + 1, t)
    <2> DEFINE m == n + 1
               v == u \cup {f}
    <2>1. /\ t \in [1 .. m -> Fats] /\ \A i, j \in 1 .. m : t[i] = t[j] => i = j
          /\ \A i \in 1 .. m : g2[t[i]].next = IF i = m THEN Vol!Nobody ELSE t[i + 1]
          /\ v = {t[i] : i \in 1 .. m}
          /\ m \in Nat /\ m # 0 /\ f = t[1]
      BY <1>3, <1>4, <1>5, <1>6, <1>7
    <2> HIDE DEF m, v
    <2>2. Chain(g2, f, v, m, t)  BY <2>1 DEF Chain
    <2> QED BY <2>2 DEF m, v
  <1> QED BY <1>8

LEMMA ChainCut ==
    ASSUME NEW g, NEW g2, NEW h, NEW u, NEW n, NEW s, Chain(g, h, u, n, s), Vol!Nobody \notin Fats,
           NEW f \in u,
           \A x \in u \ {f} : g2[x].next = IF g[x].next = f THEN g[f].next ELSE g[x].next
    PROVE  \E m, t : Chain(g2, IF h = f THEN g[f].next ELSE h, u \ {f}, m, t)
  <1>1. /\ n \in Nat /\ s \in [1 .. n -> Fats] /\ \A i, j \in 1 .. n : s[i] = s[j] => i = j
        /\ h = IF n = 0 THEN Vol!Nobody ELSE s[1]
        /\ \A i \in 1 .. n : g[s[i]].next = IF i = n THEN Vol!Nobody ELSE s[i + 1]
        /\ u = {s[i] : i \in 1 .. n}
    BY DEF Chain
  <1>2. PICK k \in 1 .. n : f = s[k]  BY <1>1
  <1> DEFINE at(i) == IF i < k THEN i ELSE i + 1
             t == [i \in 1 .. (n - 1) |-> s[at(i)]]
  <1>3. \A i \in 1 .. (n - 1) : at(i) \in 1 .. n /\ at(i) # k  BY <1>1
  <1>4. t \in [1 .. (n - 1) -> Fats]  BY <1>1, <1>3
  <1>5. ASSUME NEW i \in 1 .. (n - 1), NEW j \in 1 .. (n - 1), t[i] = t[j] PROVE i = j
    <2>1. at(i) = at(j)
      <3> HIDE DEF at
      <3> QED BY <1>1, <1>3, <1>5
    <2> QED BY <2>1
  <1>6. ASSUME NEW i \in 1 .. (n - 1) PROVE g2[t[i]].next = IF i = n - 1 THEN Vol!Nobody ELSE t[i + 1]
    <2>1. t[i] = s[at(i)] /\ t[i] \in u \ {f}
      <3> HIDE DEF at
      <3> QED BY <1>1, <1>2, <1>3
    <2>2. g2[t[i]].next = IF g[t[i]].next = f THEN g[f].next ELSE g[t[i]].next  BY <2>1
    <2>3. g[t[i]].next = IF at(i) = n THEN Vol!Nobody ELSE s[at(i) + 1]
      <3> HIDE DEF at
      <3> QED BY <1>1, <1>3, <2>1
    <2>4. g[f].next = IF k = n THEN Vol!Nobody ELSE s[k + 1]  BY <1>1, <1>2
    <2>5. CASE i + 1 < k
      <3>1. g[t[i]].next = s[i + 1] /\ i + 1 \in 1 .. n /\ i + 1 # k  BY <1>1, <2>3, <2>5
      <3>2. s[i + 1] # f  BY <1>1, <1>2, <3>1
      <3>3. i # n - 1 /\ t[i + 1] = s[i + 1]  BY <1>1, <2>5
      <3> QED BY <2>2, <3>1, <3>2, <3>3
    <2>6. CASE i + 1 = k
      <3>1. g[t[i]].next = s[k] /\ g[t[i]].next = f  BY <1>1, <1>2, <2>3, <2>6
      <3>2. i # n - 1 => t[i + 1] = s[k + 1]  BY <1>1, <2>6
      <3>3. i = n - 1 <=> k = n  BY <1>1, <2>6
      <3> HIDE DEF t
      <3> QED BY <2>2, <2>4, <3>1, <3>2, <3>3
    <2>7. CASE i >= k
      <3>1. g[t[i]].next = IF i + 1 = n THEN Vol!Nobody ELSE s[i + 2]  BY <1>1, <2>3, <2>7
      <3>2. i + 1 # n => i + 2 \in 1 .. n /\ i + 2 # k /\ t[i + 1] = s[i + 2]  BY <1>1, <2>7
      <3>3. i + 1 # n => s[i + 2] # f  BY <1>1, <1>2, <3>2
      <3>4. f \in Fats  BY <1>1
      <3> QED BY <1>1, <2>2, <3>1, <3>2, <3>3, <3>4
    <2> QED BY <1>1, <2>5, <2>6, <2>7
  <1>7. u \ {f} = {t[i] : i \in 1 .. (n - 1)}
    <2>1. ASSUME NEW j \in 1 .. n, j # k PROVE \E i \in 1 .. (n - 1) : t[i] = s[j]
      <3>1. CASE j < k
        <4>1. j \in 1 .. (n - 1) /\ t[j] = s[j]  BY <1>1, <3>1
        <4> QED BY <4>1
      <3>2. CASE j > k
        <4>1. j - 1 \in 1 .. (n - 1) /\ t[j - 1] = s[j]  BY <1>1, <3>2
        <4> QED BY <4>1
      <3> QED BY <2>1, <3>1, <3>2
    <2>2. \A i \in 1 .. (n - 1) : t[i] \in u \ {f}
      <3> HIDE DEF at
      <3> QED BY <1>1, <1>2, <1>3
    <2>3. \A x \in u \ {f} : \E j \in 1 .. n : j # k /\ x = s[j]  BY <1>1, <1>2
    <2> HIDE DEF t
    <2> QED BY <2>1, <2>2, <2>3
  <1>8. (IF h = f THEN g[f].next ELSE h) = IF n - 1 = 0 THEN Vol!Nobody ELSE t[1]
    <2>1. n > 0 /\ h = s[1]  BY <1>1
    <2>2. h = f <=> k = 1  BY <1>1, <1>2, <2>1
    <2>3. g[f].next = IF k = n THEN Vol!Nobody ELSE s[k + 1]  BY <1>1, <1>2
    <2>4. CASE k = 1
      <3>1. n # 1 => t[1] = s[2]  BY <1>1, <2>4
      <3> QED BY <1>1, <2>2, <2>3, <2>4, <3>1
    <2>5. CASE k # 1
      <3>1. n - 1 # 0 /\ t[1] = s[1]  BY <1>1, <2>5
      <3> QED BY <2>1, <2>2, <2>5, <3>1
    <2> QED BY <2>4, <2>5
  <1>9. n - 1 \in Nat  BY <1>1
  <1> HIDE DEF t
  <1> DEFINE m == n - 1
             v == u \ {f}
             first == IF h = f THEN g[f].next ELSE h
  <1>10. /\ t \in [1 .. m -> Fats] /\ \A i, j \in 1 .. m : t[i] = t[j] => i = j
         /\ \A i \in 1 .. m : g2[t[i]].next = IF i = m THEN Vol!Nobody ELSE t[i + 1]
         /\ v = {t[i] : i \in 1 .. m}
         /\ m \in Nat /\ first = IF m = 0 THEN Vol!Nobody ELSE t[1]
    BY <1>4, <1>5, <1>6, <1>7, <1>8, <1>9
  <1> HIDE DEF m, v, first
  <1>11. Chain(g2, first, v, m, t)  BY <1>10 DEF Chain
  <1>12. \E x, y : Chain(g2, first, v, x, y)  BY <1>11
  <1> QED BY <1>12 DEF first, v

(* The two ways to write down what check_fat accepts. *)
LEMMA CheckIs ==
    ASSUME VolumeAssumption, NEW b \in Vol!Bpb, b.total >= Vol!Meta(b), Vol!Computes(b)
    PROVE  Vol!CheckFat(b) <=> /\ b.good
                               /\ b.mirror \/ b.act \in {0, 1}
                               /\ (b.total - Vol!Meta(b)) \div b.spc >= MinClusts
  <1>1. b.total \in 0 .. (Wrap - 1) /\ b.res \in Nat /\ b.spf \in Nat /\ b.act \in 0 .. 15
    BY VolumeConstants DEF Vol!Bpb
  <1>2. Vol!Meta(b) \in Nat  BY <1>1 DEF Vol!Meta
  <1>3. (b.total - Vol!Meta(b)) % Wrap = b.total - Vol!Meta(b)
    <2>1. Wrap \in Nat  BY VolumeConstants
    <2>2. \A t \in 0 .. (Wrap - 1), m \in Nat : t >= m => t - m \in 0 .. (Wrap - 1)  BY <2>1
    <2>3. \A x \in 0 .. (Wrap - 1) : x % Wrap = x  BY <2>1
    <2> QED BY <1>1, <1>2, <2>2, <2>3
  <1>4. b.act <= 1 <=> b.act \in {0, 1}  BY <1>1
  <1> QED BY <1>3, <1>4 DEF Vol!CheckFat, Vol!DataClusts, Vol!Divides, Vol!Computes

(* The comment above fat_probe, when a call has just ended. *)
LEMMA AnswerIs ==
    ASSUME VolumeAssumption, VolDrive, vdrive' = vdrive, vcall' = vcall,
           vres' = "NONE" => There(vcall.part) /\ (vcall.op = "mount" => Vol!Accepts(vdrive.info[vcall.part])),
           vres' = "NOFAT" => ~There(vcall.part)
                              \/ (vcall.op = "mount" /\ ~Vol!Accepts(vdrive.info[vcall.part])),
           (\/ vcall.part = 0 /\ vdrive.zero = "bpb"
            \/ vdrive.zero = "mbr" /\ vdrive.type[vcall.part] /\ vdrive.holds[vcall.part])
             => Vol!Computes(vdrive.bpb)
    PROVE  Vol!ProbeIsDocumented'
  <1> DEFINE b == vdrive.bpb
             ok == b.good /\ (b.mirror \/ b.act \in {0, 1})
                   /\ (b.total - Vol!Meta(b)) \div b.spc >= MinClusts
             at == \/ vcall.part = 0 /\ vdrive.zero = "bpb"
                   \/ vdrive.zero = "mbr" /\ vdrive.type[vcall.part] /\ vdrive.holds[vcall.part]
  <1>1. b \in Vol!Bpb  BY DriveShape
  <1>2. b.total >= Vol!Meta(b) /\ at => (Vol!CheckFat(b) <=> ok)
    <2> HIDE DEF b
    <2>1. at => Vol!Computes(b)  BY DEF b
    <2> HIDE DEF at
    <2> QED BY <1>1, <2>1, CheckIs DEF ok
  <1>3. Vol!ProbeIsDocumented' <=>
          ((/\ vpc' = "idle" /\ vcall.op \in {"probe", "mount"} /\ vres' \in {"NONE", "NOFAT"}
            /\ b.total >= Vol!Meta(b)) =>
             (vres' = "NONE" <=> (at /\ ok) /\ (vcall.op = "mount" => Vol!Accepts(vdrive.info[vcall.part]))))
    BY DEF Vol!ProbeIsDocumented, Vol!Accepts, Vol!Unknown
  <1>4. There(vcall.part) <=> Vol!CheckFat(b) /\ at  BY DEF There
  <1> HIDE DEF b, ok, at
  <1> QED BY <1>2, <1>3, <1>4

(* Steps that leave drive, objects and list alone.                         *)
LEMMA QuietKeeps ==
    ASSUME Mounting, UNCHANGED <<vdrive, fat, Vol!List>>, vpc \notin Writing, vpc' # "info",
           vpc' \in Writing => vcall'.fat \in up,
           VolShapes', Windows', CallKnows', Vol!ProbeIsDocumented'
    PROVE  Mounting'
  <1>1. fat' = fat /\ head' = head /\ up' = up /\ vdrive' = vdrive  BY DEF Vol!List
  <1>2. VolDrive'  BY <1>1 DEF Mounting, VolDrive
  <1>3. \A f : Active(f)' => f \in up /\ Active(f)  BY <1>1 DEF Active
  <1>4. AreasFit'
    <2> SUFFICES ASSUME NEW f \in Fats, Active(f)' PROVE \E lba \in 0 .. 4 : AreasFrom(f, lba)'
      BY DEF AreasFit
    <2>1. PICK lba \in 0 .. 4 : AreasFrom(f, lba)  BY <1>3 DEF Mounting, AreasFit
    <2>2. AreasFrom(f, lba)'  BY <1>1, <2>1 DEF AreasFrom
    <2> QED BY <2>2
  <1>5. PartsApart'
    <2> SUFFICES ASSUME NEW f \in Fats, NEW g \in Fats, Active(f)', Active(g)', f # g
                 PROVE  fat'[f].part # fat'[g].part
      BY DEF PartsApart
    <2> QED BY <1>1, <1>3 DEF Mounting, PartsApart
  <1>6. Linked'  BY <1>1 DEF Mounting, Linked
  <1> QED BY <1>2, <1>4, <1>5, <1>6 DEF Mounting

(* A call changes, and where it is. *)
LEMMA CallFitsType ==
    ASSUME Mounting, UNCHANGED <<fat, Vol!List>>, vfaults' \in 0 .. MaxFaults,
           vpc' \in Stages, vcall' \in CallObjects, vres' \in VolResults
    PROVE  VolShapes'
  BY DEF Mounting, VolShapes, Vol!List

LEMMA WindowsKept == ASSUME Windows, UNCHANGED win PROVE Windows'
  BY DEF Windows

LEMMA BeginsWell ==
    ASSUME VolumeAssumption, Mounting, vpc = "idle", UNCHANGED <<vdrive, fat, Vol!List, vfaults>>, Windows',
           NEW c \in CallObjects, vcall' = c, vpc' \in {"idle", "zero", "scan", "sync"}, vres' \in {vres, "NONE", "PATH"},
           vpc' = "idle" => c.op \notin {"probe", "mount"},
           vpc' = "zero" => c.op \in {"probe", "mount"},
           c.op = "mount" => c.fat \in Fats \ up /\ c.part \notin {fat[g].part : g \in up},
           vpc' \in {"scan", "sync"} => c.op = vpc' /\ c.fat \in up
    PROVE  Mounting'
  <1>1. vres \in VolResults /\ vfaults \in 0 .. MaxFaults /\ up \subseteq Fats
    BY DEF Mounting, VolShapes
  <1>2. VolShapes'  BY <1>1, CallFitsType DEF VolResults, Stages, Writing
  <1>3. CallKnows'  BY <1>1 DEF CallKnows, Vol!List, Writing
  <1>4. Vol!ProbeIsDocumented'
    <2>1. ~(vpc' = "idle" /\ vcall'.op \in {"probe", "mount"})  OBVIOUS
    <2> QED BY <2>1 DEF Vol!ProbeIsDocumented
  <1>5. vpc \notin Writing /\ vpc' # "info" /\ (vpc' \in Writing => vcall'.fat \in up)  BY DEF Writing
  <1> QED BY <1>2, <1>3, <1>4, <1>5, QuietKeeps

(* What becomes of a call's record when a call begins, and goes on.        *)
Begun(r, o, p, f)   == [r EXCEPT !.op = o, !.part = p, !.fat = f]
Sought(r, o, f)     == [r EXCEPT !.op = o, !.fat = f]
SoughtAt(r, o, f, k) == [r EXCEPT !.op = o, !.fat = f, !.clust = k]
At(r, k)            == [r EXCEPT !.clust = k]

LEMMA CallIsOne ==
    ASSUME NEW r \in CallObjects, NEW f \in Fats \cup {Vol!Nobody},
           NEW o \in {"probe", "mount", "find", "scan", "sync", "umount"}
    PROVE  /\ \A p \in Parts : /\ Begun(r, o, p, f) \in CallObjects /\ Begun(r, o, p, f).op = o
                               /\ Begun(r, o, p, f).part = p /\ Begun(r, o, p, f).fat = f
           /\ Sought(r, o, f) \in CallObjects /\ Sought(r, o, f).op = o /\ Sought(r, o, f).fat = f
           /\ \A k \in Vol!Numbers : /\ SoughtAt(r, o, f, k) \in CallObjects /\ SoughtAt(r, o, f, k).op = o
                                     /\ SoughtAt(r, o, f, k).fat = f
  <1>1. ASSUME NEW p \in Parts
        PROVE  /\ Begun(r, o, p, f) \in CallObjects /\ Begun(r, o, p, f).op = o
               /\ Begun(r, o, p, f).part = p /\ Begun(r, o, p, f).fat = f
    BY DEF Begun, CallObjects
  <1>2. Sought(r, o, f) \in CallObjects /\ Sought(r, o, f).op = o /\ Sought(r, o, f).fat = f
    BY DEF Sought, CallObjects
  <1>3. ASSUME NEW k \in Vol!Numbers
        PROVE  /\ SoughtAt(r, o, f, k) \in CallObjects /\ SoughtAt(r, o, f, k).op = o
               /\ SoughtAt(r, o, f, k).fat = f
    BY DEF SoughtAt, CallObjects
  <1> QED BY <1>1, <1>2, <1>3

LEMMA CallGoesOn ==
    ASSUME NEW r \in CallObjects, NEW k \in Vol!Numbers
    PROVE  At(r, k) \in CallObjects /\ At(r, k).op = r.op /\ At(r, k).fat = r.fat /\ At(r, k).clust = k
  BY DEF At, CallObjects

LEMMA VolumesBegin ==
    ASSUME VolumeAssumption, Mounting,
           Vol!BeginProbe \/ Vol!BeginMount \/ Vol!BeginSync \/ Vol!Find \/ Vol!BeginScan
    PROVE  Mounting'
  <1>1. up \subseteq Fats /\ (\A f \in Fats : fat[f].last_used \in Vol!Numbers) /\ Windows
    BY DEF Mounting, VolShapes, ObjectSet
  <1>2. CASE Vol!BeginProbe
    <2>1. PICK p \in Parts : /\ vpc = "idle" /\ UNCHANGED <<vdrive, fat, Vol!List, vfaults, win>>
                             /\ vcall' = Begun(Vol!NoCall, "probe", p, Vol!Nobody) /\ vpc' = "zero" /\ vres' = vres
      BY <1>2, Zenon DEF Vol!BeginProbe, Vol!Begin, Vol!Goes, Begun
    <2>2. Begun(Vol!NoCall, "probe", p, Vol!Nobody) \in CallObjects /\ Begun(Vol!NoCall, "probe", p, Vol!Nobody).op = "probe"  BY NoCallFits, CallIsOne
    <2> QED BY <1>1, <2>1, <2>2, WindowsKept, BeginsWell
  <1>3. CASE Vol!BeginMount
    <2>1. PICK f \in Fats \ up, p \in Parts \ {fat[g].part : g \in up} :
            /\ vpc = "idle" /\ UNCHANGED <<vdrive, fat, Vol!List, vfaults, win>>
            /\ vcall' = Begun(Vol!NoCall, "mount", p, f) /\ vpc' = "zero" /\ vres' = vres
      BY <1>3, Zenon DEF Vol!BeginMount, Vol!Begin, Vol!Goes, Begun
    <2>2. /\ Begun(Vol!NoCall, "mount", p, f) \in CallObjects /\ Begun(Vol!NoCall, "mount", p, f).op = "mount"
          /\ Begun(Vol!NoCall, "mount", p, f).part = p /\ Begun(Vol!NoCall, "mount", p, f).fat = f
      BY NoCallFits, CallIsOne
    <2> QED BY <1>1, <2>1, <2>2, WindowsKept, BeginsWell
  <1>4. CASE Vol!BeginSync
    <2>1. PICK f \in up : /\ vpc = "idle" /\ UNCHANGED <<vdrive, fat, Vol!List, vfaults, win>>
                          /\ vcall' = Begun(Vol!NoCall, "sync", 0, f) /\ vpc' = "sync" /\ vres' = vres
      BY <1>4, Zenon DEF Vol!BeginSync, Vol!Begin, Vol!Goes, Begun
    <2>2. f \in Fats /\ 0 \in Parts  BY <1>1, VolumeConstants
    <2>3. Begun(Vol!NoCall, "sync", 0, f) \in CallObjects /\ Begun(Vol!NoCall, "sync", 0, f).op = "sync" /\ Begun(Vol!NoCall, "sync", 0, f).fat = f
      BY <2>2, NoCallFits, CallIsOne
    <2> QED BY <1>1, <2>1, <2>3, WindowsKept, BeginsWell
  <1>5. CASE Vol!Find
    <2>1. PICK f \in Fats : /\ vpc = "idle" /\ vpc' = vpc /\ UNCHANGED <<vdrive, fat, Vol!List, vfaults, win>>
                            /\ vcall' = Sought(Vol!NoCall, "find", f) /\ vres' \in {"NONE", "PATH"}
      BY <1>5, Zenon DEF Vol!Find, Sought
    <2>2. Sought(Vol!NoCall, "find", f) \in CallObjects /\ Sought(Vol!NoCall, "find", f).op = "find"
      BY NoCallFits, CallIsOne
    <2> QED BY <1>1, <2>1, <2>2, WindowsKept, BeginsWell
  <1>6. CASE Vol!BeginScan
    <2>1. PICK f \in up : /\ vpc = "idle" /\ vpc' = "scan" /\ vres' = vres /\ UNCHANGED <<vdrive, fat, Vol!List, vfaults>>
                          /\ vcall' = SoughtAt(Vol!NoCall, "scan", f, fat[f].last_used)
                          /\ win' = [win EXCEPT ![f] = [win[f] EXCEPT !.told = TRUE]]
      BY <1>6, Zenon DEF Vol!BeginScan, Vol!Goes, SoughtAt
    <2> DEFINE k == fat[f].last_used
               r == Vol!NoCall
               c == SoughtAt(r, "scan", f, k)
    <2>2. f \in Fats /\ k \in Vol!Numbers /\ r \in CallObjects  BY <1>1, NoCallFits
    <2>4. vcall' = c  BY <2>1
    <2> HIDE DEF k, r
    <2>3. c \in CallObjects /\ c.op = "scan" /\ c.fat = f  BY <2>2, CallIsOne
    <2> HIDE DEF c
    <2>5. Windows'
      <3>1. \A w \in WindowSet : LET x == [w EXCEPT !.told = TRUE]
                                 IN x \in WindowSet /\ x.dirty = w.dirty /\ x.buf = w.buf
        BY DEF WindowSet
      <3> QED BY <1>1, <2>1, <2>2, <3>1 DEF Windows
    <2> QED BY <2>1, <2>3, <2>4, <2>5, BeginsWell
  <1> QED BY <1>2, <1>3, <1>4, <1>5, <1>6

LEMMA VolumeStops == ASSUME VolumeAssumption, Mounting, Vol!Fails \/ Vol!Panic PROVE Mounting'
  <1>1. /\ UNCHANGED <<vdrive, vcall, fat, Vol!List, win>> /\ vpc \in {"zero", "part", "info"}
        /\ \/ vpc' = "idle" /\ vres' = "IO" /\ vfaults < MaxFaults /\ vfaults' = vfaults + 1
           \/ vpc' = "panic" /\ vres' = vres /\ vfaults' = vfaults
    BY Zenon DEF Vol!Fails, Vol!Fault, Vol!Returns, Vol!Panic, Vol!Goes
  <1>2. vcall \in CallObjects /\ vfaults \in 0 .. MaxFaults /\ Windows /\ vres \in VolResults
    BY DEF Mounting, VolShapes
  <1>3. vfaults' \in 0 .. MaxFaults /\ vres' \in VolResults  BY <1>1, <1>2, VolumeConstants DEF VolResults
  <1>4. vpc \notin Writing /\ vpc' \notin Writing /\ vpc' # "info" /\ vpc' \in Stages /\ vpc' \in {"idle", "panic"}
    BY <1>1 DEF Writing, Stages
  <1>5. VolShapes'  BY <1>1, <1>2, <1>3, <1>4, CallFitsType
  <1>6. CallKnows'  BY <1>4 DEF CallKnows
  <1>7. Vol!ProbeIsDocumented'  BY <1>1 DEF Vol!ProbeIsDocumented
  <1> QED BY <1>1, <1>2, <1>4, <1>5, <1>6, <1>7, WindowsKept, QuietKeeps

(* What fat_mount takes from a boot sector is in 32 bits. *)
LEMMA GeometryFits ==
    ASSUME VolumeAssumption, Mounting, NEW f \in Fats, NEW lba \in 0 .. 4, vcall.part \in Parts
    PROVE  LET o == Vol!Geometry(f, lba)
               b == vdrive.bpb
               first == IF b.act % 2 = 0 THEN lba + b.res ELSE lba + b.res + b.spf
               other == IF b.act % 2 = 0 THEN lba + b.res + b.spf ELSE lba + b.res
           IN  /\ o \in ObjectSet /\ o.next = fat[f].next /\ o.part = vcall.part
               /\ o.fat_sect = <<first, IF b.mirror THEN other ELSE 0>>
               /\ o.info_sect = lba + 1 /\ o.data_sect = lba + Vol!Meta(b)
  <1> DEFINE b == vdrive.bpb
             first == IF b.act % 2 = 0 THEN lba + b.res ELSE lba + b.res + b.spf
             other == IF b.act % 2 = 0 THEN lba + b.res + b.spf ELSE lba + b.res
             sects == <<first, IF b.mirror THEN other ELSE 0>>
             data == lba + Vol!Meta(b)
             cnt == b.spf * Epc
             one == lba + 1
             r == fat[f]
             p == vcall.part
             o == [r EXCEPT !.part = p, !.fat_sect = sects, !.info_sect = one, !.data_sect = data,
                            !.clust_cnt = cnt]
  <1>1. Vol!Geometry(f, lba) = o  BY DEF Vol!Geometry, Vol!Mirror
  <1>2. /\ b.res \in Nat /\ b.spf \in Nat /\ Fitting(b) /\ VolDrive
    BY DriveShape, VolumeConstants DEF Mounting, VolDrive, Vol!Bpb
  <1>3. Wrap \in Nat /\ Epc \in Nat /\ Vol!Numbers = 0 .. (Wrap - 1)  BY VolumeConstants
  <1>4. cnt \in Nat  BY <1>2, <1>3
  <1>5. first \in 0 .. (Wrap - 1) /\ other \in 0 .. (Wrap - 1) /\ data \in 0 .. (Wrap - 1) /\ one \in 0 .. (Wrap - 1)
        /\ 0 \in 0 .. (Wrap - 1)
    <2>1. 5 + b.res + 2 * b.spf < Wrap /\ Vol!Meta(b) = b.res + 2 * b.spf
      BY <1>2 DEF Fitting, Vol!Meta
    <2>2. first \in {lba + b.res, lba + b.res + b.spf} /\ other \in {lba + b.res, lba + b.res + b.spf}
      OBVIOUS
    <2>3. ASSUME NEW x \in Nat, NEW y \in Nat, NEW k \in 0 .. 4, NEW w \in Nat, 5 + x + 2 * y < w
          PROVE  /\ k + x \in 0 .. (w - 1) /\ k + x + y \in 0 .. (w - 1)
                 /\ k + (x + 2 * y) \in 0 .. (w - 1) /\ k + 1 \in 0 .. (w - 1) /\ 0 \in 0 .. (w - 1)
      <3>1. k \in Int /\ 0 <= k /\ k <= 4  OBVIOUS
      <3>2. k + x \in 0 .. (w - 1)  BY <2>3, <3>1
      <3>3. k + x + y \in 0 .. (w - 1)  BY <2>3, <3>1
      <3>4. k + (x + 2 * y) \in 0 .. (w - 1)  BY <2>3, <3>1
      <3>5. k + 1 \in 0 .. (w - 1) /\ 0 \in 0 .. (w - 1)  BY <2>3, <3>1
      <3> QED BY <3>2, <3>3, <3>4, <3>5
    <2>4. /\ lba + b.res \in 0 .. (Wrap - 1) /\ lba + b.res + b.spf \in 0 .. (Wrap - 1)
          /\ lba + (b.res + 2 * b.spf) \in 0 .. (Wrap - 1) /\ lba + 1 \in 0 .. (Wrap - 1) /\ 0 \in 0 .. (Wrap - 1)
      <3> DEFINE x == b.res
                 y == b.spf
      <3>1. x \in Nat /\ y \in Nat /\ 5 + x + 2 * y < Wrap  BY <1>2, <2>1
      <3> HIDE DEF x, y
      <3>2. /\ lba + x \in 0 .. (Wrap - 1) /\ lba + x + y \in 0 .. (Wrap - 1)
            /\ lba + (x + 2 * y) \in 0 .. (Wrap - 1) /\ lba + 1 \in 0 .. (Wrap - 1) /\ 0 \in 0 .. (Wrap - 1)
        BY <1>3, <2>3, <3>1, Zenon
      <3> QED BY <3>2 DEF x, y
    <2> HIDE DEF first, other
    <2> QED BY <2>1, <2>2, <2>4
  <1>6. cnt \in 0 .. (Wrap - 1)  BY <1>2, <1>3, <1>4 DEF Fitting
  <1>7. sects \in Vol!Numbers \X Vol!Numbers  BY <1>3, <1>5
  <1>8. r \in ObjectSet  BY DEF Mounting, VolShapes
  <1> HIDE DEF b, first, other, cnt, data, one, r, p
  <1>9. data \in Vol!Numbers /\ one \in Vol!Numbers /\ cnt \in Vol!Numbers /\ p \in Parts
    BY <1>3, <1>5, <1>6 DEF p
  <1> HIDE DEF sects
  <1>10. o \in ObjectSet  BY <1>7, <1>8, <1>9 DEF ObjectSet
  <1>11. o.next = r.next /\ o.part = p /\ o.fat_sect = sects /\ o.info_sect = one /\ o.data_sect = data
    BY <1>8 DEF ObjectSet
  <1> HIDE DEF o
  <1> QED BY <1>1, <1>10, <1>11 DEF sects, one, data, p, r, b, first, other

(* probe has found a volume. *)
LEMMA ProbedKeeps ==
    ASSUME VolumeAssumption, Mounting, vpc \in {"zero", "part"}, NEW lba \in 0 .. 4, There(vcall.part),
           Vol!Probed(lba), UNCHANGED <<vdrive, vcall, win, Vol!List, vfaults>>
    PROVE  Mounting'
  <1>1. /\ vcall \in CallObjects /\ fat \in [Fats -> ObjectSet] /\ vfaults \in 0 .. MaxFaults
        /\ vres \in VolResults /\ up \subseteq Fats /\ head \in Fats \cup {Vol!Nobody}
        /\ VolDrive /\ Windows /\ CallKnows /\ AreasFit /\ PartsApart /\ Linked
    BY DEF Mounting, VolShapes
  <1>2. vpc \notin Writing /\ Windows'  BY <1>1, WindowsKept DEF Writing
  <1>3. Vol!Computes(vdrive.bpb)  BY DEF There, Vol!CheckFat, Vol!Computes
  <1>4. CASE vcall.op = "probe"
    <2>1. vpc' = "idle" /\ vres' = "NONE" /\ fat' = fat  BY <1>4 DEF Vol!Probed, Vol!Returns
    <2>2. VolShapes'  BY <1>1, <2>1, CallFitsType DEF Stages, VolResults
    <2>3. CallKnows' /\ vpc' \notin Writing  BY <2>1 DEF CallKnows, Writing
    <2>4. Vol!ProbeIsDocumented'  BY <1>1, <1>3, <1>4, <2>1, AnswerIs
    <2> QED BY <1>2, <2>1, <2>2, <2>3, <2>4, QuietKeeps
  <1>5. CASE vcall.op # "probe"
    <2>1. vcall.op = "mount"  BY <1>1, <1>5 DEF CallKnows
    <2>2. vcall.fat \in Fats \ up /\ vcall.part \notin {fat[g].part : g \in up} /\ vcall.part \in Parts
      BY <1>1, <2>1 DEF CallKnows, CallObjects
    <2> DEFINE f == vcall.fat
               o == Vol!Geometry(f, lba)
    <2>3. vpc' = "info" /\ vres' = vres /\ fat' = [fat EXCEPT ![f] = o]
      BY <1>5 DEF Vol!Probed, Vol!Goes
    <2>4. f \in Fats /\ f \notin up  BY <2>2
    <2>5. /\ o \in ObjectSet /\ o.next = fat[f].next /\ o.part = vcall.part
          /\ LET b == vdrive.bpb
                 first == IF b.act % 2 = 0 THEN lba + b.res ELSE lba + b.res + b.spf
                 other == IF b.act % 2 = 0 THEN lba + b.res + b.spf ELSE lba + b.res
             IN  /\ o.fat_sect = <<first, IF b.mirror THEN other ELSE 0>>
                 /\ o.info_sect = lba + 1 /\ o.data_sect = lba + Vol!Meta(b)
      BY <2>2, <2>4, GeometryFits
    <2> HIDE DEF o, f
    <2>6. fat' \in [Fats -> ObjectSet] /\ fat'[f] = o /\ \A g \in Fats : g # f => fat'[g] = fat[g]
      BY <1>1, <2>3, <2>4, <2>5
    <2>7. up' = up /\ head' = head  BY DEF Vol!List
    <2>8. VolShapes'  BY <1>1, <2>3, <2>6, <2>7 DEF VolShapes, Stages
    <2>9. VolDrive'  BY <1>1 DEF VolDrive
    <2>10. \A g \in up : g # f /\ g \in Fats /\ fat'[g] = fat[g]  BY <1>1, <2>4, <2>6, <2>7
    <2>11. CallKnows'
      <3>1. vcall' = vcall /\ vdrive' = vdrive  OBVIOUS
      <3>2. There(vcall.part)'  BY <3>1 DEF There
      <3>3. {fat'[g].part : g \in up} = {fat[g].part : g \in up}  BY <2>10
      <3> QED BY <2>1, <2>2, <2>3, <2>5, <2>6, <2>7, <3>1, <3>2, <3>3 DEF CallKnows, f, Writing
    <2>12. \A g : (Active(g)' <=> g \in up) /\ (g \in up => Active(g))  BY <2>3, <2>7 DEF Active, Writing
    <2>13. AreasFit'
      <3>1. ASSUME NEW g, g = f PROVE AreasFrom(g, lba)'
        BY <2>5, <2>6, <3>1 DEF AreasFrom
      <3>2. ASSUME NEW g \in up, NEW k \in 0 .. 4, AreasFrom(g, k) PROVE AreasFrom(g, k)'
        BY <2>10, <3>2 DEF AreasFrom
      <3>3. \A g \in up : \E k \in 0 .. 4 : AreasFrom(g, k)'
        <4> SUFFICES ASSUME NEW g \in up PROVE \E k \in 0 .. 4 : AreasFrom(g, k)'  OBVIOUS
        <4>1. PICK k \in 0 .. 4 : AreasFrom(g, k)  BY <1>1, <2>10, <2>12 DEF AreasFit
        <4> QED BY <3>2, <4>1
      <3> SUFFICES ASSUME NEW g \in Fats, Active(g)' \/ (vpc' = "info" /\ g = vcall'.fat)
                   PROVE  \E k \in 0 .. 4 : AreasFrom(g, k)'
        BY DEF AreasFit
      <3>4. g = f \/ g \in up  BY <2>12 DEF f
      <3>5. CASE g = f  BY <3>1, <3>5
      <3>6. CASE g \in up  BY <3>3, <3>6
      <3> QED BY <3>4, <3>5, <3>6
    <2>14. PartsApart'
      <3> SUFFICES ASSUME NEW g \in up, NEW h \in up, g # h PROVE fat'[g].part # fat'[h].part
        BY <2>12 DEF PartsApart
      <3> QED BY <1>1, <2>10, <2>12 DEF PartsApart
    <2>15. Linked'
      <3>1. PICK n, s : Chain(fat, head, up, n, s)  BY <1>1 DEF Linked
      <3>2. Chain(fat', head, up, n, s)  BY <2>10, <3>1, ChainKept
      <3> QED BY <2>7, <3>2 DEF Linked
    <2>16. Vol!ProbeIsDocumented'  BY <2>3 DEF Vol!ProbeIsDocumented
    <2> QED BY <1>2, <2>8, <2>9, <2>11, <2>13, <2>14, <2>15, <2>16 DEF Mounting
  <1> QED BY <1>4, <1>5

(* probe has found none. *)
LEMMA NoVolumeKeeps ==
    ASSUME VolumeAssumption, Mounting, vpc \in {"zero", "part"}, ~There(vcall.part),
           (\/ vcall.part = 0 /\ vdrive.zero = "bpb"
            \/ vdrive.zero = "mbr" /\ vdrive.type[vcall.part] /\ vdrive.holds[vcall.part])
             => Vol!Computes(vdrive.bpb),
           Vol!Returns("NOFAT"), UNCHANGED <<vdrive, vcall, fat, win, Vol!List, vfaults>>
    PROVE  Mounting'
  <1>1. vpc' = "idle" /\ vres' = "NOFAT"  BY DEF Vol!Returns
  <1>2. vcall \in CallObjects /\ vfaults \in 0 .. MaxFaults /\ VolDrive /\ Windows
    BY DEF Mounting, VolShapes
  <1>3. VolShapes'  BY <1>1, <1>2, CallFitsType DEF Stages, VolResults
  <1>4. CallKnows' /\ vpc \notin Writing /\ vpc' \notin Writing  BY <1>1 DEF CallKnows, Writing
  <1>5. Vol!ProbeIsDocumented'  BY <1>1, <1>2, AnswerIs
  <1> QED BY <1>1, <1>2, <1>3, <1>4, <1>5, WindowsKept, QuietKeeps

LEMMA ProbeZeroKeeps == ASSUME VolumeAssumption, Mounting, Vol!ProbeZero PROVE Mounting'
  <1>1. /\ vpc = "zero" /\ UNCHANGED <<vdrive, vcall, win, Vol!List, vfaults>>
        /\ vdrive.zero = "bpb" => Vol!Computes(vdrive.bpb)
        /\ IF vdrive.zero = "bpb" /\ Vol!CheckFat(vdrive.bpb)
           THEN IF vcall.part = 0 THEN Vol!Probed(0) ELSE Vol!Returns("NOFAT") /\ UNCHANGED fat
           ELSE /\ IF Vol!GetPartLba THEN Vol!Goes("part") ELSE Vol!Returns("NOFAT")
                /\ UNCHANGED fat
    BY Zenon DEF Vol!ProbeZero
  <1>2. CASE vdrive.zero = "bpb" /\ Vol!CheckFat(vdrive.bpb) /\ vcall.part = 0
    <2>1. There(vcall.part)  BY <1>2 DEF There
    <2> QED BY <1>1, <1>2, <2>1, ProbedKeeps
  <1>3. CASE vdrive.zero = "bpb" /\ Vol!CheckFat(vdrive.bpb) /\ vcall.part # 0
    <2>1. ~There(vcall.part)  BY <1>3 DEF There
    <2> QED BY <1>1, <1>3, <2>1, NoVolumeKeeps
  <1>4. CASE ~(vdrive.zero = "bpb" /\ Vol!CheckFat(vdrive.bpb)) /\ ~Vol!GetPartLba
    <2>1. ~There(vcall.part)  BY <1>4 DEF There, Vol!GetPartLba
    <2>2. ~(vdrive.zero = "mbr" /\ vdrive.type[vcall.part])  BY <1>4 DEF Vol!GetPartLba
    <2> QED BY <1>1, <1>4, <2>1, <2>2, NoVolumeKeeps
  <1>5. CASE ~(vdrive.zero = "bpb" /\ Vol!CheckFat(vdrive.bpb)) /\ Vol!GetPartLba
    <2>1. vpc' = "part" /\ vres' = vres /\ fat' = fat  BY <1>1, <1>5 DEF Vol!Goes
    <2>2. /\ vcall \in CallObjects /\ vfaults \in 0 .. MaxFaults /\ CallKnows /\ Windows /\ vres \in VolResults
      BY DEF Mounting, VolShapes
    <2>3. VolShapes'  BY <1>1, <2>1, <2>2, CallFitsType DEF Stages
    <2>4. up' = up  BY <1>1 DEF Vol!List
    <2>5. Vol!GetPartLba' /\ ~(vdrive'.zero = "bpb" /\ Vol!CheckFat(vdrive'.bpb))
      BY <1>1, <1>5 DEF Vol!GetPartLba
    <2>6. CallKnows'  BY <1>1, <2>1, <2>2, <2>4, <2>5 DEF CallKnows, Writing
    <2>7. Vol!ProbeIsDocumented'  BY <2>1 DEF Vol!ProbeIsDocumented
    <2>8. vpc \notin Writing /\ vpc' \notin Writing  BY <1>1, <2>1 DEF Writing
    <2> QED BY <1>1, <2>1, <2>2, <2>3, <2>6, <2>7, <2>8, WindowsKept, QuietKeeps
  <1> QED BY <1>2, <1>3, <1>4, <1>5

LEMMA ProbePartKeeps == ASSUME VolumeAssumption, Mounting, Vol!ProbePart PROVE Mounting'
  <1>1. /\ vpc = "part" /\ UNCHANGED <<vdrive, vcall, win, Vol!List, vfaults>>
        /\ vdrive.holds[vcall.part] => Vol!Computes(vdrive.bpb)
        /\ IF vdrive.holds[vcall.part] /\ Vol!CheckFat(vdrive.bpb)
           THEN Vol!Probed(Vol!PartLba(vcall.part)) ELSE Vol!Returns("NOFAT") /\ UNCHANGED fat
    BY Zenon DEF Vol!ProbePart
  <1>2. /\ Vol!GetPartLba /\ ~(vdrive.zero = "bpb" /\ Vol!CheckFat(vdrive.bpb))
        /\ vcall.part \in Parts
    BY <1>1 DEF Mounting, CallKnows, VolShapes, CallObjects
  <1>3. CASE vdrive.holds[vcall.part] /\ Vol!CheckFat(vdrive.bpb)
    <2>1. There(vcall.part)  BY <1>2, <1>3 DEF There, Vol!GetPartLba
    <2>2. Vol!PartLba(vcall.part) \in 0 .. 4  BY <1>2, VolumeConstants DEF Vol!PartLba
    <2> QED BY <1>1, <1>3, <2>1, <2>2, ProbedKeeps
  <1>4. CASE ~(vdrive.holds[vcall.part] /\ Vol!CheckFat(vdrive.bpb))
    <2>1. ~There(vcall.part) /\ vdrive.zero = "mbr"  BY <1>2, <1>4 DEF There, Vol!GetPartLba
    <2> QED BY <1>1, <1>4, <2>1, NoVolumeKeeps
  <1> QED BY <1>3, <1>4

LEMMA ReadInfoKeeps == ASSUME VolumeAssumption, Mounting, Vol!ReadInfo PROVE Mounting'
  <1> DEFINE f == vcall.fat
             p == vcall.part
             i == vdrive.info[p]
             o == [fat[f] EXCEPT !.next = head, !.last_used = i.next_free, !.free_cnt = i.free_cnt]
  <1>1. /\ vpc = "info" /\ UNCHANGED <<vdrive, vcall, vfaults>>
        /\ IF Vol!Accepts(i)
           THEN /\ fat' = [fat EXCEPT ![f] = o] /\ head' = f /\ up' = up \cup {f} /\ Vol!Returns("NONE")
                /\ win' = [win EXCEPT ![f] = [win[f] EXCEPT !.sect = 0]]
           ELSE Vol!Returns("NOFAT") /\ UNCHANGED <<fat, win, Vol!List>>
    BY Zenon DEF Vol!ReadInfo
  <1>2. /\ vcall \in CallObjects /\ fat \in [Fats -> ObjectSet] /\ vfaults \in 0 .. MaxFaults
        /\ up \subseteq Fats /\ head \in Fats \cup {Vol!Nobody}
        /\ VolDrive /\ Windows /\ CallKnows /\ AreasFit /\ PartsApart /\ Linked
    BY DEF Mounting, VolShapes
  <1>3. /\ vcall.op = "mount" /\ f \in Fats /\ f \notin up /\ p \notin {fat[g].part : g \in up} /\ p \in Parts
        /\ There(p) /\ fat[f].part = p
    BY <1>1, <1>2 DEF CallKnows, CallObjects
  <1>4. Vol!Computes(vdrive.bpb) /\ vpc \notin Writing
    BY <1>1, <1>3 DEF There, Vol!CheckFat, Vol!Computes, Writing
  <1>5. CASE ~Vol!Accepts(i)
    <2>1. vpc' = "idle" /\ vres' = "NOFAT" /\ UNCHANGED <<fat, win, Vol!List>>  BY <1>1, <1>5 DEF Vol!Returns
    <2>2. VolShapes'  BY <1>1, <1>2, <2>1, CallFitsType DEF Stages, VolResults
    <2>3. CallKnows' /\ vpc' \notin Writing  BY <2>1 DEF CallKnows, Writing
    <2>4. Vol!ProbeIsDocumented'  BY <1>1, <1>2, <1>3, <1>4, <1>5, <2>1, AnswerIs
    <2> QED BY <1>1, <1>2, <1>4, <2>1, <2>2, <2>3, <2>4, WindowsKept, QuietKeeps
  <1>6. CASE Vol!Accepts(i)
    <2>1. /\ vpc' = "idle" /\ vres' = "NONE" /\ fat' = [fat EXCEPT ![f] = o] /\ head' = f /\ up' = up \cup {f}
          /\ win' = [win EXCEPT ![f] = [win[f] EXCEPT !.sect = 0]]
      BY <1>1, <1>6 DEF Vol!Returns
    <2>2. i \in Vol!FsInfo  BY <1>2, <1>3, DriveShape
    <2>3. i.next_free \in Vol!Numbers /\ i.free_cnt \in Vol!Numbers  BY <2>2 DEF Vol!FsInfo
    <2> DEFINE r == fat[f]
               a == i.next_free
               b == i.free_cnt
    <2>4. r \in ObjectSet  BY <1>2, <1>3
    <2> HIDE DEF r, a, b
    <2>5. [r EXCEPT !.next = head, !.last_used = a, !.free_cnt = b] \in ObjectSet
      BY <1>2, <2>3, <2>4 DEF ObjectSet, a, b
    <2>6. LET x == [r EXCEPT !.next = head, !.last_used = a, !.free_cnt = b]
          IN  /\ x.next = head /\ x.last_used = a /\ x.free_cnt = b /\ x.part = r.part
              /\ x.fat_sect = r.fat_sect /\ x.info_sect = r.info_sect /\ x.data_sect = r.data_sect
      BY <2>4 DEF ObjectSet
    <2>7. /\ o \in ObjectSet /\ o.next = head /\ o.last_used = i.next_free /\ o.free_cnt = i.free_cnt
          /\ o.part = p /\ o.fat_sect = fat[f].fat_sect /\ o.info_sect = fat[f].info_sect
          /\ o.data_sect = fat[f].data_sect
      BY <1>3, <2>5, <2>6 DEF r, a, b
    <2>8. Windows'
      <3>1. \A w \in WindowSet : LET x == [w EXCEPT !.sect = 0]
                                 IN x \in WindowSet /\ x.dirty = w.dirty /\ x.buf = w.buf
        BY DEF WindowSet
      <3>2. f \in Fats  BY <1>3
      <3> HIDE DEF f
      <3> QED BY <1>2, <2>1, <3>1, <3>2 DEF Windows
    <2> HIDE DEF o
    <2>9. /\ fat' \in [Fats -> ObjectSet] /\ fat'[f] = o /\ \A g \in up : g # f /\ g \in Fats /\ fat'[g] = fat[g]
      BY <1>2, <1>3, <2>1, <2>7
    <2> HIDE DEF i
    <2>10. f' = f /\ p' = p /\ vdrive' = vdrive  BY <1>1
    <2> HIDE DEF f, p
    <2>11. VolShapes'  BY <1>1, <1>2, <1>3, <2>1, <2>9 DEF VolShapes, Stages, VolResults
    <2>12. VolDrive'  BY <1>1, <1>2 DEF VolDrive
    <2>13. CallKnows'  BY <2>1 DEF CallKnows, Writing
    <2>14. \A g : (Active(g)' <=> g = f \/ g \in up) /\ (g \in up => Active(g))
      BY <2>1, <2>10 DEF Active, Writing
    <2>15. AreasFit'
      <3>1. PICK lba \in 0 .. 4 : AreasFrom(f, lba)  BY <1>1, <1>2, <1>3 DEF AreasFit, f
      <3>2. ASSUME NEW g, g = f PROVE AreasFrom(g, lba)'
        BY <2>7, <2>9, <2>10, <3>1, <3>2 DEF AreasFrom
      <3>3. ASSUME NEW g \in up, NEW k \in 0 .. 4, AreasFrom(g, k) PROVE AreasFrom(g, k)'
        BY <2>9, <2>10, <3>3 DEF AreasFrom
      <3>4. \A g \in up : \E k \in 0 .. 4 : AreasFrom(g, k)'
        <4> SUFFICES ASSUME NEW g \in up PROVE \E k \in 0 .. 4 : AreasFrom(g, k)'  OBVIOUS
        <4>1. PICK k \in 0 .. 4 : AreasFrom(g, k)  BY <1>2, <2>9, <2>14 DEF AreasFit
        <4> QED BY <3>3, <4>1
      <3> SUFFICES ASSUME NEW g \in Fats, Active(g)' \/ (vpc' = "info" /\ g = vcall'.fat)
                   PROVE  \E k \in 0 .. 4 : AreasFrom(g, k)'
        BY DEF AreasFit
      <3>5. g = f \/ g \in up  BY <2>1, <2>14
      <3>6. CASE g = f  BY <3>2, <3>6
      <3>7. CASE g \in up  BY <3>4, <3>7
      <3> QED BY <3>5, <3>6, <3>7
    <2>16. PartsApart'
      <3>1. \A g \in up : fat'[g].part # p /\ fat'[f].part = p  BY <1>3, <2>7, <2>9
      <3>2. \A g, h \in up : g # h => fat'[g].part # fat'[h].part  BY <1>2, <2>9, <2>14 DEF PartsApart
      <3> QED BY <2>14, <3>1, <3>2 DEF PartsApart
    <2>17. Linked'
      <3>1. PICK n, s : Chain(fat, head, up, n, s)  BY <1>2 DEF Linked
      <3>2. f \in Fats \ up /\ fat'[f].next = head /\ \A x \in up : fat'[x].next = fat[x].next
        BY <1>3, <2>7, <2>9
      <3>3. \E m, t : Chain(fat', f, up \cup {f}, m, t)  BY <3>1, <3>2, ChainPut
      <3> QED BY <2>1, <3>3 DEF Linked
    <2>18. Vol!ProbeIsDocumented'  BY <1>1, <1>2, <1>3, <1>4, <1>6, <2>1, AnswerIs DEF i, p
    <2> QED BY <2>8, <2>11, <2>12, <2>13, <2>15, <2>16, <2>17, <2>18 DEF Mounting
  <1> QED BY <1>5, <1>6

LEMMA UnlinkedIs ==
    ASSUME VolumeAssumption, Mounting, NEW f \in up,
           fat' = Vol!Unlinked(f).fat, head' = Vol!Unlinked(f).head, up' = up \ {f}
    PROVE  /\ fat' \in [Fats -> ObjectSet] /\ head' \in Fats \cup {Vol!Nobody} /\ Linked'
           /\ \A g \in Fats : /\ fat'[g].part = fat[g].part /\ fat'[g].fat_sect = fat[g].fat_sect
                              /\ fat'[g].info_sect = fat[g].info_sect /\ fat'[g].data_sect = fat[g].data_sect
                              /\ fat'[g].last_used = fat[g].last_used /\ fat'[g].free_cnt = fat[g].free_cnt
  <1>1. /\ fat \in [Fats -> ObjectSet] /\ head \in Fats \cup {Vol!Nobody} /\ up \subseteq Fats /\ Linked
    BY DEF Mounting, VolShapes
  <1>2. Vol!Listed = up /\ Vol!Nobody \notin Fats  BY <1>1, ListedIsUp, VolumeConstants
  <1> DEFINE nx == fat[f].next
             new == [g \in Fats |-> IF g \in up /\ fat[g].next = f THEN [fat[g] EXCEPT !.next = nx] ELSE fat[g]]
  <1>3. nx \in Fats \cup {Vol!Nobody}  BY <1>1 DEF ObjectSet
  <1>4. \A r \in ObjectSet, m \in Fats \cup {Vol!Nobody} :
          LET x == [r EXCEPT !.next = m]
          IN  /\ x \in ObjectSet /\ x.next = m /\ x.part = r.part /\ x.fat_sect = r.fat_sect
              /\ x.info_sect = r.info_sect /\ x.data_sect = r.data_sect
              /\ x.last_used = r.last_used /\ x.free_cnt = r.free_cnt
    BY DEF ObjectSet
  <1>5. PICK n, s : Chain(fat, head, up, n, s)  BY <1>1 DEF Linked
  <1>6. CASE head = f
    <2>1. fat' = fat /\ head' = nx
      <3>1. Vol!Unlinked(f) = [fat |-> fat, head |-> nx]  BY <1>6 DEF Vol!Unlinked
      <3> QED BY <3>1
    <2>2. \A x \in up : fat[x].next # f
      <3> SUFFICES ASSUME NEW x \in up, fat[x].next = f PROVE FALSE  OBVIOUS
      <3>1. /\ n \in Nat /\ s \in [1 .. n -> Fats] /\ \A i, j \in 1 .. n : s[i] = s[j] => i = j
            /\ head = IF n = 0 THEN Vol!Nobody ELSE s[1]
            /\ \A i \in 1 .. n : fat[s[i]].next = IF i = n THEN Vol!Nobody ELSE s[i + 1]
            /\ up = {s[i] : i \in 1 .. n}
        BY <1>5 DEF Chain
      <3>2. PICK i \in 1 .. n : x = s[i]  BY <3>1
      <3>3. i # n /\ s[i + 1] = f  BY <1>1, <1>2, <3>1, <3>2
      <3>4. i + 1 \in 1 .. n /\ 1 \in 1 .. n /\ s[1] = f  BY <1>1, <1>2, <1>6, <3>1, <3>3
      <3>5. i + 1 = 1  BY <3>1, <3>3, <3>4
      <3> QED BY <3>1, <3>2, <3>5
    <2>3. \A x \in up \ {f} : fat'[x].next = IF fat[x].next = f THEN fat[f].next ELSE fat[x].next
      BY <2>1, <2>2
    <2>4. \E m, t : Chain(fat', IF head = f THEN fat[f].next ELSE head, up \ {f}, m, t)
      BY <1>2, <1>5, <2>3, ChainCut
    <2>5. Linked'  BY <1>6, <2>1, <2>4 DEF Linked
    <2> QED BY <1>1, <1>3, <2>1, <2>5
  <1>7. CASE head # f
    <2>1. fat' = new /\ head' = head
      <3>1. Vol!Unlinked(f) = [fat |-> new, head |-> head]  BY <1>2, <1>7 DEF Vol!Unlinked
      <3> HIDE DEF new
      <3> QED BY <3>1
    <2>2. ASSUME NEW g \in Fats
          PROVE  /\ fat'[g] \in ObjectSet
                 /\ fat'[g].part = fat[g].part /\ fat'[g].fat_sect = fat[g].fat_sect
                 /\ fat'[g].info_sect = fat[g].info_sect /\ fat'[g].data_sect = fat[g].data_sect
                 /\ fat'[g].last_used = fat[g].last_used /\ fat'[g].free_cnt = fat[g].free_cnt
                 /\ g \in up => fat'[g].next = IF fat[g].next = f THEN nx ELSE fat[g].next
      <3> DEFINE r == fat[g]
                 x == [r EXCEPT !.next = nx]
      <3>1. r \in ObjectSet  BY <1>1
      <3>2. /\ x \in ObjectSet /\ x.next = nx /\ x.part = r.part /\ x.fat_sect = r.fat_sect
            /\ x.info_sect = r.info_sect /\ x.data_sect = r.data_sect
            /\ x.last_used = r.last_used /\ x.free_cnt = r.free_cnt
        <4> HIDE DEF r, nx
        <4> QED BY <1>3, <1>4, <3>1
      <3>3. fat'[g] = IF g \in up /\ r.next = f THEN x ELSE r  BY <2>1
      <3> HIDE DEF x, nx, new
      <3> QED BY <3>1, <3>2, <3>3
    <2>3. fat' \in [Fats -> ObjectSet]
      <3>1. fat' = [g \in Fats |-> fat'[g]]  BY <2>1
      <3> QED BY <2>2, <3>1
    <2>4. \E m, t : Chain(fat', IF head = f THEN fat[f].next ELSE head, up \ {f}, m, t)
      <3>1. \A x \in up \ {f} : fat'[x].next = IF fat[x].next = f THEN fat[f].next ELSE fat[x].next
        BY <1>1, <2>2
      <3> QED BY <1>2, <1>5, <3>1, ChainCut
    <2>5. Linked'  BY <1>7, <2>1, <2>4 DEF Linked
    <2> QED BY <1>1, <2>1, <2>2, <2>3, <2>5
  <1> QED BY <1>6, <1>7

(* What it is to write an object's buffer to its sector.                   *)
LEMMA WrittenIs ==
    ASSUME VolumeAssumption, VolDrive, NEW f \in Fats, fat[f] \in ObjectSet, win[f] \in WindowSet
    PROVE  LET w == win[f]
               p == fat[f].part
               d == Vol!Written(f)
           IN  /\ d \in Vol!DriveType /\ d.type = vdrive.type /\ d.holds = vdrive.holds /\ d.bpb = vdrive.bpb
               /\ d.zero = IF w.sect = 0 THEN "none" ELSE vdrive.zero
               /\ \A q \in Parts : q # p => d.info[q] = vdrive.info[q] /\ d.free[q] = vdrive.free[q]
               /\ d.free[p] = IF w.sect \in {0, fat[f].info_sect} THEN vdrive.free[p]
                              ELSE vdrive.free[p] \ w.buf.marks
               /\ d.info[p].sigs = vdrive.info[p].sigs
               /\ IF w.sect # 0 /\ w.sect = fat[f].info_sect
                  THEN d.info[p].next_free = w.buf.next_free /\ d.info[p].free_cnt = w.buf.free_cnt
                  ELSE d.info[p] = vdrive.info[p]
  <1> DEFINE w == win[f]
             p == fat[f].part
             d == vdrive
             s == fat[f].info_sect
             a == w.buf.next_free
             b == w.buf.free_cnt
             m == w.buf.marks
             e == d.info[p]
             noted == [e EXCEPT !.next_free = a, !.free_cnt = b]
             less == d.free[p] \ m
  <1>1. /\ p \in Parts /\ a \in Vol!Numbers /\ b \in Vol!Numbers /\ d \in Vol!DriveType
    BY DEF ObjectSet, WindowSet, BufSet, VolDrive
  <1>2. Vol!Written(f) = IF w.sect = 0 THEN [d EXCEPT !.zero = "none"]
                         ELSE IF w.sect = s THEN [d EXCEPT !.info[p] = noted]
                         ELSE [d EXCEPT !.free[p] = less]
    BY DEF Vol!Written
  <1>3. e \in Vol!FsInfo /\ less \in SUBSET Vol!Numbers /\ less = d.free[p] \ m  BY <1>1 DEF Vol!DriveType
  <1> HIDE DEF a, b, m, e, less, p, s, w
  <1>4. noted \in Vol!FsInfo /\ noted.sigs = e.sigs /\ noted.next_free = a /\ noted.free_cnt = b
    BY <1>1, <1>3 DEF Vol!FsInfo
  <1> HIDE DEF noted, d
  <1>5. LET x == [d EXCEPT !.zero = "none"]
        IN  /\ x \in Vol!DriveType /\ x.type = d.type /\ x.holds = d.holds /\ x.bpb = d.bpb
            /\ x.zero = "none" /\ x.info = d.info /\ x.free = d.free
    BY <1>1 DEF Vol!DriveType
  <1>6. LET x == [d EXCEPT !.info[p] = noted]
        IN  /\ x \in Vol!DriveType /\ x.type = d.type /\ x.holds = d.holds /\ x.bpb = d.bpb
            /\ x.zero = d.zero /\ x.free = d.free /\ x.info = [d.info EXCEPT ![p] = noted]
    BY <1>1, <1>4 DEF Vol!DriveType
  <1>7. LET x == [d EXCEPT !.free[p] = less]
        IN  /\ x \in Vol!DriveType /\ x.type = d.type /\ x.holds = d.holds /\ x.bpb = d.bpb
            /\ x.zero = d.zero /\ x.info = d.info /\ x.free = [d.free EXCEPT ![p] = less]
    BY <1>1, <1>3 DEF Vol!DriveType
  <1>8. d.info \in [Parts -> Vol!FsInfo] /\ d.free \in [Parts -> SUBSET Vol!Numbers]
    BY <1>1 DEF Vol!DriveType
  <1> DEFINE x == Vol!Written(f)
  <1>9. /\ x \in Vol!DriveType /\ x.type = d.type /\ x.holds = d.holds /\ x.bpb = d.bpb
        /\ x.zero = IF w.sect = 0 THEN "none" ELSE d.zero
        /\ x.info = IF w.sect # 0 /\ w.sect = s THEN [d.info EXCEPT ![p] = noted] ELSE d.info
        /\ x.free = IF w.sect \in {0, s} THEN d.free ELSE [d.free EXCEPT ![p] = less]
    <2>1. CASE w.sect = 0  BY <1>2, <1>5, <2>1
    <2>2. CASE w.sect # 0 /\ w.sect = s  BY <1>2, <1>6, <2>2
    <2>3. CASE w.sect # 0 /\ w.sect # s  BY <1>2, <1>7, <2>3
    <2> QED BY <2>1, <2>2, <2>3
  <1> HIDE DEF x
  <1>10. \A q \in Parts : q # p => x.info[q] = d.info[q] /\ x.free[q] = d.free[q]  BY <1>8, <1>9
  <1>11. x.free[p] = IF w.sect \in {0, s} THEN d.free[p] ELSE less  BY <1>1, <1>8, <1>9
  <1>12. x.info[p] = IF w.sect # 0 /\ w.sect = s THEN noted ELSE e  BY <1>1, <1>8, <1>9 DEF e
  <1>13. x.info[p].sigs = e.sigs  BY <1>4, <1>12
  <1> QED BY <1>3, <1>4, <1>9, <1>10, <1>11, <1>12, <1>13 DEF x, e, d, p, s, w, a, b, m

(* What sync_buf and update_buf come to.                                   *)
MovedBy(f, o) ==
    /\ o.win \in WindowSet /\ o.drive \in {vdrive, Vol!Written(f)}
    /\ o.drive # vdrive => win[f].dirty
    /\ o.win.dirty => o.win.sect = win[f].sect /\ o.win.buf = win[f].buf /\ win[f].dirty
    /\ ~o.win.dirty => o.win.buf = Vol!Nothing
    /\ SeenFree(o.drive, o.win, fat[f]) = SeenFree(vdrive, win[f], fat[f])

LEMMA NothingFits == VolumeAssumption => Vol!Nothing \in BufSet /\ Vol!Nothing.marks = {}
  BY VolumeConstants DEF Vol!Nothing, BufSet

(* The window after a write.                                               *)
Clean(w) == [w EXCEPT !.dirty = FALSE, !.buf = Vol!Nothing]
Placed(w, s) == [w EXCEPT !.sect = s]

LEMMA WindowIs ==
    ASSUME VolumeAssumption, NEW w \in WindowSet
    PROVE  /\ Clean(w) \in WindowSet /\ ~Clean(w).dirty /\ Clean(w).sect = w.sect
           /\ Clean(w).told = w.told /\ Clean(w).buf = Vol!Nothing
           /\ \A s \in Nat : /\ Placed(w, s) \in WindowSet /\ Placed(w, s).sect = s
                             /\ Placed(w, s).dirty = w.dirty /\ Placed(w, s).buf = w.buf
  <1>1. /\ Clean(w) \in WindowSet /\ ~Clean(w).dirty /\ Clean(w).sect = w.sect
        /\ Clean(w).told = w.told /\ Clean(w).buf = Vol!Nothing
    BY NothingFits DEF WindowSet, Clean
  <1>2. ASSUME NEW s \in Nat
        PROVE  /\ Placed(w, s) \in WindowSet /\ Placed(w, s).sect = s
               /\ Placed(w, s).dirty = w.dirty /\ Placed(w, s).buf = w.buf
    BY DEF WindowSet, Placed
  <1> QED BY <1>1, <1>2

(* What is free does not depend on whether the buffer was written.         *)
LEMMA SeenOnceWritten ==
    ASSUME VolumeAssumption, VolDrive, NEW f \in Fats, fat[f] \in ObjectSet, win[f] \in WindowSet,
           ~win[f].dirty => win[f].buf = Vol!Nothing,
           NEW d \in {vdrive, Vol!Written(f)},
           NEW w \in WindowSet, \/ d = Vol!Written(f) /\ w.buf.marks = {}
                                \/ ~win[f].dirty /\ w.buf.marks = {}
                                \/ w.buf = win[f].buf /\ w.sect = win[f].sect
    PROVE  SeenFree(d, w, fat[f]) = SeenFree(vdrive, win[f], fat[f])
  <1> DEFINE p == fat[f].part
             q == fat[f].info_sect
             v == win[f]
             free == vdrive.free[p]
  <1>1. Vol!Written(f).free[p] = IF v.sect \in {0, q} THEN free ELSE free \ v.buf.marks  BY WrittenIs
  <1>2. ~v.dirty => v.buf.marks = {}  BY NothingFits
  <1>3. d.free[p] = free \/ d.free[p] = IF v.sect \in {0, q} THEN free ELSE free \ v.buf.marks  BY <1>1
  <1>4. SeenFree(vdrive, v, fat[f]) = free \ (IF v.sect \in {0, q} THEN {} ELSE v.buf.marks)  BY DEF SeenFree
  <1>5. SeenFree(d, w, fat[f]) = d.free[p] \ (IF w.sect \in {0, q} THEN {} ELSE w.buf.marks)  BY DEF SeenFree
  <1> DEFINE m == v.buf.marks
             n == w.buf.marks
             e == d.free[p]
             one == v.sect \in {0, q}
             two == w.sect \in {0, q}
  <1>6. \/ d = Vol!Written(f) /\ n = {}
        \/ m = {} /\ n = {}
        \/ n = m /\ (one <=> two)
    BY <1>2
  <1>7. e = free \/ e = IF one THEN free ELSE free \ m  BY <1>3
  <1>8. d = Vol!Written(f) => e = IF one THEN free ELSE free \ m  BY <1>1
  <1>9. SeenFree(vdrive, v, fat[f]) = IF one THEN free ELSE free \ m  BY <1>4
  <1>10. SeenFree(d, w, fat[f]) = e \ (IF two THEN {} ELSE n)  BY <1>5
  <1> HIDE DEF p, q, v, free, m, n, e, one, two
  <1>11. SeenFree(d, w, fat[f]) = SeenFree(vdrive, v, fat[f])
    <2>1. CASE d = Vol!Written(f) /\ n = {}  BY <1>8, <1>9, <1>10, <2>1
    <2>2. CASE m = {} /\ n = {}  BY <1>7, <1>9, <1>10, <2>2
    <2>3. CASE n = m /\ (one <=> two) /\ one  BY <1>7, <1>9, <1>10, <2>3
    <2>4. CASE n = m /\ (one <=> two) /\ ~one  BY <1>7, <1>9, <1>10, <2>4
    <2> QED BY <1>6, <2>1, <2>2, <2>3, <2>4
  <1> QED BY <1>11 DEF v

LEMMA SyncBufMoves ==
    ASSUME VolumeAssumption, VolDrive, NEW f \in Fats, fat[f] \in ObjectSet, win[f] \in WindowSet,
           ~win[f].dirty => win[f].buf = Vol!Nothing, NEW o \in Vol!SyncBuf(f)
    PROVE  MovedBy(f, o) /\ (o.ok => ~o.win.dirty /\ o.win.sect = win[f].sect)
  <1> DEFINE w == win[f]
  <1>1. Clean(w).buf.marks = {}  BY NothingFits, WindowIs
  <1>2. \/ w.dirty /\ o = Vol!Outcome(Clean(w), Vol!Written(f), TRUE)
        \/ w.dirty /\ \E d \in {vdrive, Vol!Written(f)} : o = Vol!Outcome(w, d, FALSE)
        \/ ~w.dirty /\ o = Vol!Outcome(w, vdrive, TRUE)
    <2> DEFINE d == Vol!Written(f)
    <2>1. Vol!SyncBuf(f) = IF w.dirty
                           THEN {Vol!Outcome(Clean(w), d, TRUE)} \cup {Vol!Outcome(w, x, FALSE) : x \in {vdrive, d}}
                           ELSE {Vol!Outcome(w, vdrive, TRUE)}
      BY Zenon DEF Vol!SyncBuf, Clean
    <2> HIDE DEF d
    <2> QED BY <2>1 DEF d
  <1>3. CASE w.dirty /\ o = Vol!Outcome(Clean(w), Vol!Written(f), TRUE)
    <2>1. o.win = Clean(w) /\ o.drive = Vol!Written(f)  BY <1>3 DEF Vol!Outcome
    <2>2. Clean(w) \in WindowSet /\ ~Clean(w).dirty /\ Clean(w).sect = w.sect /\ Clean(w).buf = Vol!Nothing
      BY WindowIs
    <2>3. SeenFree(o.drive, o.win, fat[f]) = SeenFree(vdrive, win[f], fat[f])  BY <1>1, <2>1, <2>2, SeenOnceWritten
    <2> QED BY <1>3, <2>1, <2>2, <2>3 DEF MovedBy
  <1>4. CASE w.dirty /\ \E d \in {vdrive, Vol!Written(f)} : o = Vol!Outcome(w, d, FALSE)
    <2>1. o.win = w /\ o.drive \in {vdrive, Vol!Written(f)} /\ ~o.ok  BY <1>4 DEF Vol!Outcome
    <2>2. SeenFree(o.drive, o.win, fat[f]) = SeenFree(vdrive, win[f], fat[f])  BY <2>1, SeenOnceWritten
    <2> QED BY <1>4, <2>1, <2>2 DEF MovedBy
  <1>5. CASE ~w.dirty /\ o = Vol!Outcome(w, vdrive, TRUE)
    <2>1. o.win = w /\ o.drive = vdrive  BY <1>5 DEF Vol!Outcome
    <2> QED BY <1>5, <2>1 DEF MovedBy
  <1> QED BY <1>2, <1>3, <1>4, <1>5

LEMMA UpdateBufMoves ==
    ASSUME VolumeAssumption, VolDrive, NEW f \in Fats, fat[f] \in ObjectSet, win[f] \in WindowSet,
           ~win[f].dirty => win[f].buf = Vol!Nothing, NEW s \in Nat, NEW o \in Vol!UpdateBuf(f, s)
    PROVE  MovedBy(f, o) /\ (o.ok => o.win.sect = s)
  <1>1. CASE win[f].sect = s
    <2>1. o = Vol!Outcome(win[f], vdrive, TRUE)  BY <1>1 DEF Vol!UpdateBuf
    <2>2. o.win = win[f] /\ o.drive = vdrive  BY <2>1 DEF Vol!Outcome
    <2> QED BY <1>1, <2>2 DEF MovedBy
  <1>2. CASE win[f].sect # s
    <2> DEFINE E == Vol!SyncBuf(f)
    <2>1. \/ o \in E /\ ~o.ok
          \/ \E x \in E : x.ok /\ o = Vol!Outcome(Placed(x.win, s), x.drive, TRUE)
          \/ \E x \in E : x.ok /\ o = Vol!Outcome(x.win, x.drive, FALSE)
      <3>1. Vol!UpdateBuf(f, s) = {x \in E : ~x.ok} \cup UNION
              {{Vol!Outcome(Placed(y.win, s), y.drive, TRUE), Vol!Outcome(y.win, y.drive, FALSE)} :
                 y \in {x \in E : x.ok}}
        BY <1>2, Zenon DEF Vol!UpdateBuf, Placed
      <3> HIDE DEF E
      <3>2. \A x : {Vol!Outcome(Placed(x.win, s), x.drive, TRUE), Vol!Outcome(x.win, x.drive, FALSE)} =
                   {Vol!Outcome(Placed(x.win, s), x.drive, TRUE)} \cup {Vol!Outcome(x.win, x.drive, FALSE)}
        OBVIOUS
      <3> QED BY <3>1, Zenon
    <2>2. CASE o \in E /\ ~o.ok  BY <2>2, SyncBufMoves
    <2>3. ASSUME NEW x \in E, x.ok, o = Vol!Outcome(Placed(x.win, s), x.drive, TRUE)
          PROVE  MovedBy(f, o) /\ o.win.sect = s
      <3>1. MovedBy(f, x) /\ ~x.win.dirty  BY <2>3, SyncBufMoves
      <3>2. o.win = Placed(x.win, s) /\ o.drive = x.drive  BY <2>3 DEF Vol!Outcome
      <3>3. o.win \in WindowSet /\ o.win.sect = s /\ ~o.win.dirty /\ o.win.buf = x.win.buf
        <4>1. PICK y : y = x.win  OBVIOUS
        <4>2. y \in WindowSet /\ ~y.dirty  BY <3>1, <4>1 DEF MovedBy
        <4>3. /\ Placed(y, s) \in WindowSet /\ Placed(y, s).sect = s
              /\ Placed(y, s).dirty = y.dirty /\ Placed(y, s).buf = y.buf
          BY <4>2, WindowIs
        <4> QED BY <3>2, <4>1, <4>2, <4>3
      <3>4. x.win.buf = Vol!Nothing /\ x.win.buf.marks = {} /\ o.win.buf.marks = {}
        BY <3>1, <3>3, NothingFits DEF MovedBy
      <3>5. SeenFree(o.drive, o.win, fat[f]) = SeenFree(x.drive, x.win, fat[f])  BY <3>2, <3>4 DEF SeenFree
      <3> QED BY <3>1, <3>2, <3>3, <3>4, <3>5 DEF MovedBy
    <2>4. ASSUME NEW x \in E, x.ok, o = Vol!Outcome(x.win, x.drive, FALSE)
          PROVE  MovedBy(f, o) /\ ~o.ok
      <3>1. MovedBy(f, x)  BY <2>4, SyncBufMoves
      <3>2. o.win = x.win /\ o.drive = x.drive /\ ~o.ok  BY <2>4 DEF Vol!Outcome
      <3> QED BY <3>1, <3>2 DEF MovedBy
    <2> QED BY <2>1, <2>2, <2>3, <2>4
  <1> QED BY <1>1, <1>2

(* A step that writes: with object f, by outcome o, the window becomes w.  *)
Marked(r, k)    == [r EXCEPT !.last_used = k, !.free_cnt = (@ - 1) % Wrap]
Dirtied(w)      == [w EXCEPT !.dirty = TRUE]
Holding(w, b)   == [w EXCEPT !.dirty = TRUE, !.buf = b]
Untold(w)       == [w EXCEPT !.told = FALSE]
Adding(b, k)    == [b EXCEPT !.marks = @ \cup {k}]
Saying(r)       == [Vol!Nothing EXCEPT !.next_free = r.last_used, !.free_cnt = r.free_cnt]

WroteAs(f, o, w) ==
    \/ fat' = fat /\ w.dirty = o.win.dirty /\ w.sect = o.win.sect /\ w.buf = o.win.buf
    \/ /\ fat' = fat /\ w.dirty /\ w.sect = o.win.sect /\ w.sect \notin {0, fat[f].info_sect}
       /\ w.buf = o.win.buf
    \/ /\ fat' = fat /\ w.dirty /\ w.sect = o.win.sect /\ w.sect = fat[f].info_sect /\ w.sect # 0
       /\ w.buf.next_free = fat[f].last_used /\ w.buf.free_cnt = fat[f].free_cnt
    \/ /\ fat' = [fat EXCEPT ![f] = Marked(fat[f], vcall.clust)] /\ vcall.clust \in SeenFree(vdrive, win[f], fat[f])
       /\ w.dirty /\ w.sect = o.win.sect /\ w.sect \notin {0, fat[f].info_sect}
       /\ w.buf.marks = o.win.buf.marks \cup {vcall.clust}
       /\ vpc' = "sync"

WroteOn(f, o, w) ==
    \/ /\ vpc' = "idle" /\ vcall' = Vol!NoCall
       /\ left' = IF vcall.op = "umount" /\ vres' # "NONE" THEN left \cup {f} ELSE left
       /\ vcall.op = "umount" /\ vres' = "NONE" => ~w.dirty
    \/ /\ vpc' \in Writing /\ vcall' \in CallObjects /\ vcall'.op = vcall.op /\ vcall'.fat = f
       /\ left' = left
       /\ vpc' \in {"scan", "copy", "mark"} => vcall.op = "scan" /\ fat' = fat
       /\ vpc' = "copy" => fat[f].fat_sect[2] # 0
       /\ vpc' \in {"copy", "mark"} => vcall'.clust \in SeenFree(o.drive, w, fat[f])

Wrote(f, o, w) ==
    /\ f \in Fats /\ f = vcall.fat /\ vpc \in Writing /\ MovedBy(f, o) /\ w \in WindowSet
    /\ vdrive' = o.drive /\ win' = [win EXCEPT ![f] = w] /\ UNCHANGED <<head, up, given>>
    /\ vfaults' \in 0 .. MaxFaults /\ vres' \in VolResults
    /\ WroteAs(f, o, w) /\ WroteOn(f, o, w)

LEMMA FaultFits == ASSUME VolumeAssumption, vfaults \in 0 .. MaxFaults, Vol!Fault PROVE vfaults' \in 0 .. MaxFaults
  BY VolumeConstants DEF Vol!Fault

(* What a step that writes starts from.                                    *)
LEMMA WriterIs ==
    ASSUME VolumeAssumption, Mounting, vpc \in Writing, NEW f, f = vcall.fat
    PROVE  /\ f \in Fats /\ vcall \in CallObjects /\ vfaults \in 0 .. MaxFaults /\ vres \in VolResults
           /\ fat \in [Fats -> ObjectSet] /\ win \in [Fats -> WindowSet] /\ VolDrive /\ Active(f)
           /\ fat[f] \in ObjectSet /\ win[f] \in WindowSet /\ (~win[f].dirty => win[f].buf = Vol!Nothing)
           /\ vcall.clust \in Vol!Numbers /\ CallKnows
           /\ fat[f].fat_sect[1] \in Nat /\ fat[f].fat_sect[1] > fat[f].info_sect
           /\ fat[f].fat_sect[2] \in Nat
           /\ fat[f].fat_sect[2] # 0 => fat[f].fat_sect[2] > fat[f].info_sect
           /\ fat[f].info_sect \in Nat /\ fat[f].info_sect # 0 /\ Epc \in Nat /\ Epc > 0
  <1>1. /\ f \in Fats /\ vcall \in CallObjects /\ vfaults \in 0 .. MaxFaults /\ vres \in VolResults
        /\ fat \in [Fats -> ObjectSet] /\ win \in [Fats -> WindowSet] /\ VolDrive /\ Active(f)
        /\ CallKnows /\ (~win[f].dirty => win[f].buf = Vol!Nothing)
    BY DEF Mounting, VolShapes, Windows, CallKnows, Active
  <1>2. fat[f] \in ObjectSet /\ win[f] \in WindowSet /\ vcall.clust \in Vol!Numbers
    BY <1>1 DEF CallObjects
  <1>3. PICK lba \in 0 .. 4 : AreasFrom(f, lba)  BY <1>1 DEF Mounting, AreasFit
  <1> DEFINE r == fat[f]
             b == vdrive.bpb
  <1>4. b.res \in Nat /\ b.res >= 2 /\ b.spf \in Nat /\ Epc \in Nat /\ Epc > 0
    BY <1>1, DriveShape, VolumeConstants DEF VolDrive, Fitting, Vol!Bpb
  <1>5. /\ r.fat_sect[1] = IF b.act % 2 = 0 THEN lba + b.res ELSE lba + b.res + b.spf
        /\ r.fat_sect[2] = IF b.mirror THEN (IF b.act % 2 = 0 THEN lba + b.res + b.spf ELSE lba + b.res) ELSE 0
        /\ r.info_sect = lba + 1
    BY <1>3 DEF AreasFrom
  <1> HIDE DEF r, b
  <1>6. /\ r.fat_sect[1] \in Nat /\ r.fat_sect[1] > r.info_sect /\ r.fat_sect[2] \in Nat
        /\ r.fat_sect[2] # 0 => r.fat_sect[2] > r.info_sect
        /\ r.info_sect \in Nat /\ r.info_sect # 0
    <2> DEFINE x == b.res
               y == b.spf
    <2>1. /\ lba \in Nat /\ x \in Nat /\ x >= 2 /\ y \in Nat /\ lba + x \in Nat /\ lba + x > lba + 1
          /\ lba + x + y \in Nat /\ lba + x + y > lba + 1 /\ lba + 1 \in Nat /\ lba + 1 # 0
      <3>1. lba \in Nat /\ x \in Nat /\ x >= 2 /\ y \in Nat  BY <1>4
      <3> HIDE DEF x, y
      <3> QED BY <3>1
    <2> QED BY <1>5, <2>1
  <1> QED BY <1>1, <1>2, <1>4, <1>6 DEF r

(* Sectors of FATs are neither the first one nor FSINFO. *)
LEMMA FatSectorIs ==
    ASSUME VolumeAssumption, Mounting, vpc \in Writing, NEW f, f = vcall.fat, NEW c \in Vol!Numbers,
           NEW k \in {1, 2}, k = 2 => fat[f].fat_sect[2] # 0
    PROVE  Vol!FatSector(f, k, c) \in Nat /\ Vol!FatSector(f, k, c) \notin {0, fat[f].info_sect}
  <1> DEFINE s == fat[f].fat_sect[k]
             i == fat[f].info_sect
             q == c \div Epc
  <1>1. s \in Nat /\ i \in Nat /\ s > i  BY WriterIs
  <1>2. q \in Nat
    <2>1. c \in Nat /\ Epc \in Nat /\ Epc > 0  BY VolumeConstants
    <2> QED BY <2>1
  <1>3. Vol!FatSector(f, k, c) = s + q  BY DEF Vol!FatSector
  <1> HIDE DEF s, i, q
  <1>4. s + q \in Nat /\ s + q \notin {0, i}  BY <1>1, <1>2
  <1> QED BY <1>3, <1>4 DEF i

(* What a step does to the window it has got.                              *)
LEMMA WindowBecomes ==
    ASSUME NEW w \in WindowSet, NEW b \in BufSet
    PROVE  /\ Dirtied(w) \in WindowSet /\ Dirtied(w).dirty /\ Dirtied(w).sect = w.sect /\ Dirtied(w).buf = w.buf
           /\ Holding(w, b) \in WindowSet /\ Holding(w, b).dirty /\ Holding(w, b).sect = w.sect
           /\ Holding(w, b).buf = b
           /\ Untold(w) \in WindowSet /\ Untold(w).dirty = w.dirty /\ Untold(w).sect = w.sect
           /\ Untold(w).buf = w.buf
  <1>1. Dirtied(w) \in WindowSet /\ Dirtied(w).dirty /\ Dirtied(w).sect = w.sect /\ Dirtied(w).buf = w.buf
    BY DEF Dirtied, WindowSet
  <1>2. /\ Holding(w, b) \in WindowSet /\ Holding(w, b).dirty /\ Holding(w, b).sect = w.sect
        /\ Holding(w, b).buf = b
    BY DEF Holding, WindowSet
  <1>3. /\ Untold(w) \in WindowSet /\ Untold(w).dirty = w.dirty /\ Untold(w).sect = w.sect
        /\ Untold(w).buf = w.buf
    BY DEF Untold, WindowSet
  <1> QED BY <1>1, <1>2, <1>3

LEMMA FlushWrites == ASSUME VolumeAssumption, Mounting, Vol!Flush PROVE \E f, o, w : Wrote(f, o, w)
  <1>1. PICK f, o : /\ f = vcall.fat /\ vpc = "sync" /\ o \in Vol!SyncBuf(f) /\ fat' = fat /\ UNCHANGED <<head, up>>
                    /\ Vol!Took(f, o, o.win)
                    /\ \/ o.ok /\ Vol!GoesOn("tell")
                       \/ Vol!Ends(IF o.ok THEN "NONE" ELSE "IO")
    BY Zenon DEF Vol!Flush, Vol!Runs, Vol!List
  <1>2. vpc \in Writing  BY <1>1 DEF Writing
  <1>3. /\ f \in Fats /\ vcall \in CallObjects /\ vfaults \in 0 .. MaxFaults /\ vres \in VolResults
        /\ VolDrive /\ fat[f] \in ObjectSet /\ win[f] \in WindowSet /\ (~win[f].dirty => win[f].buf = Vol!Nothing)
    BY <1>1, <1>2, WriterIs
  <1>4. MovedBy(f, o) /\ (o.ok => ~o.win.dirty)  BY <1>1, <1>3, SyncBufMoves
  <1>5. /\ vdrive' = o.drive /\ win' = [win EXCEPT ![f] = o.win] /\ vfaults' \in 0 .. MaxFaults
    BY <1>1, <1>3, FaultFits DEF Vol!Took
  <1>6. WroteAs(f, o, o.win)  BY <1>1 DEF WroteAs
  <1>7. WroteOn(f, o, o.win) /\ vres' \in VolResults /\ given' = given
    <2>1. CASE o.ok /\ Vol!GoesOn("tell")
      <3>1. vpc' = "tell" /\ vcall' = vcall /\ vres' = vres /\ left' = left /\ given' = given
        BY <2>1 DEF Vol!GoesOn, Vol!Goes, Vol!History
      <3> QED BY <1>1, <1>3, <3>1 DEF WroteOn, Writing
    <2>2. CASE Vol!Ends(IF o.ok THEN "NONE" ELSE "IO")
      <3>1. /\ vpc' = "idle" /\ vcall' = Vol!NoCall /\ vres' = (IF o.ok THEN "NONE" ELSE "IO") /\ given' = given
            /\ left' = IF vcall.op = "umount" /\ vres' # "NONE" THEN left \cup {vcall.fat} ELSE left
        BY <2>2 DEF Vol!Ends, Vol!Returns
      <3> QED BY <1>1, <1>4, <3>1 DEF WroteOn, VolResults
    <2> QED BY <1>1, <2>1, <2>2
  <1> QED BY <1>1, <1>2, <1>3, <1>4, <1>5, <1>6, <1>7 DEF Wrote, MovedBy

LEMMA ToldWrites == ASSUME VolumeAssumption, Mounting, Vol!Told PROVE \E f, o, w : Wrote(f, o, w)
  <1>1. PICK f, o : /\ f = vcall.fat /\ vpc = "told" /\ o \in Vol!SyncBuf(f) /\ fat' = fat /\ UNCHANGED <<head, up>>
                    /\ Vol!Took(f, o, Untold(o.win))
                    /\ Vol!Ends(IF o.ok THEN "NONE" ELSE "IO")
    BY Zenon DEF Vol!Told, Vol!Runs, Vol!List, Untold
  <1>2. vpc \in Writing  BY <1>1 DEF Writing
  <1>3. /\ f \in Fats /\ vcall \in CallObjects /\ vfaults \in 0 .. MaxFaults /\ vres \in VolResults
        /\ VolDrive /\ fat[f] \in ObjectSet /\ win[f] \in WindowSet /\ (~win[f].dirty => win[f].buf = Vol!Nothing)
    BY <1>1, <1>2, WriterIs
  <1>4. MovedBy(f, o) /\ (o.ok => ~o.win.dirty)  BY <1>1, <1>3, SyncBufMoves
  <1>5. PICK w : w = IF o.ok THEN Untold(o.win) ELSE o.win  OBVIOUS
  <1>6. vdrive' = o.drive /\ win' = [win EXCEPT ![f] = w] /\ vfaults' \in 0 .. MaxFaults
    BY <1>1, <1>3, <1>5, FaultFits DEF Vol!Took
  <1>7. w \in WindowSet /\ w.dirty = o.win.dirty /\ w.sect = o.win.sect /\ w.buf = o.win.buf
    BY <1>4, <1>5, WindowBecomes, NothingFits DEF MovedBy
  <1>8. /\ vpc' = "idle" /\ vcall' = Vol!NoCall /\ vres' = (IF o.ok THEN "NONE" ELSE "IO") /\ given' = given
        /\ left' = IF vcall.op = "umount" /\ vres' # "NONE" THEN left \cup {vcall.fat} ELSE left
    BY <1>1 DEF Vol!Ends, Vol!Returns
  <1>9. WroteAs(f, o, w)  BY <1>1, <1>7 DEF WroteAs
  <1>10. WroteOn(f, o, w) /\ vres' \in VolResults  BY <1>1, <1>4, <1>7, <1>8 DEF WroteOn, VolResults
  <1> QED BY <1>1, <1>2, <1>3, <1>4, <1>6, <1>7, <1>8, <1>9, <1>10 DEF Wrote

LEMMA TellWrites == ASSUME VolumeAssumption, Mounting, Vol!Tell PROVE \E f, o, w : Wrote(f, o, w)
  <1>1. PICK f, o : /\ f = vcall.fat /\ vpc = "tell" /\ o \in Vol!UpdateBuf(f, fat[f].info_sect) /\ fat' = fat
                    /\ UNCHANGED <<head, up>> /\ Vol!Took(f, o, Holding(o.win, Saying(fat[f])))
                    /\ IF o.ok THEN Vol!GoesOn("told") ELSE Vol!Ends("IO")
    BY Zenon DEF Vol!Tell, Vol!Runs, Vol!List, Holding, Saying
  <1>2. vpc \in Writing  BY <1>1 DEF Writing
  <1>3. /\ f \in Fats /\ vcall \in CallObjects /\ vfaults \in 0 .. MaxFaults /\ vres \in VolResults
        /\ VolDrive /\ fat[f] \in ObjectSet /\ win[f] \in WindowSet /\ (~win[f].dirty => win[f].buf = Vol!Nothing)
        /\ fat[f].info_sect \in Nat /\ fat[f].info_sect # 0
    BY <1>1, <1>2, WriterIs
  <1>4. MovedBy(f, o) /\ (o.ok => o.win.sect = fat[f].info_sect)  BY <1>1, <1>3, UpdateBufMoves
  <1>5. PICK b : b = Saying(fat[f])  OBVIOUS
  <1>6. b \in BufSet /\ b.next_free = fat[f].last_used /\ b.free_cnt = fat[f].free_cnt
    <2> DEFINE x == fat[f].last_used
               y == fat[f].free_cnt
               n == Vol!Nothing
    <2>1. x \in Vol!Numbers /\ y \in Vol!Numbers /\ n \in BufSet  BY <1>3, NothingFits DEF ObjectSet
    <2>2. b = [n EXCEPT !.next_free = x, !.free_cnt = y]  BY <1>5 DEF Saying
    <2> HIDE DEF x, y, n
    <2>3. b \in BufSet /\ b.next_free = x /\ b.free_cnt = y  BY <2>1, <2>2 DEF BufSet
    <2> QED BY <2>3 DEF x, y
  <1>7. PICK w : w = IF o.ok THEN Holding(o.win, b) ELSE o.win  OBVIOUS
  <1>8. vdrive' = o.drive /\ win' = [win EXCEPT ![f] = w] /\ vfaults' \in 0 .. MaxFaults
    BY <1>1, <1>3, <1>5, <1>7, FaultFits DEF Vol!Took
  <1>9. CASE o.ok
    <2>1. w \in WindowSet /\ w.dirty /\ w.sect = o.win.sect /\ w.buf = b
      BY <1>4, <1>6, <1>7, <1>9, WindowBecomes DEF MovedBy
    <2>2. WroteAs(f, o, w)  BY <1>1, <1>3, <1>4, <1>6, <1>9, <2>1 DEF WroteAs
    <2>3. vpc' = "told" /\ vcall' = vcall /\ vres' = vres /\ left' = left /\ given' = given
      BY <1>1, <1>9 DEF Vol!GoesOn, Vol!Goes, Vol!History
    <2>4. WroteOn(f, o, w)  BY <1>1, <1>3, <2>3 DEF WroteOn, Writing
    <2> QED BY <1>1, <1>2, <1>3, <1>4, <1>8, <2>1, <2>2, <2>3, <2>4 DEF Wrote
  <1>10. CASE ~o.ok
    <2>1. w \in WindowSet /\ w = o.win  BY <1>4, <1>7, <1>10 DEF MovedBy
    <2>2. WroteAs(f, o, w)  BY <1>1, <2>1 DEF WroteAs
    <2>3. /\ vpc' = "idle" /\ vcall' = Vol!NoCall /\ vres' = "IO" /\ given' = given
          /\ left' = IF vcall.op = "umount" /\ vres' # "NONE" THEN left \cup {vcall.fat} ELSE left
      BY <1>1, <1>10 DEF Vol!Ends, Vol!Returns
    <2>4. WroteOn(f, o, w) /\ vres' \in VolResults  BY <1>1, <2>3 DEF WroteOn, VolResults
    <2> QED BY <1>1, <1>2, <1>3, <1>4, <1>8, <2>1, <2>2, <2>3, <2>4 DEF Wrote
  <1> QED BY <1>9, <1>10

LEMMA CopyWrites == ASSUME VolumeAssumption, Mounting, Vol!Copy PROVE \E f, o, w : Wrote(f, o, w)
  <1>1. PICK f, o : /\ f = vcall.fat /\ vpc = "copy" /\ o \in Vol!UpdateBuf(f, Vol!FatSector(f, 2, vcall.clust))
                    /\ fat' = fat /\ UNCHANGED <<head, up>> /\ Vol!Took(f, o, Dirtied(o.win))
                    /\ IF o.ok THEN Vol!GoesOn("mark") ELSE Vol!Ends("IO")
    BY Zenon DEF Vol!Copy, Vol!Runs, Vol!List, Dirtied
  <1>2. vpc \in Writing  BY <1>1 DEF Writing
  <1>3. /\ f \in Fats /\ vcall \in CallObjects /\ vfaults \in 0 .. MaxFaults /\ vres \in VolResults
        /\ VolDrive /\ fat[f] \in ObjectSet /\ win[f] \in WindowSet /\ (~win[f].dirty => win[f].buf = Vol!Nothing)
        /\ vcall.clust \in Vol!Numbers /\ CallKnows
    BY <1>1, <1>2, WriterIs
  <1>4. /\ fat[f].fat_sect[2] # 0 /\ vcall.op = "scan" /\ vcall.clust \in SeenFree(vdrive, win[f], fat[f])
    BY <1>1, <1>3 DEF CallKnows
  <1>5. PICK s : s = Vol!FatSector(f, 2, vcall.clust)  OBVIOUS
  <1>6. s \in Nat /\ s \notin {0, fat[f].info_sect}  BY <1>1, <1>2, <1>3, <1>4, <1>5, FatSectorIs
  <1>7. MovedBy(f, o) /\ (o.ok => o.win.sect = s)  BY <1>1, <1>3, <1>5, <1>6, UpdateBufMoves
  <1>8. PICK w : w = IF o.ok THEN Dirtied(o.win) ELSE o.win  OBVIOUS
  <1>9. vdrive' = o.drive /\ win' = [win EXCEPT ![f] = w] /\ vfaults' \in 0 .. MaxFaults
    BY <1>1, <1>3, <1>8, FaultFits DEF Vol!Took
  <1>10. CASE o.ok
    <2>1. w \in WindowSet /\ w.dirty /\ w.sect = o.win.sect /\ w.buf = o.win.buf
      BY <1>7, <1>8, <1>10, WindowBecomes, NothingFits DEF MovedBy
    <2>2. WroteAs(f, o, w)  BY <1>1, <1>6, <1>7, <1>10, <2>1 DEF WroteAs
    <2>3. vpc' = "mark" /\ vcall' = vcall /\ vres' = vres /\ left' = left /\ given' = given
      BY <1>1, <1>10 DEF Vol!GoesOn, Vol!Goes, Vol!History
    <2>4. vcall.clust \in SeenFree(o.drive, w, fat[f])
      <3>1. SeenFree(o.drive, w, fat[f]) = SeenFree(o.drive, o.win, fat[f])  BY <2>1 DEF SeenFree
      <3> QED BY <1>4, <1>7, <3>1 DEF MovedBy
    <2>5. WroteOn(f, o, w)  BY <1>1, <1>3, <1>4, <2>3, <2>4 DEF WroteOn, Writing
    <2> QED BY <1>1, <1>2, <1>3, <1>7, <1>9, <2>1, <2>2, <2>3, <2>5 DEF Wrote
  <1>11. CASE ~o.ok
    <2>1. w \in WindowSet /\ w = o.win  BY <1>7, <1>8, <1>11 DEF MovedBy
    <2>2. WroteAs(f, o, w)  BY <1>1, <2>1 DEF WroteAs
    <2>3. /\ vpc' = "idle" /\ vcall' = Vol!NoCall /\ vres' = "IO" /\ given' = given
          /\ left' = IF vcall.op = "umount" /\ vres' # "NONE" THEN left \cup {vcall.fat} ELSE left
      BY <1>1, <1>11 DEF Vol!Ends, Vol!Returns
    <2>4. WroteOn(f, o, w) /\ vres' \in VolResults  BY <1>1, <2>3 DEF WroteOn, VolResults
    <2> QED BY <1>1, <1>2, <1>3, <1>7, <1>9, <2>1, <2>2, <2>3, <2>4 DEF Wrote
  <1> QED BY <1>10, <1>11

LEMMA MarkWrites == ASSUME VolumeAssumption, Mounting, Vol!Mark PROVE \E f, o, w : Wrote(f, o, w)
  <1>1. PICK f, o : /\ f = vcall.fat /\ vpc = "mark" /\ o \in Vol!UpdateBuf(f, Vol!FatSector(f, 1, vcall.clust))
                    /\ UNCHANGED <<head, up>> /\ Vol!Took(f, o, Holding(o.win, Adding(o.win.buf, vcall.clust)))
                    /\ IF o.ok THEN fat' = [fat EXCEPT ![f] = Marked(fat[f], vcall.clust)] /\ Vol!GoesOn("sync")
                       ELSE fat' = fat /\ Vol!Ends("IO")
    BY Zenon DEF Vol!Mark, Vol!Runs, Vol!List, Holding, Adding, Marked
  <1>2. vpc \in Writing  BY <1>1 DEF Writing
  <1>3. /\ f \in Fats /\ vcall \in CallObjects /\ vfaults \in 0 .. MaxFaults /\ vres \in VolResults
        /\ VolDrive /\ fat[f] \in ObjectSet /\ win[f] \in WindowSet /\ (~win[f].dirty => win[f].buf = Vol!Nothing)
        /\ vcall.clust \in Vol!Numbers /\ CallKnows
    BY <1>1, <1>2, WriterIs
  <1>4. vcall.op = "scan" /\ vcall.clust \in SeenFree(vdrive, win[f], fat[f])
    BY <1>1, <1>3 DEF CallKnows
  <1>5. PICK s : s = Vol!FatSector(f, 1, vcall.clust)  OBVIOUS
  <1>6. s \in Nat /\ s \notin {0, fat[f].info_sect}  BY <1>1, <1>2, <1>3, <1>5, FatSectorIs
  <1>7. MovedBy(f, o) /\ (o.ok => o.win.sect = s)  BY <1>1, <1>3, <1>5, <1>6, UpdateBufMoves
  <1>8. PICK b : b = Adding(o.win.buf, vcall.clust)  OBVIOUS
  <1>9. b \in BufSet /\ b.marks = o.win.buf.marks \cup {vcall.clust}
    <2>1. \A x \in BufSet, k \in Vol!Numbers : Adding(x, k) \in BufSet /\ Adding(x, k).marks = x.marks \cup {k}
      BY DEF Adding, BufSet
    <2>2. o.win.buf \in BufSet  BY <1>7 DEF MovedBy, WindowSet
    <2> QED BY <1>3, <1>8, <2>1, <2>2
  <1>10. PICK w : w = IF o.ok THEN Holding(o.win, b) ELSE o.win  OBVIOUS
  <1>11. vdrive' = o.drive /\ win' = [win EXCEPT ![f] = w] /\ vfaults' \in 0 .. MaxFaults
    BY <1>1, <1>3, <1>8, <1>10, FaultFits DEF Vol!Took
  <1>12. CASE o.ok
    <2>1. w \in WindowSet /\ w.dirty /\ w.sect = o.win.sect /\ w.buf = b
      BY <1>7, <1>9, <1>10, <1>12, WindowBecomes DEF MovedBy
    <2>2. vpc' = "sync" /\ vcall' = vcall /\ vres' = vres /\ left' = left /\ given' = given
      BY <1>1, <1>12 DEF Vol!GoesOn, Vol!Goes, Vol!History
    <2>3. WroteAs(f, o, w)  BY <1>1, <1>4, <1>6, <1>7, <1>9, <1>12, <2>1, <2>2 DEF WroteAs
    <2>4. WroteOn(f, o, w)  BY <1>1, <1>3, <1>4, <2>2 DEF WroteOn, Writing
    <2> QED BY <1>1, <1>2, <1>3, <1>7, <1>11, <2>1, <2>2, <2>3, <2>4 DEF Wrote
  <1>13. CASE ~o.ok
    <2>1. w \in WindowSet /\ w = o.win  BY <1>7, <1>10, <1>13 DEF MovedBy
    <2>2. WroteAs(f, o, w)  BY <1>1, <1>13, <2>1 DEF WroteAs
    <2>3. /\ vpc' = "idle" /\ vcall' = Vol!NoCall /\ vres' = "IO" /\ given' = given
          /\ left' = IF vcall.op = "umount" /\ vres' # "NONE" THEN left \cup {vcall.fat} ELSE left
      BY <1>1, <1>13 DEF Vol!Ends, Vol!Returns
    <2>4. WroteOn(f, o, w) /\ vres' \in VolResults  BY <1>1, <2>3 DEF WroteOn, VolResults
    <2> QED BY <1>1, <1>2, <1>3, <1>7, <1>11, <2>1, <2>2, <2>3, <2>4 DEF Wrote
  <1> QED BY <1>12, <1>13

LEMMA OnwardIs ==
    ASSUME VolumeAssumption, VolDrive, NEW f, NEW c \in Vol!Numbers PROVE Vol!Onward(f, c) \in Vol!Numbers
  <1>1. Wrap \in Nat /\ Wrap > 1 /\ Vol!Numbers = 0 .. (Wrap - 1)  BY VolumeConstants
  <1>2. (c + 1) % Wrap \in 0 .. (Wrap - 1)  BY <1>1
  <1>3. 2 \in Vol!Numbers
    <2>1. vdrive.bpb.res \in Nat /\ vdrive.bpb.spf \in Nat /\ 5 + Vol!Meta(vdrive.bpb) < Wrap
      BY DriveShape, VolumeConstants DEF VolDrive, Fitting, Vol!Bpb
    <2>2. Vol!Meta(vdrive.bpb) \in Nat  BY <2>1 DEF Vol!Meta
    <2> QED BY <1>1, <2>1, <2>2
  <1> QED BY <1>1, <1>2, <1>3 DEF Vol!Onward

LEMMA ScanWrites == ASSUME VolumeAssumption, Mounting, Vol!Scan PROVE \E f, o, w : Wrote(f, o, w)
  <1>1. PICK f, c : /\ f = vcall.fat /\ c = Vol!Onward(f, vcall.clust) /\ vpc = "scan" /\ fat' = fat
                    /\ UNCHANGED <<head, up>>
                    /\ \/ Vol!Ends("FULL") /\ UNCHANGED <<vdrive, win, vfaults>>
                       \/ \E o \in Vol!UpdateBuf(f, Vol!FatSector(f, 1, c)) :
                            /\ Vol!Took(f, o, o.win)
                            /\ IF o.ok
                               THEN /\ vcall' = At(vcall, c) /\ UNCHANGED Vol!History
                                    /\ Vol!Goes(IF ~Vol!IsFree(f, o, c) THEN "scan"
                                                ELSE IF fat[f].fat_sect[2] # 0 THEN "copy" ELSE "mark")
                               ELSE Vol!Ends("FLAGS") \/ Vol!Ends("NONE")
    BY Zenon DEF Vol!Scan, Vol!Runs, Vol!List, At
  <1>2. vpc \in Writing  BY <1>1 DEF Writing
  <1>3. /\ f \in Fats /\ vcall \in CallObjects /\ vfaults \in 0 .. MaxFaults /\ vres \in VolResults
        /\ VolDrive /\ fat[f] \in ObjectSet /\ win[f] \in WindowSet /\ (~win[f].dirty => win[f].buf = Vol!Nothing)
        /\ win \in [Fats -> WindowSet] /\ vcall.clust \in Vol!Numbers /\ CallKnows
    BY <1>1, <1>2, WriterIs
  <1>4. vcall.op = "scan"  BY <1>1, <1>3 DEF CallKnows
  <1>5. CASE Vol!Ends("FULL") /\ UNCHANGED <<vdrive, win, vfaults>>
    <2>1. PICK o : o = Vol!Outcome(win[f], vdrive, TRUE)  OBVIOUS
    <2>2. o.win = win[f] /\ o.drive = vdrive  BY <2>1 DEF Vol!Outcome
    <2>3. MovedBy(f, o)  BY <1>3, <2>2 DEF MovedBy
    <2>4. vdrive' = o.drive /\ win' = [win EXCEPT ![f] = o.win] /\ vfaults' \in 0 .. MaxFaults
      BY <1>3, <1>5, <2>2
    <2>5. vpc' = "idle" /\ vcall' = Vol!NoCall /\ vres' = "FULL" /\ given' = given /\ left' = left
      BY <1>4, <1>5 DEF Vol!Ends, Vol!Returns
    <2>6. WroteAs(f, o, o.win) /\ WroteOn(f, o, o.win) /\ vres' \in VolResults
      BY <1>1, <1>4, <2>5 DEF WroteAs, WroteOn, VolResults
    <2> QED BY <1>1, <1>2, <1>3, <2>2, <2>3, <2>4, <2>5, <2>6 DEF Wrote
  <1>6. CASE \E o \in Vol!UpdateBuf(f, Vol!FatSector(f, 1, c)) :
                /\ Vol!Took(f, o, o.win)
                /\ IF o.ok
                   THEN /\ vcall' = At(vcall, c) /\ UNCHANGED Vol!History
                        /\ Vol!Goes(IF ~Vol!IsFree(f, o, c) THEN "scan"
                                    ELSE IF fat[f].fat_sect[2] # 0 THEN "copy" ELSE "mark")
                   ELSE Vol!Ends("FLAGS") \/ Vol!Ends("NONE")
    <2>1. PICK o \in Vol!UpdateBuf(f, Vol!FatSector(f, 1, c)) :
            /\ Vol!Took(f, o, o.win)
            /\ IF o.ok
               THEN /\ vcall' = At(vcall, c) /\ UNCHANGED Vol!History
                    /\ Vol!Goes(IF ~Vol!IsFree(f, o, c) THEN "scan"
                                ELSE IF fat[f].fat_sect[2] # 0 THEN "copy" ELSE "mark")
               ELSE Vol!Ends("FLAGS") \/ Vol!Ends("NONE")
      BY <1>6
    <2>2. c \in Vol!Numbers  BY <1>1, <1>3, OnwardIs
    <2>3. Vol!FatSector(f, 1, c) \in Nat  BY <1>1, <1>2, <2>2, FatSectorIs
    <2>4. MovedBy(f, o)  BY <1>3, <2>1, <2>3, UpdateBufMoves
    <2>5. vdrive' = o.drive /\ win' = [win EXCEPT ![f] = o.win] /\ vfaults' \in 0 .. MaxFaults
      BY <1>3, <2>1, FaultFits DEF Vol!Took
    <2>6. WroteAs(f, o, o.win)  BY <1>1 DEF WroteAs
    <2>7. CASE o.ok
      <3>1. At(vcall, c) \in CallObjects /\ At(vcall, c).op = "scan" /\ At(vcall, c).fat = f /\ At(vcall, c).clust = c
        BY <1>1, <1>3, <1>4, <2>2, CallGoesOn
      <3>2. /\ vcall' = At(vcall, c) /\ vres' = vres /\ left' = left /\ given' = given
            /\ vpc' = IF ~Vol!IsFree(f, o, c) THEN "scan"
                      ELSE IF fat[f].fat_sect[2] # 0 THEN "copy" ELSE "mark"
        BY <2>1, <2>7 DEF Vol!Goes, Vol!History
      <3>3. Vol!IsFree(f, o, c) => c \in SeenFree(o.drive, o.win, fat[f])  BY DEF Vol!IsFree, SeenFree
      <3>4. WroteOn(f, o, o.win)  BY <1>1, <1>4, <3>1, <3>2, <3>3 DEF WroteOn, Writing
      <3> QED BY <1>1, <1>2, <1>3, <2>4, <2>5, <2>6, <3>2, <3>4 DEF Wrote, MovedBy
    <2>8. CASE ~o.ok
      <3>1. /\ vpc' = "idle" /\ vcall' = Vol!NoCall /\ vres' \in {"FLAGS", "NONE"} /\ given' = given /\ left' = left
        BY <1>4, <2>1, <2>8 DEF Vol!Ends, Vol!Returns
      <3>2. WroteOn(f, o, o.win) /\ vres' \in VolResults  BY <1>4, <3>1 DEF WroteOn, VolResults
      <3> QED BY <1>1, <1>2, <1>3, <2>4, <2>5, <2>6, <3>1, <3>2 DEF Wrote, MovedBy
    <2> QED BY <2>7, <2>8
  <1> QED BY <1>1, <1>5, <1>6

(* What a step that writes leaves of the drive and the objects.            *)
LEMMA WroteLeaves ==
    ASSUME VolumeAssumption, Mounting, NEW f, NEW o, NEW w, Wrote(f, o, w)
    PROVE  /\ VolDrive' /\ vdrive'.bpb = vdrive.bpb
           /\ fat' \in [Fats -> ObjectSet]
           /\ \A g \in Fats : /\ fat'[g].next = fat[g].next /\ fat'[g].part = fat[g].part
                              /\ fat'[g].fat_sect = fat[g].fat_sect /\ fat'[g].info_sect = fat[g].info_sect
                              /\ fat'[g].data_sect = fat[g].data_sect
           /\ win' \in [Fats -> WindowSet] /\ win'[f] = w /\ \A g \in Fats : g # f => win'[g] = win[g]
           /\ (~w.dirty => w.buf = Vol!Nothing)
           /\ up' = up /\ head' = head /\ given' = given
           /\ \A g : Active(g)' => Active(g)
  <1>1. /\ f \in Fats /\ f = vcall.fat /\ vpc \in Writing /\ MovedBy(f, o) /\ w \in WindowSet
        /\ vdrive' = o.drive /\ win' = [win EXCEPT ![f] = w] /\ UNCHANGED <<head, up, given>>
        /\ WroteAs(f, o, w) /\ WroteOn(f, o, w)
    BY DEF Wrote
  <1>2. /\ fat \in [Fats -> ObjectSet] /\ win \in [Fats -> WindowSet] /\ VolDrive
        /\ fat[f] \in ObjectSet /\ win[f] \in WindowSet /\ vcall.clust \in Vol!Numbers
    BY <1>1, WriterIs
  <1>3. o.drive \in {vdrive, Vol!Written(f)} /\ (~o.win.dirty => o.win.buf = Vol!Nothing)
    BY <1>1 DEF MovedBy
  <1>4. VolDrive' /\ vdrive'.bpb = vdrive.bpb
    <2> DEFINE d == Vol!Written(f)
    <2>1. /\ d \in Vol!DriveType /\ d.bpb = vdrive.bpb
          /\ \A q \in Parts : d.free[q] \subseteq vdrive.free[q]
      <3>1. /\ d \in Vol!DriveType /\ d.bpb = vdrive.bpb
            /\ \A q \in Parts : q # fat[f].part => d.free[q] = vdrive.free[q]
            /\ d.free[fat[f].part] \subseteq vdrive.free[fat[f].part]
        BY <1>1, <1>2, WrittenIs
      <3> QED BY <3>1
    <2> HIDE DEF d
    <2>2. o.drive = vdrive \/ o.drive = d  BY <1>3 DEF d
    <2>3. CASE o.drive = vdrive  BY <1>1, <1>2, <2>3 DEF VolDrive
    <2>4. CASE o.drive = d  BY <1>1, <1>2, <2>1, <2>4 DEF VolDrive
    <2> QED BY <2>2, <2>3, <2>4
  <1>5. /\ fat' \in [Fats -> ObjectSet]
        /\ \A g \in Fats : /\ fat'[g].next = fat[g].next /\ fat'[g].part = fat[g].part
                           /\ fat'[g].fat_sect = fat[g].fat_sect /\ fat'[g].info_sect = fat[g].info_sect
                           /\ fat'[g].data_sect = fat[g].data_sect
    <2>1. CASE fat' = fat  BY <1>2, <2>1
    <2>2. CASE fat' # fat
      <3> DEFINE x == Marked(fat[f], vcall.clust)
      <3>1. fat' = [fat EXCEPT ![f] = x]  BY <1>1, <2>2 DEF WroteAs
      <3>2. /\ x \in ObjectSet /\ x.next = fat[f].next /\ x.part = fat[f].part
            /\ x.fat_sect = fat[f].fat_sect /\ x.info_sect = fat[f].info_sect /\ x.data_sect = fat[f].data_sect
        <4>1. PICK r, k : r = fat[f] /\ k = vcall.clust  OBVIOUS
        <4>2. r \in ObjectSet /\ k \in Vol!Numbers  BY <1>2, <4>1
        <4>3. PICK n : n = (r.free_cnt - 1) % Wrap  OBVIOUS
        <4>4. n \in Vol!Numbers
          <5>1. r.free_cnt \in 0 .. (Wrap - 1) /\ Wrap \in Nat /\ Wrap > 1 /\ Vol!Numbers = 0 .. (Wrap - 1)
            BY <4>2, VolumeConstants DEF ObjectSet
          <5> QED BY <4>3, <5>1
        <4>5. Marked(r, k) = [r EXCEPT !.last_used = k, !.free_cnt = n]  BY <4>3 DEF Marked
        <4>6. LET y == [r EXCEPT !.last_used = k, !.free_cnt = n]
              IN  /\ y \in ObjectSet /\ y.next = r.next /\ y.part = r.part
                  /\ y.fat_sect = r.fat_sect /\ y.info_sect = r.info_sect /\ y.data_sect = r.data_sect
          BY <4>2, <4>4 DEF ObjectSet
        <4> QED BY <4>1, <4>5, <4>6
      <3> HIDE DEF x
      <3>3. fat'[f] = x /\ \A g \in Fats : g # f => fat'[g] = fat[g]  BY <1>1, <1>2, <3>1
      <3>4. fat' \in [Fats -> ObjectSet]  BY <1>1, <1>2, <3>1, <3>2
      <3> QED BY <3>2, <3>3, <3>4
    <2> QED BY <2>1, <2>2
  <1>6. win' \in [Fats -> WindowSet] /\ win'[f] = w /\ \A g \in Fats : g # f => win'[g] = win[g]
    BY <1>1, <1>2
  <1>7. ~w.dirty => w.buf = Vol!Nothing  BY <1>1, <1>3 DEF WroteAs
  <1>8. up' = up /\ head' = head /\ given' = given  BY <1>1
  <1>9. \A g : Active(g)' => Active(g)
    <2> SUFFICES ASSUME NEW g, Active(g)' PROVE Active(g)  OBVIOUS
    <2>1. g \in up \/ (vpc' \in Writing /\ g = vcall'.fat)  BY <1>8 DEF Active
    <2>2. vpc' \in Writing => vcall'.fat = f  BY <1>1 DEF WroteOn, Writing
    <2> QED BY <1>1, <2>1, <2>2 DEF Active
  <1> QED BY <1>4, <1>5, <1>6, <1>7, <1>8, <1>9

LEMMA WroteKeeps ==
    ASSUME VolumeAssumption, Mounting, NEW f, NEW o, NEW w, Wrote(f, o, w)
    PROVE  Mounting'
  <1>1. /\ f \in Fats /\ f = vcall.fat /\ vpc \in Writing
        /\ vdrive' = o.drive /\ vfaults' \in 0 .. MaxFaults /\ vres' \in VolResults
        /\ WroteAs(f, o, w) /\ WroteOn(f, o, w)
    BY DEF Wrote
  <1>2. CallKnows /\ AreasFit /\ PartsApart /\ Linked /\ head \in Fats \cup {Vol!Nobody} /\ up \subseteq Fats
    BY DEF Mounting, VolShapes
  <1>3. /\ VolDrive' /\ vdrive'.bpb = vdrive.bpb /\ fat' \in [Fats -> ObjectSet]
        /\ \A g \in Fats : /\ fat'[g].next = fat[g].next /\ fat'[g].part = fat[g].part
                           /\ fat'[g].fat_sect = fat[g].fat_sect /\ fat'[g].info_sect = fat[g].info_sect
                           /\ fat'[g].data_sect = fat[g].data_sect
        /\ win' \in [Fats -> WindowSet] /\ win'[f] = w /\ \A g \in Fats : g # f => win'[g] = win[g]
        /\ (~w.dirty => w.buf = Vol!Nothing)
        /\ up' = up /\ head' = head /\ \A g : Active(g)' => Active(g)
    BY WroteLeaves
  <1>4. vpc' \in Stages /\ vcall' \in CallObjects
    BY <1>1, NoCallFits DEF WroteOn, Stages, Writing
  <1>5. VolShapes'  BY <1>1, <1>2, <1>3, <1>4 DEF VolShapes
  <1>6. Windows'
    <2>1. \A g \in Fats : ~win[g].dirty => win[g].buf = Vol!Nothing  BY DEF Mounting, Windows
    <2>2. \A g \in Fats : ~win'[g].dirty => win'[g].buf = Vol!Nothing  BY <1>3, <2>1
    <2> QED BY <1>3, <2>2 DEF Windows
  <1>7. CallKnows'
    <2>1. CASE vpc' = "idle"  BY <2>1 DEF CallKnows, Writing
    <2>2. CASE vpc' # "idle"
      <3>1. /\ vpc' \in Writing /\ vcall'.op = vcall.op /\ vcall'.fat = f
            /\ vpc' \in {"scan", "copy", "mark"} => vcall.op = "scan" /\ fat' = fat
            /\ vpc' = "copy" => fat[f].fat_sect[2] # 0
            /\ vpc' \in {"copy", "mark"} => vcall'.clust \in SeenFree(o.drive, w, fat[f])
        BY <1>1, <2>2 DEF WroteOn
      <3>2. vcall.op \in {"scan", "sync", "umount"} /\ (vcall.op # "umount" => f \in up)
        BY <1>1, <1>2 DEF CallKnows
      <3>3. vpc' \in {"copy", "mark"} => vcall'.clust \in SeenFree(vdrive', win'[vcall'.fat], fat'[vcall'.fat])
        BY <1>1, <1>3, <3>1
      <3>4. vpc' \notin {"zero", "part", "info"}  BY <3>1 DEF Writing
      <3> QED BY <1>1, <1>3, <3>1, <3>2, <3>3, <3>4 DEF CallKnows
    <2> QED BY <2>1, <2>2
  <1>8. AreasFit'
    <2> SUFFICES ASSUME NEW g \in Fats, Active(g)' \/ (vpc' = "info" /\ g = vcall'.fat)
                 PROVE  \E k \in 0 .. 4 : AreasFrom(g, k)'
      BY DEF AreasFit
    <2>1. vpc' # "info"  BY <1>1 DEF WroteOn, Writing
    <2>2. PICK k \in 0 .. 4 : AreasFrom(g, k)  BY <1>2, <1>3, <2>1 DEF AreasFit
    <2>3. AreasFrom(g, k)'  BY <1>3, <2>2 DEF AreasFrom
    <2> QED BY <2>3
  <1>9. PartsApart'
    <2> SUFFICES ASSUME NEW g \in Fats, NEW h \in Fats, Active(g)', Active(h)', g # h
                 PROVE  fat'[g].part # fat'[h].part
      BY DEF PartsApart
    <2>1. Active(g) /\ Active(h)  BY <1>3
    <2> QED BY <1>2, <1>3, <2>1 DEF PartsApart
  <1>10. Linked'
    <2>1. PICK n, s : Chain(fat, head, up, n, s)  BY <1>2 DEF Linked
    <2>2. \A g \in up : fat'[g].next = fat[g].next  BY <1>2, <1>3
    <2>3. Chain(fat', head, up, n, s)  BY <2>1, <2>2, ChainKept
    <2> QED BY <1>3, <2>3 DEF Linked
  <1>11. Vol!ProbeIsDocumented'
    <2>1. ~(vpc' = "idle" /\ vcall'.op \in {"probe", "mount"})
      BY <1>1 DEF WroteOn, Writing, Vol!NoCall
    <2> QED BY <2>1 DEF Vol!ProbeIsDocumented
  <1> QED BY <1>3, <1>5, <1>6, <1>7, <1>8, <1>9, <1>10, <1>11 DEF Mounting

LEMMA UmountKeeps ==
    ASSUME VolumeAssumption, Mounting, Vol!Umount
    PROVE  /\ Mounting' /\ UNCHANGED <<vdrive, win, given, left>> /\ \A f \in Fats : Active(f)' <=> f \in up
           /\ \A g \in Fats : /\ fat'[g].part = fat[g].part /\ fat'[g].info_sect = fat[g].info_sect
                              /\ fat'[g].last_used = fat[g].last_used /\ fat'[g].free_cnt = fat[g].free_cnt
  <1>1. PICK f \in Fats :
          /\ vpc = "idle" /\ UNCHANGED <<vdrive, win, given, left, vfaults>>
          /\ vcall' = Sought(Vol!NoCall, "umount", f)
          /\ \/ /\ f \in Vol!Listed /\ fat' = Vol!Unlinked(f).fat /\ head' = Vol!Unlinked(f).head
                /\ up' = up \ {f} /\ vpc' = "sync" /\ vres' = vres
             \/ vpc' = "idle" /\ vres' = "PARAM" /\ fat' = fat /\ head' = head /\ up' = up
    BY Zenon DEF Vol!Umount, Vol!History, Vol!Goes, Vol!Returns, Vol!List, Sought
  <1>2. /\ up \subseteq Fats /\ Linked /\ VolDrive /\ Windows /\ AreasFit /\ PartsApart
        /\ vfaults \in 0 .. MaxFaults /\ vres \in VolResults /\ fat \in [Fats -> ObjectSet]
    BY DEF Mounting, VolShapes
  <1>3. /\ vcall' \in CallObjects /\ vcall'.op = "umount" /\ vcall'.fat = f
    <2>1. PICK r : r = Vol!NoCall  OBVIOUS
    <2>2. r \in CallObjects  BY <2>1, NoCallFits
    <2>3. Sought(r, "umount", f) \in CallObjects /\ Sought(r, "umount", f).op = "umount" /\ Sought(r, "umount", f).fat = f
      BY <2>2, CallIsOne
    <2> QED BY <1>1, <2>1, <2>3
  <1>4. \A g : Active(g) <=> g \in up  BY <1>1 DEF Active, Writing
  <1>5. Windows' /\ VolDrive'  BY <1>1, <1>2 DEF Windows, VolDrive
  <1>6. Vol!ProbeIsDocumented'
    <2>1. ~(vpc' = "idle" /\ vcall'.op \in {"probe", "mount"})  BY <1>3
    <2> QED BY <2>1 DEF Vol!ProbeIsDocumented
  <1>7. CASE vpc' = "idle" /\ vres' = "PARAM" /\ fat' = fat /\ head' = head /\ up' = up
    <2>1. VolShapes'
      <3>1. UNCHANGED <<fat, Vol!List>>  BY <1>7 DEF Vol!List
      <3> QED BY <1>1, <1>2, <1>3, <1>7, <3>1, CallFitsType DEF Stages, VolResults
    <2>2. CallKnows'  BY <1>7 DEF CallKnows, Writing
    <2>3. vpc \notin Writing /\ vpc' \notin Writing  BY <1>1, <1>7 DEF Writing
    <2>4. \A g : Active(g)' <=> g \in up  BY <1>7, <2>3 DEF Active
    <2>5. UNCHANGED <<vdrive, fat, Vol!List>>  BY <1>1, <1>7 DEF Vol!List
    <2>6. Mounting'  BY <1>5, <1>6, <1>7, <2>1, <2>2, <2>3, <2>5, QuietKeeps
    <2> QED BY <1>1, <1>7, <2>4, <2>6
  <1>8. CASE /\ f \in Vol!Listed /\ fat' = Vol!Unlinked(f).fat /\ head' = Vol!Unlinked(f).head
             /\ up' = up \ {f} /\ vpc' = "sync" /\ vres' = vres
    <2>1. f \in up  BY <1>2, <1>8, ListedIsUp
    <2>2. /\ fat' \in [Fats -> ObjectSet] /\ head' \in Fats \cup {Vol!Nobody} /\ Linked'
          /\ \A g \in Fats : /\ fat'[g].part = fat[g].part /\ fat'[g].fat_sect = fat[g].fat_sect
                             /\ fat'[g].info_sect = fat[g].info_sect /\ fat'[g].data_sect = fat[g].data_sect
                             /\ fat'[g].last_used = fat[g].last_used /\ fat'[g].free_cnt = fat[g].free_cnt
      BY <1>8, <2>1, UnlinkedIs
    <2>3. \A g : Active(g)' <=> g \in up  BY <1>3, <1>8, <2>1 DEF Active, Writing
    <2>4. VolShapes'  BY <1>1, <1>2, <1>3, <1>8, <2>2 DEF VolShapes, Stages, Writing
    <2>5. CallKnows'  BY <1>3, <1>8 DEF CallKnows, Writing
    <2>6. AreasFit'
      <3> SUFFICES ASSUME NEW g \in Fats, Active(g)' \/ (vpc' = "info" /\ g = vcall'.fat)
                   PROVE  \E k \in 0 .. 4 : AreasFrom(g, k)'
        BY DEF AreasFit
      <3>1. Active(g)  BY <1>4, <1>8, <2>3
      <3>2. PICK k \in 0 .. 4 : AreasFrom(g, k)  BY <1>2, <3>1 DEF AreasFit
      <3>3. AreasFrom(g, k)'  BY <1>1, <2>2, <3>2 DEF AreasFrom
      <3> QED BY <3>3
    <2>7. PartsApart'
      <3> SUFFICES ASSUME NEW g \in Fats, NEW h \in Fats, Active(g)', Active(h)', g # h
                   PROVE  fat'[g].part # fat'[h].part
        BY DEF PartsApart
      <3>1. Active(g) /\ Active(h)  BY <1>4, <2>3
      <3> QED BY <1>2, <2>2, <3>1 DEF PartsApart
    <2>8. Mounting'  BY <1>5, <1>6, <2>2, <2>4, <2>5, <2>6, <2>7 DEF Mounting
    <2> QED BY <1>1, <2>2, <2>3, <2>8
  <1> QED BY <1>1, <1>7, <1>8

LEMMA VolumeWrites ==
    ASSUME VolumeAssumption, Mounting,
           Vol!Scan \/ Vol!Copy \/ Vol!Mark \/ Vol!Flush \/ Vol!Tell \/ Vol!Told
    PROVE  \E f, o, w : Wrote(f, o, w)
  BY ScanWrites, CopyWrites, MarkWrites, FlushWrites, TellWrites, ToldWrites

LEMMA VolumesKeep == ASSUME VolumeAssumption, Mounting, [Vol!Next]_Vol!vars PROVE Mounting'
  <1>1. CASE UNCHANGED Vol!vars
    <2>1. UNCHANGED <<vdrive, vpc, vcall, fat, win, head, up, vres, vfaults>>  BY <1>1 DEF Vol!vars
    <2>2. VolShapes' /\ Windows'  BY <2>1 DEF Mounting, VolShapes, Windows
    <2>3. VolDrive' /\ CallKnows'
      BY <2>1 DEF Mounting, VolDrive, CallKnows, There, Vol!GetPartLba
    <2>4. \A g : Active(g)' <=> Active(g)  BY <2>1 DEF Active
    <2>5. AreasFit'
      <3> SUFFICES ASSUME NEW g \in Fats, Active(g)' \/ (vpc' = "info" /\ g = vcall'.fat)
                   PROVE  \E k \in 0 .. 4 : AreasFrom(g, k)'
        BY DEF AreasFit
      <3>1. PICK k \in 0 .. 4 : AreasFrom(g, k)  BY <2>1, <2>4 DEF Mounting, AreasFit
      <3>2. AreasFrom(g, k)'  BY <2>1, <3>1 DEF AreasFrom
      <3> QED BY <3>2
    <2>6. PartsApart' /\ Linked' /\ Vol!ProbeIsDocumented'
      BY <2>1, <2>4 DEF Mounting, PartsApart, Linked, Vol!ProbeIsDocumented, Vol!Accepts, Vol!Unknown
    <2> QED BY <2>2, <2>3, <2>5, <2>6 DEF Mounting
  <1>2. CASE Vol!BeginProbe \/ Vol!BeginMount \/ Vol!BeginSync \/ Vol!Find \/ Vol!BeginScan
    BY <1>2, VolumesBegin
  <1>3. CASE Vol!Umount  BY <1>3, UmountKeeps
  <1>4. CASE Vol!Fails \/ Vol!Panic  BY <1>4, VolumeStops
  <1>5. CASE Vol!ProbeZero  BY <1>5, ProbeZeroKeeps
  <1>6. CASE Vol!ProbePart  BY <1>6, ProbePartKeeps
  <1>7. CASE Vol!ReadInfo  BY <1>7, ReadInfoKeeps
  <1>8. CASE Vol!Scan \/ Vol!Copy \/ Vol!Mark \/ Vol!Flush \/ Vol!Tell \/ Vol!Told
    BY <1>8, VolumeWrites, WroteKeeps
  <1> QED BY <1>1, <1>2, <1>3, <1>4, <1>5, <1>6, <1>7, <1>8 DEF Vol!Next, Vol!Steps

LEMMA AreasThere ==
    ASSUME VolumeAssumption, Mounting, NEW f \in up, vdrive.bpb.spf > 0
    PROVE  LET spf == vdrive.bpb.spf
               copies == {fat[f].fat_sect[1], fat[f].fat_sect[2]} \ {0}
           IN  /\ Cardinality(copies) = IF vdrive.bpb.mirror THEN 2 ELSE 1
               /\ \A a, b \in copies : a = b \/ a + spf <= b \/ b + spf <= a
               /\ \A a \in copies : fat[f].info_sect < a /\ a + spf <= fat[f].data_sect
  <1>1. PICK lba \in 0 .. 4 : AreasFrom(f, lba)  BY DEF Mounting, VolShapes, AreasFit, Active
  <1> DEFINE b == vdrive.bpb
             x == b.res
             y == b.spf
             one == lba + x
             two == lba + x + y
             first == IF b.act % 2 = 0 THEN one ELSE two
             other == IF b.act % 2 = 0 THEN two ELSE one
             copies == {fat[f].fat_sect[1], fat[f].fat_sect[2]} \ {0}
  <1>2. x \in Nat /\ y \in Nat /\ x >= 2 /\ y > 0
    <2>1. VolDrive  BY DEF Mounting
    <2> QED BY <2>1, DriveShape, VolumeConstants DEF VolDrive, Fitting, Vol!Bpb
  <1>3. /\ fat[f].fat_sect = <<first, IF b.mirror THEN other ELSE 0>>
        /\ fat[f].info_sect = lba + 1 /\ fat[f].data_sect = lba + (x + 2 * y)
    BY <1>1 DEF AreasFrom, Vol!Meta
  <1>4. /\ one \in Nat /\ two \in Nat /\ 0 < one /\ one + y <= two
        /\ lba + 1 < one /\ two + y <= lba + (x + 2 * y)
    <2> HIDE DEF x, y
    <2> QED BY <1>2
  <1>5. {first, other} = {one, two}  OBVIOUS
  <1>6. copies = IF b.mirror THEN {one, two} ELSE {first}
    <2>1. fat[f].fat_sect[1] = first /\ fat[f].fat_sect[2] = IF b.mirror THEN other ELSE 0
      <3> DEFINE second == IF b.mirror THEN other ELSE 0
                 t == fat[f].fat_sect
      <3>1. t = <<first, second>>  BY <1>3
      <3> HIDE DEF t, first, second
      <3>2. t[1] = first /\ t[2] = second  BY <3>1
      <3> QED BY <3>2 DEF t, second
    <2> HIDE DEF one, two
    <2>2. first # 0 /\ other # 0  BY <1>2, <1>4
    <2> HIDE DEF first, other, b
    <2> QED BY <1>5, <2>1, <2>2
  <1>7. first \in {one, two}  OBVIOUS
  <1> HIDE DEF first, other, one, two, copies
  <1>8. Cardinality(copies) = IF b.mirror THEN 2 ELSE 1
    <2>1. one # two  BY <1>2, <1>4
    <2>2. Cardinality({one, two}) = 2
      <3>1. Cardinality({one}) = 1 /\ IsFiniteSet({one})  BY FS_Singleton
      <3>2. Cardinality({one} \cup {two}) = Cardinality({one}) + 1  BY <2>1, <3>1, FS_AddElement
      <3>3. {one} \cup {two} = {one, two}  OBVIOUS
      <3> QED BY <3>1, <3>2, <3>3
    <2>3. Cardinality({first}) = 1  BY FS_Singleton
    <2> QED BY <1>6, <2>2, <2>3
  <1>9. copies \subseteq {one, two}  BY <1>6, <1>7
  <1>10. \A a, c \in copies : a = c \/ a + y <= c \/ c + y <= a
    <2> HIDE DEF y
    <2> QED BY <1>4, <1>9
  <1>11. \A a \in copies : lba + 1 < a /\ a + y <= lba + (x + 2 * y)
    <2> HIDE DEF x, y
    <2> QED BY <1>2, <1>4, <1>9
  <1> QED BY <1>3, <1>8, <1>10, <1>11 DEF copies

(* The answer of find_fat_volume. *)
FindKnows == vcall.op = "find" /\ vpc = "idle" => (vres = "NONE" <=> vcall.fat \in up)

LEMMA FindKeeps ==
    ASSUME VolumeAssumption, Mounting, FindKnows, [Vol!Next]_Vol!vars PROVE FindKnows'
  <1>1. CASE Vol!Find
    <2>1. PICK f \in Fats : /\ vcall' = Sought(Vol!NoCall, "find", f) /\ up' = up
                            /\ vres' = IF f \in Vol!Listed THEN "NONE" ELSE "PATH"
      BY <1>1, Zenon DEF Vol!Find, Vol!List, Sought
    <2>2. Sought(Vol!NoCall, "find", f).fat = f  BY NoCallFits, CallIsOne
    <2>3. Vol!Listed = up  BY ListedIsUp DEF Mounting
    <2> QED BY <2>1, <2>2, <2>3 DEF FindKnows
  <1>2. CASE Vol!BeginProbe \/ Vol!BeginMount \/ Vol!BeginSync \/ Vol!BeginScan
    <2>1. vpc' \in {"zero", "sync", "scan"}
      BY <1>2, Zenon DEF Vol!BeginProbe, Vol!BeginMount, Vol!BeginSync, Vol!BeginScan, Vol!Goes
    <2> QED BY <2>1 DEF FindKnows
  <1>3. CASE Vol!Umount
    <2>1. PICK f \in Fats : vcall' = Sought(Vol!NoCall, "umount", f)  BY <1>3, Zenon DEF Vol!Umount, Sought
    <2>2. Sought(Vol!NoCall, "umount", f).op = "umount"  BY NoCallFits, CallIsOne
    <2> QED BY <2>1, <2>2 DEF FindKnows
  <1>4. CASE Vol!ProbeZero \/ Vol!ProbePart \/ Vol!ReadInfo \/ Vol!Fails \/ Vol!Panic
    <2>1. vcall' = vcall /\ (vpc \in {"zero", "part", "info"})
      BY <1>4, Zenon DEF Vol!ProbeZero, Vol!ProbePart, Vol!ReadInfo, Vol!Fails, Vol!Panic
    <2>2. vcall.op # "find"  BY <2>1 DEF Mounting, CallKnows
    <2> QED BY <2>1, <2>2 DEF FindKnows
  <1>5. CASE Vol!Scan \/ Vol!Copy \/ Vol!Mark \/ Vol!Flush \/ Vol!Tell \/ Vol!Told
    <2>1. PICK f, o, w : Wrote(f, o, w)  BY <1>5, VolumeWrites
    <2>2. vpc' # "idle" \/ vcall'.op = "none"  BY <2>1 DEF Wrote, WroteOn, Writing, Vol!NoCall
    <2> QED BY <2>2 DEF FindKnows
  <1>6. CASE UNCHANGED Vol!vars  BY <1>6 DEF Vol!vars, FindKnows
  <1> QED BY <1>1, <1>2, <1>3, <1>4, <1>5, <1>6, Zenon DEF Vol!Next, Vol!Steps

LEMMA MountedWell ==
    ASSUME Vol!MountAssumption, Vol!NobodyAssumption PROVE Vol!Spec => [](Mounting /\ FindKnows)
  <1>1. VolumeAssumption  BY DEF VolumeAssumption
  <1>2. Vol!Init => Mounting /\ FindKnows
    <2> SUFFICES ASSUME Vol!Init PROVE FindKnows  BY <1>1, VolumeStarts
    <2>1. vcall.op = "none"  BY DEF Vol!Init, Vol!Attached, Vol!NoCall
    <2> QED BY <2>1 DEF FindKnows
  <1>3. Mounting /\ FindKnows /\ [Vol!Next]_(Vol!vars) => (Mounting /\ FindKnows)'
    BY <1>1, VolumesKeep, FindKeeps
  <1> QED BY <1>2, <1>3, PTL DEF Vol!Spec

(* VolumesSound holds for any drives whose sectors and clusters 32 bits    *)
(* can number, however many partitions and objects, whatever transfers     *)
(* fail and whatever an object had in its buffer when it was mounted       *)
(* again: of boot sectors that name no more sectors before the data than   *)
(* there are, fat_probe and fat_mount accept those the comment above       *)
(* fat_probe says, what is mounted has its areas apart, and g_fat_list     *)
(* holds what was mounted and not unmounted since, in whatever order.      *)
THEOREM VolumesAreSound ==
    ASSUME Vol!MountAssumption, Vol!NobodyAssumption PROVE Vol!Spec => []Vol!VolumesSound
  <1>1. VolumeAssumption  BY DEF VolumeAssumption
  <1>2. Mounting /\ FindKnows => Vol!VolumesSound
    <2> SUFFICES ASSUME Mounting, FindKnows PROVE Vol!VolumesSound  OBVIOUS
    <2>1. Vol!TypeOK  BY ShapesAreTypes DEF Mounting
    <2>2. Vol!ProbeIsDocumented /\ Linked  BY DEF Mounting
    <2>3. Vol!AreasApart
      <3> SUFFICES ASSUME NEW f \in up, vdrive.bpb.spf > 0
                   PROVE  LET spf == vdrive.bpb.spf
                              copies == {fat[f].fat_sect[1], fat[f].fat_sect[2]} \ {0}
                          IN  /\ Vol!Cardinality(copies) = IF vdrive.bpb.mirror THEN 2 ELSE 1
                              /\ \A a, b \in copies : a = b \/ a + spf <= b \/ b + spf <= a
                              /\ \A a \in copies : fat[f].info_sect < a /\ a + spf <= fat[f].data_sect
        BY DEF Vol!AreasApart
      <3> QED BY <1>1, AreasThere, SameCount
    <2>4. Vol!ListIsUp  BY <1>1, <2>2, ListedIsUp DEF Vol!ListIsUp, FindKnows
    <2> QED BY <2>1, <2>2, <2>3, <2>4 DEF Vol!VolumesSound
  <1> QED BY <1>2, MountedWell, PTL

(* FSINFO on the medium, in the objects and in their buffers, where what   *)
(* the drive came with was right; and who has something to write, where.   *)
Telling(f) ==
    /\ fat[f].last_used # Vol!Unknown /\ fat[f].free_cnt # Vol!Unknown
    /\ fat[f].free_cnt >= Cardinality(SeenFree(vdrive, win[f], fat[f]))
    /\ win[f].dirty /\ win[f].sect = fat[f].info_sect =>
         /\ win[f].buf.next_free # Vol!Unknown /\ win[f].buf.free_cnt # Vol!Unknown
         /\ win[f].buf.free_cnt >= Cardinality(vdrive.free[fat[f].part])

Counting ==
    /\ Vol!InfoStaysGood
    /\ \A f \in Fats : Active(f) /\ Vol!Honest(given, fat[f].part) => Telling(f)
    /\ \A f \in Fats : win[f].dirty => f \in left \/ (Active(f) /\ win[f].sect # 0)

(* A step that leaves all of this alone.                                   *)
Quiet ==
    /\ UNCHANGED <<vdrive, given, left>>
    /\ \A f \in Fats :
         /\ Active(f)' <=> Active(f)
         /\ win'[f].dirty <=> win[f].dirty
         /\ win'[f].sect = win[f].sect /\ win'[f].buf = win[f].buf
         /\ Active(f) => /\ fat'[f].part = fat[f].part /\ fat'[f].info_sect = fat[f].info_sect
                         /\ fat'[f].last_used = fat[f].last_used /\ fat'[f].free_cnt = fat[f].free_cnt

LEMMA QuietCounts == ASSUME Counting, Quiet PROVE Counting'
  <1>1. vdrive' = vdrive /\ given' = given /\ left' = left  BY DEF Quiet
  <1>2. Vol!InfoStaysGood'  BY <1>1 DEF Counting, Vol!InfoStaysGood, Vol!Honest, Vol!Accepts, Vol!Unknown
  <1>3. ASSUME NEW f \in Fats, Active(f)', Vol!Honest(given, fat[f].part)' PROVE Telling(f)'
    <2>1. /\ Active(f) /\ fat'[f].part = fat[f].part /\ fat'[f].info_sect = fat[f].info_sect
          /\ fat'[f].last_used = fat[f].last_used /\ fat'[f].free_cnt = fat[f].free_cnt
          /\ (win'[f].dirty <=> win[f].dirty) /\ win'[f].sect = win[f].sect /\ win'[f].buf = win[f].buf
      BY <1>3 DEF Quiet
    <2>2. Vol!Honest(given, fat[f].part)
      BY <1>1, <1>3, <2>1 DEF Vol!Honest, Vol!Accepts, Vol!Unknown
    <2>3. Telling(f)  BY <2>1, <2>2 DEF Counting
    <2>4. SeenFree(vdrive', win'[f], fat'[f]) = SeenFree(vdrive, win[f], fat[f])  BY <1>1, <2>1 DEF SeenFree
    <2> QED BY <1>1, <2>1, <2>3, <2>4 DEF Telling, Vol!Unknown
  <1>4. ASSUME NEW f \in Fats, win'[f].dirty PROVE f \in left' \/ (Active(f)' /\ win'[f].sect # 0)
    BY <1>1, <1>4 DEF Quiet, Counting
  <1> QED BY <1>2, <1>3, <1>4 DEF Counting

LEMMA CountingStarts == ASSUME VolumeAssumption, Vol!Init PROVE Counting
  <1>1. PICK d \in Drives : Vol!Attached(d)  BY DEF Vol!Init
  <1>2. /\ vdrive = d /\ given = d /\ vpc = "idle" /\ up = {} /\ win = [f \in Fats |-> Vol!Unused]
    BY <1>1 DEF Vol!Attached
  <1>3. \A f \in Fats : ~Active(f) /\ ~win[f].dirty  BY <1>2 DEF Active, Writing, Vol!Unused
  <1> QED BY <1>2, <1>3 DEF Counting, Vol!InfoStaysGood

(* The steps that are not those of ReadInfo and of the calls that write.   *)
LEMMA QuietSteps ==
    ASSUME VolumeAssumption, Mounting,
           \/ UNCHANGED Vol!vars
           \/ Vol!BeginProbe \/ Vol!BeginMount \/ Vol!BeginSync \/ Vol!Find \/ Vol!BeginScan
           \/ Vol!Umount \/ Vol!Fails \/ Vol!Panic \/ Vol!ProbeZero \/ Vol!ProbePart
    PROVE  Quiet
  <1>1. up \subseteq Fats /\ win \in [Fats -> WindowSet] /\ fat \in [Fats -> ObjectSet] /\ CallKnows
    BY DEF Mounting, VolShapes, Windows
  <1>2. CASE UNCHANGED Vol!vars
    <2>1. UNCHANGED <<vdrive, given, left, vpc, vcall, up, fat, win>>  BY <1>2 DEF Vol!vars
    <2> QED BY <2>1 DEF Quiet, Active
  <1>3. CASE Vol!BeginProbe \/ Vol!BeginMount \/ Vol!BeginSync \/ Vol!Find
    <2>1. /\ UNCHANGED <<vdrive, given, left, up, fat, win>> /\ vpc = "idle"
          /\ \/ vpc' \in {"zero", "idle"}
             \/ vpc' = "sync" /\ \E f \in up : vcall' = Begun(Vol!NoCall, "sync", 0, f)
      BY <1>3, Zenon DEF Vol!BeginProbe, Vol!BeginMount, Vol!BeginSync, Vol!Find, Vol!Begin, Vol!Goes,
           Vol!History, Vol!List, Begun
    <2>2. vpc' = "sync" => vcall'.fat \in up
      <3> SUFFICES ASSUME vpc' = "sync" PROVE vcall'.fat \in up  OBVIOUS
      <3>0. PICK r : r = Vol!NoCall  OBVIOUS
      <3>1. PICK f \in up : r = Vol!NoCall /\ vcall' = Begun(r, "sync", 0, f)  BY <2>1, <3>0
      <3>2. r \in CallObjects /\ 0 \in Parts /\ f \in Fats  BY <1>1, <3>1, NoCallFits
      <3>3. Begun(r, "sync", 0, f).fat = f  BY <3>2, CallIsOne
      <3> QED BY <3>1, <3>3
    <2>3. \A f : (Active(f) <=> f \in up) /\ (Active(f)' <=> f \in up)  BY <2>1, <2>2 DEF Active, Writing
    <2> QED BY <2>1, <2>3 DEF Quiet
  <1>4. CASE Vol!BeginScan
    <2>1. PICK f \in up : /\ UNCHANGED <<vdrive, given, left, up, fat>> /\ vpc = "idle" /\ vpc' = "scan"
                          /\ vcall' = SoughtAt(Vol!NoCall, "scan", f, fat[f].last_used)
                          /\ win' = [win EXCEPT ![f] = [win[f] EXCEPT !.told = TRUE]]
      BY <1>4, Zenon DEF Vol!BeginScan, Vol!Goes, Vol!History, Vol!List, SoughtAt
    <2>2. vcall'.fat = f
      <3>1. PICK k, r : k = fat[f].last_used /\ r = Vol!NoCall  OBVIOUS
      <3>2. f \in Fats /\ k \in Vol!Numbers /\ r \in CallObjects  BY <1>1, <3>1, NoCallFits DEF ObjectSet
      <3>3. SoughtAt(r, "scan", f, k).fat = f  BY <3>2, CallIsOne
      <3> QED BY <2>1, <3>1, <3>3
    <2>3. \A g : (Active(g) <=> g \in up) /\ (Active(g)' <=> g \in up)  BY <2>1, <2>2 DEF Active, Writing
    <2>4. \A w \in WindowSet : LET x == [w EXCEPT !.told = TRUE]
                               IN x.sect = w.sect /\ (x.dirty <=> w.dirty) /\ x.buf = w.buf
      BY DEF WindowSet
    <2>5. \A g \in Fats : /\ win'[g].dirty <=> win[g].dirty
                          /\ win'[g].sect = win[g].sect /\ win'[g].buf = win[g].buf
      BY <1>1, <2>1, <2>4
    <2> QED BY <2>1, <2>3, <2>5 DEF Quiet
  <1>5. CASE Vol!Umount
    <2>1. vpc = "idle"  BY <1>5 DEF Vol!Umount
    <2>2. \A f : Active(f) <=> f \in up  BY <2>1 DEF Active, Writing
    <2> QED BY <1>5, <2>2, UmountKeeps DEF Quiet
  <1>6. CASE Vol!Fails \/ Vol!Panic
    <2>1. /\ UNCHANGED <<vdrive, given, left, up, fat, win>> /\ vpc \in {"zero", "part", "info"}
          /\ vpc' \in {"idle", "panic"}
      BY <1>6, Zenon DEF Vol!Fails, Vol!Panic, Vol!Goes, Vol!Returns, Vol!History, Vol!List
    <2>2. \A f : (Active(f) <=> f \in up) /\ (Active(f)' <=> f \in up)  BY <2>1 DEF Active, Writing
    <2> QED BY <2>1, <2>2 DEF Quiet
  <1>7. CASE Vol!ProbeZero \/ Vol!ProbePart
    <2>1. /\ UNCHANGED <<vdrive, given, left, up, win, vcall>> /\ vpc \in {"zero", "part"}
          /\ fat' = fat \/ Vol!Probed(0) \/ Vol!Probed(Vol!PartLba(vcall.part))
          /\ vpc' \in {"idle", "part", "info"}
      BY <1>7, Zenon DEF Vol!ProbeZero, Vol!ProbePart, Vol!Probed, Vol!Goes, Vol!Returns, Vol!History, Vol!List
    <2>2. \A f : (Active(f) <=> f \in up) /\ (Active(f)' <=> f \in up)  BY <2>1 DEF Active, Writing
    <2>3. fat' = fat \/ (vcall.fat \notin up /\ \E x : fat' = [fat EXCEPT ![vcall.fat] = x])
      <3>1. CASE fat' = fat  BY <3>1
      <3>2. CASE fat' # fat
        <4>1. vcall.op # "probe" /\ \E x : fat' = [fat EXCEPT ![vcall.fat] = x]
          BY <2>1, <3>2, Zenon DEF Vol!Probed
        <4>2. vcall.op = "mount"  BY <1>1, <2>1, <4>1 DEF CallKnows
        <4>3. vcall.fat \notin up  BY <1>1, <2>1, <4>2 DEF CallKnows
        <4> QED BY <4>1, <4>3
      <3> QED BY <3>1, <3>2
    <2>4. \A f \in up : fat'[f] = fat[f]
      <3>1. CASE fat' = fat  BY <3>1
      <3>2. ASSUME vcall.fat \notin up, NEW x, fat' = [fat EXCEPT ![vcall.fat] = x]
            PROVE  \A f \in up : fat'[f] = fat[f]
        BY <1>1, <3>2
      <3> QED BY <2>3, <3>1, <3>2
    <2> QED BY <1>1, <2>1, <2>2, <2>4 DEF Quiet
  <1> QED BY <1>2, <1>3, <1>4, <1>5, <1>6, <1>7

LEMMA ReadInfoCounts == ASSUME VolumeAssumption, Mounting, Counting, Vol!ReadInfo PROVE Counting'
  <1> DEFINE p == vcall.part
             i == vdrive.info[p]
  <1>1. PICK f, o :
          /\ f = vcall.fat /\ vpc = "info" /\ UNCHANGED <<vdrive, vcall, given, left>> /\ vpc' = "idle"
          /\ \/ UNCHANGED <<fat, win, up>>
             \/ /\ Vol!Accepts(i) /\ up' = up \cup {f} /\ fat' = [fat EXCEPT ![f] = o]
                /\ o = [fat[f] EXCEPT !.next = head, !.last_used = i.next_free, !.free_cnt = i.free_cnt]
                /\ win' = [win EXCEPT ![f] = Placed(win[f], 0)]
    BY Zenon DEF Vol!ReadInfo, Vol!Returns, Vol!History, Vol!List, Placed
  <1>2. /\ up \subseteq Fats /\ win \in [Fats -> WindowSet] /\ fat \in [Fats -> ObjectSet] /\ CallKnows /\ VolDrive
    BY DEF Mounting, VolShapes, Windows
  <1>3. /\ vcall.op = "mount" /\ f \in Fats \ up /\ p \in Parts /\ fat[f].part = p
    BY <1>1 DEF Mounting, CallKnows, VolShapes, CallObjects
  <1>4. \A g : Active(g) <=> g \in up  BY <1>1 DEF Active, Writing
  <1>5. CASE UNCHANGED <<fat, win, up>>
    <2>1. \A g : Active(g)' <=> g \in up  BY <1>1, <1>5 DEF Active, Writing
    <2>2. Quiet  BY <1>1, <1>4, <1>5, <2>1 DEF Quiet
    <2> QED BY <2>2, QuietCounts
  <1>6. CASE /\ Vol!Accepts(i) /\ up' = up \cup {f} /\ fat' = [fat EXCEPT ![f] = o]
             /\ o = [fat[f] EXCEPT !.next = head, !.last_used = i.next_free, !.free_cnt = i.free_cnt]
             /\ win' = [win EXCEPT ![f] = Placed(win[f], 0)]
    <2>1. \A g : Active(g)' <=> g = f \/ g \in up  BY <1>1, <1>6 DEF Active, Writing
    <2>2. /\ o.part = p /\ o.last_used = i.next_free /\ o.free_cnt = i.free_cnt
      <3>1. PICK r, a, b : r = fat[f] /\ a = i.next_free /\ b = i.free_cnt  OBVIOUS
      <3>2. r \in ObjectSet /\ o = [r EXCEPT !.next = head, !.last_used = a, !.free_cnt = b]
        BY <1>2, <1>3, <1>6, <3>1
      <3>3. o.part = r.part /\ o.last_used = a /\ o.free_cnt = b  BY <3>2 DEF ObjectSet
      <3> QED BY <1>3, <3>1, <3>3
    <2> HIDE DEF i
    <2>3. fat'[f] = o /\ \A g \in up : g # f /\ g \in Fats /\ fat'[g] = fat[g] /\ win'[g] = win[g]
      BY <1>2, <1>3, <1>6
    <2>4. win[f] \in WindowSet /\ win'[f] = Placed(win[f], 0)  BY <1>2, <1>3, <1>6
    <2>5. win'[f].sect = 0 /\ (win'[f].dirty <=> win[f].dirty)  BY <2>4, WindowIs
    <2>6. Vol!InfoStaysGood'
      BY <1>1 DEF Counting, Vol!InfoStaysGood, Vol!Honest, Vol!Accepts, Vol!Unknown
    <2>7. ASSUME Vol!Honest(given, p) PROVE Telling(f)'
      <3>1. Vol!Accepts(i) /\ i.free_cnt >= Cardinality(vdrive.free[p])
        BY <1>3, <2>7, SameCount DEF Counting, Vol!InfoStaysGood, Vol!Honest, i
      <3>2. SeenFree(vdrive', win'[f], fat'[f]) = vdrive.free[p]  BY <1>1, <2>2, <2>3, <2>5 DEF SeenFree
      <3>3. o.last_used # Vol!Unknown /\ o.free_cnt # Vol!Unknown  BY <2>2, <3>1 DEF Vol!Accepts
      <3>4. fat'[f].info_sect # 0
        <4>1. PICK k \in 0 .. 4 : AreasFrom(f, k)  BY <1>1, <1>3 DEF Mounting, AreasFit
        <4>2. fat[f].info_sect = k + 1  BY <4>1 DEF AreasFrom
        <4>3. o.info_sect = fat[f].info_sect
          <5>1. PICK r, a, b : r = fat[f] /\ a = i.next_free /\ b = i.free_cnt  OBVIOUS
          <5>2. r \in ObjectSet /\ o = [r EXCEPT !.next = head, !.last_used = a, !.free_cnt = b]
            BY <1>2, <1>3, <1>6, <5>1
          <5>3. o.info_sect = r.info_sect  BY <5>2 DEF ObjectSet
          <5> QED BY <5>1, <5>3
        <4> QED BY <2>3, <4>2, <4>3
      <3> QED BY <2>2, <2>3, <2>5, <3>1, <3>2, <3>3, <3>4 DEF Telling, Vol!Unknown
    <2>8. ASSUME NEW g \in Fats, Active(g)', Vol!Honest(given, fat[g].part)' PROVE Telling(g)'
      <3>1. Vol!Honest(given, fat'[g].part)
        BY <1>1, <2>8 DEF Vol!Honest, Vol!Accepts, Vol!Unknown
      <3>2. CASE g = f  BY <2>2, <2>3, <2>7, <3>1, <3>2
      <3>3. CASE g # f
        <4>1. g \in up /\ fat'[g] = fat[g] /\ win'[g] = win[g]  BY <2>1, <2>3, <2>8, <3>3
        <4>2. Telling(g)  BY <1>4, <3>1, <4>1 DEF Counting
        <4>3. Telling(g)'  BY <1>1, <4>1, <4>2 DEF Telling, Vol!Unknown, SeenFree
        <4> QED BY <4>3
      <3> QED BY <3>2, <3>3
    <2>9. ASSUME NEW g \in Fats, win'[g].dirty PROVE g \in left' \/ (Active(g)' /\ win'[g].sect # 0)
      <3>1. CASE g = f
        <4>1. f \in left  BY <1>3, <1>4, <2>5, <2>9, <3>1 DEF Counting
        <4> QED BY <1>1, <3>1, <4>1
      <3>2. CASE g # f
        <4>1. win'[g] = win[g]  BY <1>2, <1>6, <2>9, <3>2
        <4> QED BY <1>1, <1>4, <2>1, <2>9, <4>1 DEF Counting
      <3> QED BY <3>1, <3>2
    <2> QED BY <2>6, <2>8, <2>9 DEF Counting
  <1> QED BY <1>1, <1>5, <1>6

(* A written buffer leaves FSINFO right where it was.                      *)
LEMMA WrittenCounts ==
    ASSUME VolumeAssumption, Mounting, Counting, NEW f \in Fats, Active(f), win[f].dirty,
           NEW q \in Parts, Vol!Honest(given, q)
    PROVE  Vol!Honest(Vol!Written(f), q)
  <1> DEFINE d == Vol!Written(f)
             p == fat[f].part
             w == win[f]
  <1>1. VolDrive /\ fat[f] \in ObjectSet /\ w \in WindowSet  BY DEF Mounting, VolShapes, Windows
  <1>2. /\ \A r \in Parts : r # p => d.info[r] = vdrive.info[r] /\ d.free[r] = vdrive.free[r]
        /\ d.free[p] = IF w.sect \in {0, fat[f].info_sect} THEN vdrive.free[p] ELSE vdrive.free[p] \ w.buf.marks
        /\ d.info[p].sigs = vdrive.info[p].sigs
        /\ IF w.sect # 0 /\ w.sect = fat[f].info_sect
           THEN d.info[p].next_free = w.buf.next_free /\ d.info[p].free_cnt = w.buf.free_cnt
           ELSE d.info[p] = vdrive.info[p]
    BY <1>1, WrittenIs
  <1>3. Vol!Accepts(vdrive.info[q]) /\ vdrive.info[q].free_cnt >= Cardinality(vdrive.free[q])
    BY SameCount DEF Counting, Vol!InfoStaysGood, Vol!Honest
  <1> HIDE DEF d
  <1>4. CASE q # p  BY <1>2, <1>3, <1>4, SameCount DEF Vol!Honest, d
  <1>5. CASE q = p /\ w.sect # 0 /\ w.sect = fat[f].info_sect
    <2>1. Telling(f)  BY <1>5 DEF Counting
    <2>2. /\ w.buf.next_free # Vol!Unknown /\ w.buf.free_cnt # Vol!Unknown
          /\ w.buf.free_cnt >= Cardinality(vdrive.free[p])
      BY <1>5, <2>1 DEF Telling
    <2>3. d.free[p] = vdrive.free[p]  BY <1>2, <1>5
    <2>4. vdrive.info[p].sigs  BY <1>3, <1>5 DEF Vol!Accepts
    <2>5. d.info[p].sigs /\ d.info[p].next_free # Vol!Unknown /\ d.info[p].free_cnt # Vol!Unknown
      BY <1>2, <1>5, <2>2, <2>4
    <2>6. Vol!Accepts(d.info[p])  BY <2>5 DEF Vol!Accepts
    <2>7. d.info[p].free_cnt >= Cardinality(d.free[p])  BY <1>2, <1>5, <2>2, <2>3
    <2> QED BY <1>5, <2>6, <2>7, SameCount DEF Vol!Honest, d
  <1>6. CASE q = p /\ ~(w.sect # 0 /\ w.sect = fat[f].info_sect)
    <2>1. d.info[p] = vdrive.info[p]  BY <1>2, <1>6
    <2>2. d.free[p] \subseteq vdrive.free[p]  BY <1>2
    <2>3. IsFiniteSet(vdrive.free[p])  BY <1>1, <1>6, DriveShape
    <2>4. /\ Cardinality(d.free[p]) <= Cardinality(vdrive.free[p])
          /\ Cardinality(d.free[p]) \in Nat /\ Cardinality(vdrive.free[p]) \in Nat
      <3>1. IsFiniteSet(d.free[p])  BY <2>2, <2>3, FS_Subset
      <3> QED BY <2>2, <2>3, <3>1, FS_Subset, FS_CardinalityType
    <2>5. vdrive.info[p].free_cnt \in Nat
      <3>1. vdrive.info[p] \in Vol!FsInfo  BY <1>1, <1>6, DriveShape
      <3> QED BY <3>1, VolumeConstants DEF Vol!FsInfo
    <2>6. vdrive.info[p].free_cnt >= Cardinality(d.free[p])
      <3> DEFINE x == vdrive.info[p].free_cnt
                 y == Cardinality(vdrive.free[p])
                 z == Cardinality(d.free[p])
      <3>1. x \in Nat /\ y \in Nat /\ z \in Nat /\ x >= y /\ z <= y  BY <1>3, <1>6, <2>4, <2>5
      <3> HIDE DEF x, y, z
      <3>2. x >= z  BY <3>1
      <3> QED BY <3>2 DEF x, z
    <2> QED BY <1>3, <1>6, <2>1, <2>6, SameCount DEF Vol!Honest, d
  <1> QED BY <1>4, <1>5, <1>6

(* Marking a cluster takes one from what is free and from the count.       *)
LEMMA MarkCounts ==
    ASSUME VolumeAssumption, NEW x \in Vol!Numbers, x # Vol!Unknown, NEW S, IsFiniteSet(S), NEW c \in S,
           x >= Cardinality(S)
    PROVE  /\ (x - 1) % Wrap # Vol!Unknown /\ (x - 1) % Wrap >= Cardinality(S \ {c})
  <1>1. Cardinality(S \ {c}) = Cardinality(S) - 1 /\ IsFiniteSet(S \ {c})  BY FS_RemoveElement
  <1> DEFINE n == Cardinality(S)
             m == Cardinality(S \ {c})
  <1>2. n \in Nat /\ m \in Nat /\ m = n - 1  BY <1>1, FS_CardinalityType
  <1>3. Wrap \in Nat /\ Wrap > 1 /\ x \in 0 .. (Wrap - 1) /\ Vol!Unknown = Wrap - 1 /\ x >= n
    BY VolumeConstants DEF Vol!Unknown
  <1> HIDE DEF n, m
  <1>4. x - 1 \in 0 .. (Wrap - 1)  BY <1>2, <1>3
  <1>5. \A y \in 0 .. (Wrap - 1) : y % Wrap = y  BY <1>3
  <1>6. (x - 1) % Wrap = x - 1  BY <1>4, <1>5
  <1>7. x - 1 # Wrap - 1 /\ x - 1 >= m  BY <1>2, <1>3
  <1> QED BY <1>3, <1>6, <1>7 DEF m

(* What the object that writes knows stays right.                          *)
LEMMA WriterCounts ==
    ASSUME VolumeAssumption, Mounting, Counting, NEW f, NEW o, NEW w, Wrote(f, o, w), Telling(f)
    PROVE  Telling(f)'
  <1>1. /\ f \in Fats /\ f = vcall.fat /\ vpc \in Writing /\ MovedBy(f, o) /\ w \in WindowSet
        /\ vdrive' = o.drive /\ WroteAs(f, o, w)
    BY DEF Wrote
  <1>2. /\ win'[f] = w /\ fat'[f].part = fat[f].part /\ fat'[f].info_sect = fat[f].info_sect
    BY <1>1, WroteLeaves
  <1> DEFINE r == fat[f]
             p == r.part
             s == SeenFree(vdrive, win[f], r)
  <1>3. /\ VolDrive /\ r \in ObjectSet /\ win[f] \in WindowSet /\ r.info_sect # 0 /\ vcall.clust \in Vol!Numbers
        /\ (~win[f].dirty => win[f].buf = Vol!Nothing)
    BY <1>1, WriterIs
  <1>4. /\ o.drive \in {vdrive, Vol!Written(f)}
        /\ o.win.dirty => o.win.sect = win[f].sect /\ o.win.buf = win[f].buf /\ win[f].dirty
        /\ SeenFree(o.drive, o.win, r) = s
    BY <1>1 DEF MovedBy
  <1>5. r.last_used # Vol!Unknown /\ r.free_cnt # Vol!Unknown /\ r.free_cnt >= Cardinality(s)
    BY DEF Telling
  <1>6. p \in Parts /\ s \subseteq vdrive.free[p]  BY <1>3 DEF ObjectSet, SeenFree
  <1> HIDE DEF r, s
  <1>7. CASE fat' = fat /\ w.dirty = o.win.dirty /\ w.sect = o.win.sect /\ w.buf = o.win.buf
    <2>1. SeenFree(vdrive', w, r) = s  BY <1>1, <1>4, <1>7 DEF SeenFree
    <2>2. w.dirty /\ w.sect = r.info_sect =>
            /\ w.buf.next_free # Vol!Unknown /\ w.buf.free_cnt # Vol!Unknown
            /\ w.buf.free_cnt >= Cardinality(vdrive'.free[p])
      <3> SUFFICES ASSUME w.dirty, w.sect = r.info_sect
                   PROVE  /\ w.buf.next_free # Vol!Unknown /\ w.buf.free_cnt # Vol!Unknown
                          /\ w.buf.free_cnt >= Cardinality(vdrive'.free[p])
        OBVIOUS
      <3>1. o.win.dirty  BY <1>7
      <3>2. win[f].dirty /\ win[f].sect = r.info_sect /\ w.buf = win[f].buf  BY <1>4, <1>7, <3>1
      <3>3. /\ win[f].buf.next_free # Vol!Unknown /\ win[f].buf.free_cnt # Vol!Unknown
            /\ win[f].buf.free_cnt >= Cardinality(vdrive.free[p])
        BY <3>2 DEF Telling, r
      <3>4. Vol!Written(f).free[p] = vdrive.free[p]
        <4>1. Vol!Written(f).free[p] = IF win[f].sect \in {0, r.info_sect} THEN vdrive.free[p]
                                       ELSE vdrive.free[p] \ win[f].buf.marks
          BY <1>1, <1>3, WrittenIs DEF r
        <4> QED BY <3>2, <4>1
      <3>5. vdrive'.free[p] = vdrive.free[p]  BY <1>1, <1>4, <3>4
      <3> QED BY <3>2, <3>3, <3>5
    <2> QED BY <1>2, <1>5, <1>7, <2>1, <2>2 DEF Telling, Vol!Unknown, r
  <1>8. CASE /\ fat' = fat /\ w.dirty /\ w.sect = o.win.sect /\ w.sect \notin {0, r.info_sect}
             /\ w.buf = o.win.buf
    <2>1. SeenFree(vdrive', w, r) = s  BY <1>1, <1>4, <1>8 DEF SeenFree
    <2> QED BY <1>2, <1>5, <1>8, <2>1 DEF Telling, Vol!Unknown, r
  <1>9. CASE /\ fat' = fat /\ w.dirty /\ w.sect = o.win.sect /\ w.sect = r.info_sect /\ w.sect # 0
             /\ w.buf.next_free = r.last_used /\ w.buf.free_cnt = r.free_cnt
    <2>1. SeenFree(vdrive', w, r) = s /\ vdrive'.free[p] = s  BY <1>1, <1>4, <1>9 DEF SeenFree
    <2> QED BY <1>2, <1>5, <1>9, <2>1 DEF Telling, Vol!Unknown, r
  <1>10. CASE /\ fat' = [fat EXCEPT ![f] = Marked(r, vcall.clust)] /\ vcall.clust \in s
              /\ w.dirty /\ w.sect = o.win.sect /\ w.sect \notin {0, r.info_sect}
              /\ w.buf.marks = o.win.buf.marks \cup {vcall.clust}
    <2>1. PICK c, x : c = vcall.clust /\ x = Marked(r, c)  OBVIOUS
    <2>2. fat'[f] = x
      <3>1. fat \in [Fats -> ObjectSet]  BY DEF Mounting, VolShapes
      <3> QED BY <1>1, <1>10, <2>1, <3>1
    <2>3. x.part = p /\ x.info_sect = r.info_sect /\ x.last_used = c /\ x.free_cnt = (r.free_cnt - 1) % Wrap
      <3>1. PICK n : n = (r.free_cnt - 1) % Wrap  OBVIOUS
      <3>2. x = [r EXCEPT !.last_used = c, !.free_cnt = n]  BY <2>1, <3>1 DEF Marked
      <3>3. x.part = r.part /\ x.info_sect = r.info_sect /\ x.last_used = c /\ x.free_cnt = n
        BY <1>3, <3>2 DEF ObjectSet
      <3> QED BY <3>1, <3>3
    <2>4. SeenFree(vdrive', w, x) = s \ {c}
      BY <1>1, <1>4, <1>10, <2>1, <2>3 DEF SeenFree
    <2>5. IsFiniteSet(s)  BY <1>3, <1>6, DriveShape, FS_Subset
    <2>6. r.free_cnt \in Vol!Numbers  BY <1>3 DEF ObjectSet
    <2>7. x.free_cnt # Vol!Unknown /\ x.free_cnt >= Cardinality(s \ {c})
      <3>1. c \in s  BY <1>10, <2>1
      <3>2. r.free_cnt # Vol!Unknown /\ r.free_cnt >= Cardinality(s)  BY <1>5
      <3>3. /\ (r.free_cnt - 1) % Wrap # Vol!Unknown
            /\ (r.free_cnt - 1) % Wrap >= Cardinality(s \ {c})
        BY <2>5, <2>6, <3>1, <3>2, MarkCounts
      <3> QED BY <2>3, <3>3
    <2>8. c # Vol!Unknown
      <3> DEFINE last == vdrive.bpb.spf * Epc
      <3>1. c \in 2 .. (last - 1) /\ last < Wrap  BY <1>3, <1>6, <1>10, <2>1 DEF VolDrive, Fitting
      <3>2. last \in Nat /\ Wrap \in Nat
        <4>1. vdrive.bpb.spf \in Nat /\ Epc \in Nat /\ Wrap \in Nat
          BY <1>3, DriveShape, VolumeConstants DEF Vol!Bpb
        <4> QED BY <4>1
      <3> HIDE DEF last
      <3> QED BY <3>1, <3>2 DEF Vol!Unknown
    <2> QED BY <1>2, <1>10, <2>2, <2>3, <2>4, <2>7, <2>8 DEF Telling, Vol!Unknown
  <1> QED BY <1>1, <1>7, <1>8, <1>9, <1>10 DEF WroteAs, r, s

LEMMA WroteCounts ==
    ASSUME VolumeAssumption, Mounting, Counting, NEW f, NEW o, NEW w, Wrote(f, o, w)
    PROVE  Counting'
  <1>1. /\ f \in Fats /\ f = vcall.fat /\ vpc \in Writing /\ MovedBy(f, o) /\ w \in WindowSet
        /\ vdrive' = o.drive /\ WroteAs(f, o, w) /\ WroteOn(f, o, w)
    BY DEF Wrote
  <1>2. /\ VolDrive /\ fat[f] \in ObjectSet /\ win[f] \in WindowSet /\ fat[f].info_sect # 0 /\ Active(f) /\ CallKnows
    BY <1>1, WriterIs
  <1>3. /\ \A g \in Fats : fat'[g].part = fat[g].part /\ fat'[g].info_sect = fat[g].info_sect
        /\ win'[f] = w /\ (\A g \in Fats : g # f => win'[g] = win[g])
        /\ up' = up /\ given' = given /\ (\A g : Active(g)' => Active(g))
    BY WroteLeaves
  <1>4. o.drive \in {vdrive, Vol!Written(f)} /\ (o.drive # vdrive => win[f].dirty)  BY <1>1 DEF MovedBy
  <1>5. fat \in [Fats -> ObjectSet]  BY DEF Mounting, VolShapes
  <1>6. Vol!InfoStaysGood'
    <2> SUFFICES ASSUME NEW q \in Parts, Vol!Honest(given, q) PROVE Vol!Honest(o.drive, q)
      BY <1>1, <1>3 DEF Vol!InfoStaysGood, Vol!Honest, Vol!Accepts, Vol!Unknown
    <2>1. CASE o.drive = vdrive  BY <2>1 DEF Counting, Vol!InfoStaysGood
    <2>2. CASE o.drive # vdrive
      <3>1. win[f].dirty /\ o.drive = Vol!Written(f)  BY <1>4, <2>2
      <3>2. Vol!Honest(Vol!Written(f), q)  BY <1>1, <1>2, <3>1, WrittenCounts
      <3> QED BY <3>1, <3>2
    <2> QED BY <2>1, <2>2
  <1>7. ASSUME NEW g \in Fats, Active(g)', Vol!Honest(given, fat[g].part)' PROVE Telling(g)'
    <2>1. Active(g) /\ fat'[g].part = fat[g].part  BY <1>3, <1>7
    <2>2. Vol!Honest(given, fat[g].part)  BY <1>3, <1>7, <2>1 DEF Vol!Honest, Vol!Accepts, Vol!Unknown
    <2>3. Telling(g)  BY <2>1, <2>2 DEF Counting
    <2>4. CASE g = f  BY <2>3, <2>4, WriterCounts
    <2>5. CASE g # f
      <3>1. win'[g] = win[g] /\ fat'[g] = fat[g]
        <4>1. win'[g] = win[g]  BY <1>3, <2>5
        <4>2. fat' = fat \/ \E x : fat' = [fat EXCEPT ![f] = x]  BY <1>1 DEF WroteAs
        <4>3. CASE fat' = fat  BY <4>1, <4>3
        <4>4. ASSUME NEW x, fat' = [fat EXCEPT ![f] = x] PROVE fat'[g] = fat[g]  BY <1>5, <2>5, <4>4
        <4> QED BY <4>1, <4>2, <4>3, <4>4
      <3>2. PICK q : q = fat[g].part  OBVIOUS
      <3>3. q \in Parts /\ q # fat[f].part
        <4>1. fat[g].part \in Parts  BY <1>5 DEF ObjectSet
        <4>2. fat[g].part # fat[f].part  BY <1>1, <1>2, <2>1, <2>5 DEF Mounting, PartsApart
        <4> QED BY <3>2, <4>1, <4>2
      <3>4. vdrive'.free[q] = vdrive.free[q]
        <4>1. Vol!Written(f).free[q] = vdrive.free[q]  BY <1>1, <1>2, <3>3, WrittenIs
        <4> QED BY <1>1, <1>4, <4>1
      <3>5. SeenFree(vdrive', win'[g], fat'[g]) = SeenFree(vdrive, win[g], fat[g])  BY <3>1, <3>2, <3>4 DEF SeenFree
      <3> QED BY <2>3, <3>1, <3>2, <3>4, <3>5 DEF Telling, Vol!Unknown
    <2> QED BY <2>4, <2>5
  <1>8. ASSUME NEW g \in Fats, win'[g].dirty PROVE g \in left' \/ (Active(g)' /\ win'[g].sect # 0)
    <2>1. left \subseteq left'  BY <1>1 DEF WroteOn
    <2>2. CASE g = f
      <3>1. CASE w.dirty = o.win.dirty /\ w.sect = o.win.sect /\ o.win.dirty
        <4>1. win[f].dirty /\ w.sect = win[f].sect  BY <1>1, <3>1 DEF MovedBy
        <4>2. f \in left \/ w.sect # 0  BY <1>1, <4>1 DEF Counting
        <4>3. f \in left' \/ Active(f)'
          <5>1. CASE vpc' = "idle" /\ vcall.op = "umount"
            <6>1. w.dirty  BY <1>3, <1>8, <2>2
            <6> QED BY <1>1, <5>1, <6>1 DEF WroteOn, Writing
          <5>2. CASE vpc' = "idle" /\ vcall.op # "umount"
            BY <1>1, <1>2, <1>3, <5>2 DEF CallKnows, Active
          <5>3. CASE vpc' # "idle"  BY <1>1, <5>3 DEF WroteOn, Active
          <5> QED BY <5>1, <5>2, <5>3
        <4> QED BY <1>3, <2>1, <2>2, <4>2, <4>3
      <3>2. CASE w.sect # 0
        <4>1. f \in left' \/ Active(f)'
          <5>1. CASE vpc' = "idle" /\ vcall.op = "umount"
            <6>1. w.dirty  BY <1>3, <1>8, <2>2
            <6> QED BY <1>1, <5>1, <6>1 DEF WroteOn, Writing
          <5>2. CASE vpc' = "idle" /\ vcall.op # "umount"
            BY <1>1, <1>2, <1>3, <5>2 DEF CallKnows, Active
          <5>3. CASE vpc' # "idle"  BY <1>1, <5>3 DEF WroteOn, Active
          <5> QED BY <5>1, <5>2, <5>3
        <4> QED BY <1>3, <2>2, <3>2, <4>1
      <3>3. w.dirty  BY <1>3, <1>8, <2>2
      <3> QED BY <1>1, <3>1, <3>2, <3>3 DEF WroteAs
    <2>3. CASE g # f
      <3>1. win'[g] = win[g]  BY <1>3, <2>3
      <3>2. g \in left \/ (Active(g) /\ win[g].sect # 0)  BY <1>8, <3>1 DEF Counting
      <3>3. Active(g) => Active(g)'  BY <1>1, <1>3, <2>3 DEF Active
      <3> QED BY <2>1, <3>1, <3>2, <3>3
    <2> QED BY <2>2, <2>3
  <1> QED BY <1>6, <1>7, <1>8 DEF Counting

LEMMA CountingKeeps ==
    ASSUME VolumeAssumption, Mounting, Counting, [Vol!Next]_Vol!vars PROVE Counting'
  <1>1. CASE \/ UNCHANGED Vol!vars
             \/ Vol!BeginProbe \/ Vol!BeginMount \/ Vol!BeginSync \/ Vol!Find \/ Vol!BeginScan
             \/ Vol!Umount \/ Vol!Fails \/ Vol!Panic \/ Vol!ProbeZero \/ Vol!ProbePart
    BY <1>1, QuietSteps, QuietCounts
  <1>2. CASE Vol!ReadInfo  BY <1>2, ReadInfoCounts
  <1>3. CASE Vol!Scan \/ Vol!Copy \/ Vol!Mark \/ Vol!Flush \/ Vol!Tell \/ Vol!Told
    BY <1>3, VolumeWrites, WroteCounts
  <1> QED BY <1>1, <1>2, <1>3, Zenon DEF Vol!Next, Vol!Steps

LEMMA CountedWell ==
    ASSUME Vol!MountAssumption, Vol!NobodyAssumption PROVE Vol!Spec => [](Mounting /\ Counting)
  <1>1. VolumeAssumption  BY DEF VolumeAssumption
  <1>2. Vol!Init => Mounting /\ Counting  BY <1>1, VolumeStarts, CountingStarts
  <1>3. Mounting /\ Counting /\ [Vol!Next]_(Vol!vars) => (Mounting /\ Counting)'
    BY <1>1, VolumesKeep, CountingKeeps
  <1> QED BY <1>2, <1>3, PTL DEF Vol!Spec

(* FSINFO of a volume that came with one fat_mount accepts, and a count of *)
(* free clusters not too low, stays so while clusters are only taken, in   *)
(* whatever order files are made and volumes mounted and unmounted, and    *)
(* whichever transfers fail: neither stretch_chain nor sync_fs brings the  *)
(* count or next_free to the value that stands for an unknown one, on the  *)
(* medium, in an object or in a buffer still to be written.                *)
THEOREM InfoIsKept ==
    ASSUME Vol!MountAssumption, Vol!NobodyAssumption PROVE Vol!Spec => []Vol!InfoStaysGood
  <1>1. Mounting /\ Counting => Vol!InfoStaysGood  BY DEF Counting
  <1> QED BY <1>1, CountedWell, PTL

(* The first sector of the drive is written only by an object of which an  *)
(* unmounting had failed before: whatever transfers fail, sync_buf writes  *)
(* no other object's buffer there, so boot sector and partition table stay *)
(* what they are until such an object is mounted again.                    *)
THEOREM FirstSectorIsKept ==
    ASSUME Vol!MountAssumption, Vol!NobodyAssumption PROVE Vol!Spec => Vol!FirstSectorKept
  <1>1. VolumeAssumption  BY DEF VolumeAssumption
  <1>2. ASSUME Mounting, Counting, [Vol!Next]_(Vol!vars), vdrive'.zero # vdrive.zero PROVE vcall.fat \in left
    <2>1. CASE Vol!Scan \/ Vol!Copy \/ Vol!Mark \/ Vol!Flush \/ Vol!Tell \/ Vol!Told
      <3>1. PICK f, o, w : Wrote(f, o, w)  BY <1>1, <1>2, <2>1, VolumeWrites
      <3>2. f \in Fats /\ f = vcall.fat /\ vpc \in Writing /\ MovedBy(f, o) /\ vdrive' = o.drive  BY <3>1 DEF Wrote
      <3>3. VolDrive /\ fat[f] \in ObjectSet /\ win[f] \in WindowSet  BY <1>1, <1>2, <3>2, WriterIs
      <3>4. vdrive' = Vol!Written(f) /\ win[f].dirty  BY <1>2, <3>2 DEF MovedBy
      <3>5. win[f].sect = 0
        <4>1. Vol!Written(f).zero = IF win[f].sect = 0 THEN "none" ELSE vdrive.zero
          BY <1>1, <3>2, <3>3, WrittenIs
        <4> QED BY <1>2, <3>4, <4>1
      <3> QED BY <1>2, <3>2, <3>4, <3>5 DEF Counting
    <2>2. CASE Vol!ReadInfo
      <3>1. vdrive' = vdrive  BY <2>2 DEF Vol!ReadInfo
      <3> QED BY <1>2, <3>1
    <2>3. CASE \/ UNCHANGED Vol!vars
               \/ Vol!BeginProbe \/ Vol!BeginMount \/ Vol!BeginSync \/ Vol!Find \/ Vol!BeginScan
               \/ Vol!Umount \/ Vol!Fails \/ Vol!Panic \/ Vol!ProbeZero \/ Vol!ProbePart
      BY <1>1, <1>2, <2>3, QuietSteps DEF Quiet
    <2> QED BY <1>2, <2>1, <2>2, <2>3, Zenon DEF Vol!Next, Vol!Steps
  <1>3. Mounting /\ Counting /\ [Vol!Next]_(Vol!vars)
          => [vdrive'.zero # vdrive.zero => vcall.fat \in left]_(Vol!vars)
    BY <1>2, Zenon
  <1> QED BY <1>3, CountedWell, PTL DEF Vol!Spec, Vol!FirstSectorKept

-----------------------------------------------------------------------------
(* Gpt: gpc is where the search is. *)
CONSTANTS SectBytes, Disks, DiskSects
VARIABLES disk, gpc, sec, pps, i, out, wild, gfaults

Gp == INSTANCE Gpt WITH pc <- gpc, faults <- gfaults, Sectors <- DiskSects

(* Where the search for the first entry is. *)
FirstAhead ==
    \/ gpc = "start" /\ i = 0
    \/ gpc = "check" /\ i = 0 /\ sec = 1
    \/ gpc = "loop" /\ i = 0 /\ sec = 1 /\ pps = SectBytes \div disk.size
    \/ gpc = "look" /\ i = 0 /\ sec = disk.lba /\ pps = SectBytes \div disk.size
    \/ gpc = "done" /\ out = disk.table[1].first

Searching == /\ disk \in Disks /\ gfaults \in Nat
             /\ Gp!Sound /\ gfaults = 0 /\ disk.table[1].type = "esp" => FirstAhead

LEMMA Shares ==
    ASSUME NEW m \in Nat, m >= 1
    PROVE  0 \div m = 0 /\ 0 % m = 0 /\ \A z \in Nat : z \div m \in Nat /\ (z >= m => z \div m >= 1)
  <1>1. 0 \div m = 0  OBVIOUS
  <1>2. 0 % m = 0  OBVIOUS
  <1>3. ASSUME NEW z \in Nat PROVE z \div m \in Nat  OBVIOUS
  <1>4. ASSUME NEW z \in Nat, z >= m PROVE z \div m >= 1  BY <1>4
  <1> QED BY <1>1, <1>2, <1>3, <1>4

LEMMA SearchKeeps == ASSUME Gp!GptAssumption, Searching, Gp!Next PROVE Searching'
  <1>0. SectBytes \in Nat /\ DiskSects \in Nat /\ DiskSects > 1 /\ MaxFaults \in Nat
    BY DEF Gp!GptAssumption
  <1>1. disk' = disk /\ disk \in Disks /\ gfaults \in Nat
    BY DEF Searching, Gp!Next, Gp!ReadHeader, Gp!CheckHeader, Gp!Loop, Gp!Look
  <1>2. gfaults' \in {gfaults, gfaults + 1}
    BY DEF Gp!Next, Gp!ReadHeader, Gp!CheckHeader, Gp!Loop, Gp!Look, Gp!Reads
  <1>3. Gp!Sound' <=> Gp!Sound  BY <1>1 DEF Gp!Sound
  <1> SUFFICES ASSUME Gp!Sound, gfaults' = 0, disk.table[1].type = "esp" PROVE FirstAhead'
    BY <1>1, <1>2, <1>3 DEF Searching
  <1>4. gfaults = 0 /\ gfaults' = gfaults /\ FirstAhead  BY <1>1, <1>2 DEF Searching
  <1> DEFINE n == SectBytes \div disk.size
  <1>5. /\ disk.sig /\ disk.count \in 1 .. 512 /\ disk.size \in 128 .. SectBytes /\ disk.table # <<>>
        /\ disk.lba \in Nat /\ disk.lba + disk.count \div n < DiskSects
        /\ disk.table \in Seq(Gp!Entries)
    BY <1>1 DEF Gp!Sound, Gp!GptAssumption, Gp!MinSize
  <1>5a. disk.count \in 1 .. 512 /\ disk.lba \in Nat  BY <1>5, Zenon
  <1>6. n \in Nat /\ n >= 1
    <2> DEFINE z == disk.size
    <2>1. z \in Nat /\ z >= 1 /\ SectBytes >= z /\ SectBytes \in Nat  BY <1>0, <1>5
    <2> HIDE DEF z
    <2>2. SectBytes \div z \in Nat /\ SectBytes \div z >= 1  BY <2>1, Shares
    <2> QED BY <2>2 DEF z
  <1>7. 0 % n = 0 /\ 0 \div n = 0 /\ disk.count \div n \in Nat
    <2> DEFINE z == disk.count
    <2>1. z \in Nat  BY <1>5a
    <2> HIDE DEF n, z
    <2>2. 0 % n = 0 /\ 0 \div n = 0 /\ z \div n \in Nat  BY <1>6, <2>1, Shares
    <2> QED BY <2>2 DEF z
  <1>8. disk.lba < DiskSects
    <2> DEFINE x == disk.count \div n
    <2>1. x \in Nat /\ disk.lba \in Nat /\ disk.lba + x < DiskSects  BY <1>5, <1>7
    <2> HIDE DEF x
    <2> QED BY <1>0, <2>1
  <1>9. Gp!ReadHeader \/ Gp!CheckHeader \/ Gp!Loop \/ Gp!Look  BY Zenon DEF Gp!Next
  <1> HIDE DEF n
  <1>10. ASSUME NEW s \in Nat, NEW l, s < DiskSects, Gp!Reads(s, l)
         PROVE  sec' = s /\ gpc' = l /\ i' = i /\ pps' = pps
    BY <1>0, <1>4, <1>10 DEF Gp!Reads
  <1>11. CASE Gp!ReadHeader
    <2>1. gpc = "start" /\ Gp!Reads(1, "check")  BY <1>11 DEF Gp!ReadHeader
    <2>2. sec' = 1 /\ gpc' = "check" /\ i' = i  BY <1>0, <1>10, <2>1
    <2> QED BY <1>4, <2>1, <2>2 DEF FirstAhead
  <1>12. CASE Gp!CheckHeader
    <2>1. gpc = "check" /\ i = 0 /\ sec = 1  BY <1>4, <1>12 DEF Gp!CheckHeader, FirstAhead
    <2>2. Gp!CountIn(sec) = disk.count  BY <2>1 DEF Gp!CountIn
    <2>3. gpc' = "loop" /\ pps' = SectBytes \div disk.size /\ i' = i /\ sec' = sec
      BY <1>5, <1>12, <2>2 DEF Gp!CheckHeader, Gp!SizeOk, Gp!MinSize
    <2> QED BY <1>1, <2>1, <2>3 DEF FirstAhead
  <1>13. CASE Gp!Loop
    <2>1. gpc = "loop" /\ i = 0 /\ sec = 1 /\ pps = n  BY <1>4, <1>13 DEF Gp!Loop, FirstAhead, n
    <2>2. Gp!CountIn(sec) = disk.count /\ Gp!LbaIn(sec) = disk.lba  BY <2>1 DEF Gp!CountIn, Gp!LbaIn
    <2>3. ~(i >= Gp!CountIn(sec)) /\ Gp!NewSector(i) /\ Gp!LbaIn(sec) + i \div pps = disk.lba
      <3>1. ~(0 >= disk.count) /\ disk.lba + 0 = disk.lba  BY <1>5a
      <3>2. i \div pps = 0 /\ i % pps = 0  BY <1>7, <2>1
      <3> QED BY <2>1, <2>2, <3>1, <3>2 DEF Gp!NewSector
    <2>4. Gp!Reads(disk.lba, "look")  BY <1>13, <2>3 DEF Gp!Loop
    <2>5. sec' = disk.lba /\ gpc' = "look" /\ i' = i /\ pps' = pps  BY <1>5, <1>8, <1>10, <2>4
    <2> QED BY <1>1, <2>1, <2>5 DEF FirstAhead, n
  <1>14. CASE Gp!Look
    <2>1. gpc = "look" /\ i = 0 /\ sec = disk.lba /\ pps = n  BY <1>4, <1>14 DEF Gp!Look, FirstAhead, n
    <2>2. Len(disk.table) \in Nat /\ Len(disk.table) > 0 /\ disk.table[1] \in Gp!Entries
      BY <1>5
    <2>3. Gp!Index(sec) = 0 /\ Gp!InTable(sec)
      <3>1. sec - disk.lba = 0 /\ sec >= disk.lba  BY <1>5, <2>1
      <3>2. (sec - disk.lba) * pps = 0  BY <1>6, <2>1, <3>1
      <3> QED BY <2>2, <3>1, <3>2 DEF Gp!Index, Gp!InTable
    <2>4. Gp!EntryOf(sec, 0) = disk.table[1]  BY <2>3 DEF Gp!EntryOf
    <2>5. disk.table[1].asCount \in Nat  BY <2>2 DEF Gp!Entries
    <2>6. Gp!CountIn(sec) \in Nat
      <3>1. disk.count \in Nat  BY <1>5a
      <3> QED BY <2>4, <2>5, <3>1 DEF Gp!CountIn
    <2>7. Gp!Offset = 0  BY <1>7, <2>1, <2>6 DEF Gp!Offset
    <2>8. 0 % disk.size = 0 /\ 0 \div disk.size = 0 /\ ~(0 + 16 > SectBytes)
      <3> DEFINE z == disk.size
      <3>1. z \in 128 .. SectBytes  BY <1>5
      <3> HIDE DEF z
      <3>2. z \in Nat /\ z >= 1 /\ ~(0 + 16 > SectBytes)  BY <1>0, <3>1
      <3>3. 0 % z = 0 /\ 0 \div z = 0  BY <3>2, Shares
      <3> QED BY <3>2, <3>3 DEF z
    <2>9. gpc' = "done" /\ out' = disk.table[1].first
      BY <1>14, <2>4, <2>7, <2>8 DEF Gp!Look, Gp!Matches
    <2> QED BY <1>1, <2>9 DEF FirstAhead
  <1> QED BY <1>9, <1>11, <1>12, <1>13, <1>14

(* The partition that the Makefile makes the first of its table is found   *)
(* on every disk with a sound header and no failed read, although behind   *)
(* the header gpt_find_partition takes the names of partitions for it.     *)
THEOREM FirstIsAlwaysFound == ASSUME Gp!GptAssumption PROVE Gp!Spec => []Gp!FirstIsFound
  <1>1. Gp!Init => Searching
    <2> SUFFICES ASSUME NEW d \in Disks, Gp!Called(d) PROVE Searching  BY DEF Gp!Init
    <2> QED BY DEF Gp!Called, Searching, FirstAhead
  <1>2. Searching /\ [Gp!Next]_(Gp!vars) => Searching'
    <2>1. CASE Gp!Next /\ Searching  BY <2>1, SearchKeeps
    <2>2. CASE UNCHANGED Gp!vars  BY <2>2 DEF Gp!vars, Searching, FirstAhead, Gp!Sound
    <2> QED BY <2>1, <2>2
  <1>3. Searching => Gp!FirstIsFound  BY DEF Searching, FirstAhead, Gp!FirstIsFound
  <1> QED BY <1>1, <1>2, <1>3, PTL DEF Gp!Spec
=============================================================================
