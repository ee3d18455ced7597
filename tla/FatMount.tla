------------------------------ MODULE FatMount ------------------------------
(***************************************************************************)
(* Finding a FAT32 file system on a drive and mounting it: probe,          *)
(* check_fat, get_part_lba, fat_probe, fat_mount, fat_umount, fat_sync and *)
(* find_fat_volume of src/trfs/fat32/fat.c, and what the numbers taken     *)
(* from the medium mean for the search of a free cluster in stretch_chain. *)
(*                                                                         *)
(* The drives of Drives need not come from this system's build: other      *)
(* systems write boot sectors, partition tables and FSINFO too.  Each has  *)
(* one sort of volume, on the whole drive or in some of its partitions.    *)
(*                                                                         *)
(* A Fat object outlives its mounting: what an unmounting could not write  *)
(* is still in its buffer when it is mounted again.                        *)
(*                                                                         *)
(* The definition UnlinkedFirst stands before the one whose name it        *)
(* extends and is a mistake the code could have made.                      *)
(***************************************************************************)
EXTENDS Integers, FiniteSets

CONSTANTS
    Epc,        \* FAT entries in a sector (128)
    MinClusts,  \* clusters a FAT32 volume has at least (65525)
    Wrap,       \* 2^32
    Parts,      \* partition numbers (0 .. 3)
    Drives,     \* see DriveType
    Fats,       \* Fat objects; each is mounted with a name of its own
    MaxFaults   \* bound: transfers that fail

Numbers == 0 .. (Wrap - 1)
Unknown == Wrap - 1

(* What check_fat looks at: good stands for the fields with one right      *)
(* value.                                                                  *)
Bpb == [good : BOOLEAN, mirror : BOOLEAN, act : 0 .. 15, res : Numbers, spf : Numbers,
        spc : Numbers, total : Numbers]
FsInfo == [sigs : BOOLEAN, next_free : Numbers, free_cnt : Numbers]

(* The first sector is a boot sector, an MBR or neither.  A partition has  *)
(* the type 0x0c or not, and a volume in it or not; the whole drive counts *)
(* as partition 0.  Its FSINFO and the free entries of its FAT change.     *)
DriveType == [zero : {"bpb", "mbr", "none"}, type : [Parts -> BOOLEAN], holds : [Parts -> BOOLEAN],
              bpb : Bpb, info : [Parts -> FsInfo], free : [Parts -> SUBSET Numbers]]

(* Of the drives whose sectors and clusters can be numbered in 32 bits (of *)
(* others the sums of fat_mount would wrap), with FSINFO and the FATs      *)
(* behind the boot sector.  Others are not modelled.                       *)
MountAssumption ==
    /\ {Epc, MinClusts, Wrap, MaxFaults} \subseteq Nat /\ Wrap > 1 /\ Epc > 0 /\ IsFiniteSet(Fats)
    /\ Parts \subseteq 0 .. 3 /\ 0 \in Parts /\ Drives \subseteq DriveType
    /\ \A d \in Drives, p \in Parts : d.free[p] \subseteq 2 .. (d.bpb.spf * Epc - 1)
    /\ \A d \in Drives : /\ 5 + d.bpb.res + 2 * d.bpb.spf < Wrap /\ d.bpb.spf * Epc < Wrap
                         /\ d.bpb.res >= 2

Nobody == "nobody"
NobodyAssumption == Nobody \notin Fats

VARIABLES
    drive,
    pc, call,   \* the running call
    fat,        \* the Fat objects: the volume
    win,        \* the Fat objects: sect, flags and buf
    head,       \* g_fat_list
    up,         \* what was mounted and not unmounted since
    res,        \* the last call's result
    faults,
    given, left \* history: the drive as it was attached; the objects of
                \* unmountings that failed

vars == <<drive, pc, call, fat, win, head, up, res, faults, given, left>>

Blank == [next |-> Nobody, part |-> 0, fat_sect |-> <<0, 0>>, info_sect |-> 0, data_sect |-> 0,
          clust_cnt |-> 0, last_used |-> 0, free_cnt |-> 0]

(* What the buffer has that the medium has not: clusters marked as used,   *)
(* when it is a sector of the active FAT, or the values for FSINFO.        *)
Nothing == [marks |-> {}, next_free |-> 0, free_cnt |-> 0]

(* dirty is FAT_BUF_DIRTY and told FAT_INFO_DIRTY. *)
Unused == [sect |-> 0, dirty |-> FALSE, told |-> FALSE, buf |-> Nothing]

NoCall == [op |-> "none", part |-> 0, fat |-> Nobody, clust |-> 0]

(* Nothing is mounted from drive d. *)
Attached(d) ==
        /\ drive = d /\ pc = "idle" /\ call = NoCall /\ fat = [f \in Fats |-> Blank]
        /\ win = [f \in Fats |-> Unused] /\ head = Nobody /\ up = {} /\ res = "NONE"
        /\ faults = 0 /\ given = d /\ left = {}

Init == \E d \in Drives : Attached(d)

Returns(e) == pc' = "idle" /\ res' = e
Goes(l)    == pc' = l /\ UNCHANGED res
List       == <<head, up>>
History    == <<given, left>>

(* A transfer fails. *)
Fault == faults < MaxFaults /\ faults' = faults + 1
Fails == /\ pc \in {"zero", "part", "info"} /\ Fault /\ Returns("IO")
         /\ UNCHANGED <<drive, call, fat, win, List, History>>

-----------------------------------------------------------------------------
Begin(op, p, f) == /\ pc = "idle" /\ UNCHANGED <<drive, fat, List, History, faults>>
                   /\ call' = [NoCall EXCEPT !.op = op, !.part = p, !.fat = f]

(* fat_probe and fat_mount; callers mount an object, and a volume, once.   *)
BeginProbe == \E p \in Parts : Begin("probe", p, Nobody) /\ Goes("zero") /\ UNCHANGED win
BeginMount == \E f \in Fats \ up, p \in Parts \ {fat[g].part : g \in up} :
                Begin("mount", p, f) /\ Goes("zero") /\ UNCHANGED win

(* Sectors before the data. *)
Meta(b) == b.res + 2 * b.spf

(* check_fat: the number of clusters tells the FAT's type, when all else   *)
(* is right.  Nothing keeps sect_per_clust from being 0.                   *)
Divides(b) == b.good /\ (b.mirror \/ b.act <= 1)
DataClusts(b) == ((b.total - Meta(b)) % Wrap) \div b.spc

CheckFat(b) == Divides(b) /\ b.spc # 0 /\ DataClusts(b) >= MinClusts

(* The processor's exception, which stops the machine. *)
Panic == /\ \/ pc = "zero" /\ drive.zero = "bpb"
            \/ pc = "part" /\ drive.holds[call.part]
         /\ Divides(drive.bpb) /\ drive.bpb.spc = 0
         /\ Goes("panic") /\ UNCHANGED <<drive, call, fat, win, List, History, faults>>
Computes(b) == Divides(b) => b.spc # 0

(* The other copy. *)
Mirror(b, fat0, fat1) == IF b.act % 2 = 0 THEN fat1 ELSE fat0

(* What fat_mount takes from the boot sector at lba. *)
Geometry(f, lba) ==
    LET b    == drive.bpb
        fat0 == lba + b.res
        fat1 == lba + b.res + b.spf
    IN  [fat[f] EXCEPT
           !.part = call.part,
           !.fat_sect = <<IF b.act % 2 = 0 THEN fat0 ELSE fat1,
                          IF b.mirror THEN Mirror(b, fat0, fat1) ELSE 0>>,
           !.info_sect = lba + 1, !.data_sect = lba + Meta(b),
           !.clust_cnt = b.spf * Epc]

Probed(lba) ==
    IF call.op = "probe" THEN Returns("NONE") /\ UNCHANGED fat
    ELSE Goes("info") /\ fat' = [fat EXCEPT ![call.fat] = Geometry(call.fat, lba)]

(* Where partition p begins in these drives. *)
PartLba(p) == p + 1

GetPartLba == drive.zero = "mbr" /\ drive.type[call.part]

(* probe: the first sector is the volume, or names the partition.          *)
ProbeZero ==
    /\ pc = "zero" /\ UNCHANGED <<drive, call, win, List, History, faults>>
    /\ drive.zero = "bpb" => Computes(drive.bpb)
    /\ IF drive.zero = "bpb" /\ CheckFat(drive.bpb)
       THEN IF call.part = 0 THEN Probed(0) ELSE Returns("NOFAT") /\ UNCHANGED fat
       ELSE /\ IF GetPartLba THEN Goes("part") ELSE Returns("NOFAT")
            /\ UNCHANGED fat

ProbePart ==
    /\ pc = "part" /\ UNCHANGED <<drive, call, win, List, History, faults>>
    /\ drive.holds[call.part] => Computes(drive.bpb)
    /\ IF drive.holds[call.part] /\ CheckFat(drive.bpb)
       THEN Probed(PartLba(call.part))
       ELSE Returns("NOFAT") /\ UNCHANGED fat

Accepts(i) == i.sigs /\ Unknown \notin {i.next_free, i.free_cnt}

(* The rest of fat_mount: FSINFO, and the object goes into the list.  The  *)
(* window is at no sector of the volume; flags and buf are left alone.     *)
ReadInfo ==
    /\ pc = "info" /\ UNCHANGED <<drive, call, History, faults>>
    /\ LET i == drive.info[call.part] IN
       IF Accepts(i)
       THEN /\ fat' = [fat EXCEPT ![call.fat] = [@ EXCEPT !.next = head, !.last_used = i.next_free,
                                                         !.free_cnt = i.free_cnt]]
            /\ win' = [win EXCEPT ![call.fat] = [@ EXCEPT !.sect = 0]]
            /\ head' = call.fat /\ up' = up \cup {call.fat} /\ Returns("NONE")
       ELSE Returns("NOFAT") /\ UNCHANGED <<fat, win, List>>
-----------------------------------------------------------------------------
(* The drive when the buffer of object f is written to the sector that is  *)
(* its number; on the first one it is neither boot sector nor MBR.         *)
Written(f) ==
    LET w == win[f]
        p == fat[f].part
    IN  IF w.sect = 0 THEN [drive EXCEPT !.zero = "none"]
        ELSE IF w.sect = fat[f].info_sect
        THEN [drive EXCEPT !.info[p] = [@ EXCEPT !.next_free = w.buf.next_free,
                                                 !.free_cnt = w.buf.free_cnt]]
        ELSE [drive EXCEPT !.free[p] = @ \ w.buf.marks]

Outcome(w, d, ok) == [win |-> w, drive |-> d, ok |-> ok]

(* The ways sync_buf and update_buf can end, as in FatWindow. *)
SyncBuf(f) ==
    LET w == win[f]
    IN  IF w.dirty
        THEN {Outcome([w EXCEPT !.dirty = FALSE, !.buf = Nothing], Written(f), TRUE)}
             \cup {Outcome(w, d, FALSE) : d \in {drive, Written(f)}}
        ELSE {Outcome(w, drive, TRUE)}

UpdateBuf(f, s) ==
    IF win[f].sect = s THEN {Outcome(win[f], drive, TRUE)}
    ELSE {o \in SyncBuf(f) : ~o.ok}
         \cup UNION {{Outcome([o.win EXCEPT !.sect = s], o.drive, TRUE), Outcome(o.win, o.drive, FALSE)} :
                       o \in {x \in SyncBuf(f) : x.ok}}

(* Outcome o; when all went well, the window becomes w. *)
Took(f, o, w) == /\ drive' = o.drive /\ win' = [win EXCEPT ![f] = IF o.ok THEN w ELSE o.win]
                 /\ IF o.ok THEN UNCHANGED faults ELSE Fault

(* A call that writes ends; an unmounting that failed is remembered. *)
Ends(e) == /\ Returns(e) /\ call' = NoCall /\ UNCHANGED given
           /\ left' = IF call.op = "umount" /\ e # "NONE" THEN left \cup {call.fat} ELSE left

Runs(l)   == pc = l /\ UNCHANGED List
GoesOn(l) == Goes(l) /\ UNCHANGED <<call, History>>

(* sync_fs: the buffer, then FSINFO in its place. *)
Flush ==
    /\ Runs("sync") /\ UNCHANGED fat
    /\ LET f == call.fat IN \E o \in SyncBuf(f) :
         /\ Took(f, o, o.win)
         /\ IF o.ok /\ win[f].told THEN GoesOn("tell")
            ELSE Ends(IF o.ok THEN "NONE" ELSE "IO")

Tell ==
    /\ Runs("tell") /\ UNCHANGED fat
    /\ LET f == call.fat
           says == [Nothing EXCEPT !.next_free = fat[f].last_used, !.free_cnt = fat[f].free_cnt]
       IN  \E o \in UpdateBuf(f, fat[f].info_sect) :
             /\ Took(f, o, [o.win EXCEPT !.dirty = TRUE, !.buf = says])
             /\ IF o.ok THEN GoesOn("told") ELSE Ends("IO")

Told ==
    /\ Runs("told") /\ UNCHANGED fat
    /\ LET f == call.fat IN \E o \in SyncBuf(f) :
         Took(f, o, [o.win EXCEPT !.told = FALSE]) /\ Ends(IF o.ok THEN "NONE" ELSE "IO")

(* fat_sync of a mounted volume. *)
BeginSync == \E f \in up : Begin("sync", 0, f) /\ Goes("sync") /\ UNCHANGED win
-----------------------------------------------------------------------------
(* g_fat_list from head on: who is met in at most k steps. *)
Met[k \in 0 .. Cardinality(Fats)] ==
    IF k = 0 THEN {head} \ {Nobody}
    ELSE Met[k - 1] \cup ({fat[f].next : f \in Met[k - 1]} \ {Nobody})
Listed == Met[Cardinality(Fats)]

UnlinkedFirst(f) == [fat |-> fat, head |-> fat[f].next]
Unlinked(f) ==
    IF head = f THEN [fat |-> fat, head |-> fat[f].next]
    ELSE [fat |-> [g \in Fats |-> IF g \in Listed /\ fat[g].next = f
                                  THEN [fat[g] EXCEPT !.next = fat[f].next] ELSE fat[g]],
          head |-> head]

(* fat_umount: the object leaves the list, then sync_fs, which may fail.   *)
Umount ==
    /\ pc = "idle" /\ UNCHANGED <<drive, win, History, faults>>
    /\ \E f \in Fats :
         /\ call' = [NoCall EXCEPT !.op = "umount", !.fat = f]
         /\ IF f \in Listed
            THEN /\ fat' = Unlinked(f).fat /\ head' = Unlinked(f).head /\ up' = up \ {f}
                 /\ Goes("sync")
            ELSE Returns("PARAM") /\ UNCHANGED <<fat, List>>

(* find_fat_volume with the name of object f. *)
Find ==
    /\ pc = "idle" /\ UNCHANGED <<drive, pc, fat, win, List, History, faults>>
    /\ \E f \in Fats : /\ call' = [NoCall EXCEPT !.op = "find", !.fat = f]
                       /\ res' = IF f \in Listed THEN "NONE" ELSE "PATH"
-----------------------------------------------------------------------------
(* create_chain on a mounted volume: the search of stretch_chain for a     *)
(* free cluster, a cluster a step; its mark in the copy, if there is one,  *)
(* and in the active FAT; and sync_fs.                                     *)
BeginScan == \E f \in up :
    /\ pc = "idle" /\ Goes("scan") /\ UNCHANGED <<drive, fat, List, History, faults>>
    /\ call' = [NoCall EXCEPT !.op = "scan", !.fat = f, !.clust = fat[f].last_used]
    /\ win' = [win EXCEPT ![f] = [@ EXCEPT !.told = TRUE]]

(* ++clust, which starts over behind the last. *)
Onward(f, c) == IF (c + 1) % Wrap >= fat[f].clust_cnt THEN 2 ELSE (c + 1) % Wrap

(* The sector of cluster c in FAT k of an object: 1 is the active one. *)
FatSector(f, k, c) == fat[f].fat_sect[k] + c \div Epc

(* Whether cluster c is free in the sector that outcome o left in buf. *)
IsFree(f, o, c) == c \in o.drive.free[fat[f].part] \ o.win.buf.marks

(* A failed read returns flags, which have a value from the second round on. *)
Scan ==
    /\ Runs("scan") /\ UNCHANGED fat
    /\ LET f == call.fat
           c == Onward(f, call.clust)
       IN  IF c = fat[f].last_used THEN Ends("FULL") /\ UNCHANGED <<drive, win, faults>>
           ELSE \E o \in UpdateBuf(f, FatSector(f, 1, c)) :
                  /\ Took(f, o, o.win)
                  /\ IF o.ok
                     THEN /\ call' = [call EXCEPT !.clust = c] /\ UNCHANGED History
                          /\ Goes(IF ~IsFree(f, o, c) THEN "scan"
                                  ELSE IF fat[f].fat_sect[2] # 0 THEN "copy" ELSE "mark")
                     ELSE Ends("FLAGS") \/ (call.clust = fat[f].last_used /\ Ends("NONE"))

Copy ==
    /\ Runs("copy") /\ UNCHANGED fat
    /\ LET f == call.fat IN \E o \in UpdateBuf(f, FatSector(f, 2, call.clust)) :
         /\ Took(f, o, [o.win EXCEPT !.dirty = TRUE])
         /\ IF o.ok THEN GoesOn("mark") ELSE Ends("IO")

Mark ==
    /\ Runs("mark")
    /\ LET f == call.fat
           c == call.clust
       IN  \E o \in UpdateBuf(f, FatSector(f, 1, c)) :
             /\ Took(f, o, [o.win EXCEPT !.dirty = TRUE, !.buf = [@ EXCEPT !.marks = o.win.buf.marks \cup {c}]])
             /\ IF o.ok
                THEN /\ fat' = [fat EXCEPT ![f] = [@ EXCEPT !.last_used = c,
                                                           !.free_cnt = (fat[f].free_cnt - 1) % Wrap]]
                     /\ GoesOn("sync")
                ELSE UNCHANGED fat /\ Ends("IO")

Steps == ProbeZero \/ ProbePart \/ Panic \/ ReadInfo \/ Fails \/ Scan \/ Copy \/ Mark \/ Flush \/ Tell \/ Told
Next == BeginProbe \/ BeginMount \/ BeginSync \/ Umount \/ Find \/ BeginScan \/ Steps

Spec == Init /\ [][Next]_vars

(* A call runs to its end. *)
FairSpec == Spec /\ WF_vars(Steps)
-----------------------------------------------------------------------------
TypeOK ==
    /\ drive \in DriveType
    /\ pc \in {"idle", "zero", "part", "info", "scan", "copy", "mark", "sync", "tell", "told", "panic"}
    /\ call \in [op : {"none", "probe", "mount", "umount", "find", "scan", "sync"}, part : Parts,
                 fat : Fats \cup {Nobody}, clust : Numbers]
    /\ fat \in [Fats -> [next : Fats \cup {Nobody}, part : Parts, fat_sect : Numbers \X Numbers,
                         info_sect : Numbers, data_sect : Numbers, clust_cnt : Numbers,
                         last_used : Numbers, free_cnt : Numbers]]
    /\ win \in [Fats -> [sect : Nat, dirty : BOOLEAN, told : BOOLEAN,
                         buf : [marks : SUBSET Numbers, next_free : Numbers, free_cnt : Numbers]]]
    /\ head \in Fats \cup {Nobody} /\ up \subseteq Fats /\ faults \in 0 .. MaxFaults
    /\ res \in {"NONE", "NOFAT", "IO", "PARAM", "PATH", "FULL", "FLAGS"}

(* The comment above fat_probe: partition 0 is the whole drive or an MBR's *)
(* first partition, the others are an MBR's, each formatted FAT32.  Of a   *)
(* boot sector that names more sectors before the data than there are this *)
(* says nothing: check_fat's subtraction wraps, and it is accepted.        *)
ProbeIsDocumented ==
    (/\ pc = "idle" /\ call.op \in {"probe", "mount"} /\ res \in {"NONE", "NOFAT"}
     /\ drive.bpb.total >= Meta(drive.bpb)) =>
        LET p == call.part
            fat32 == /\ drive.bpb.good
                     /\ drive.bpb.mirror \/ drive.bpb.act \in {0, 1}
                     /\ (drive.bpb.total - Meta(drive.bpb)) \div drive.bpb.spc >= MinClusts
            there == /\ \/ p = 0 /\ drive.zero = "bpb"
                        \/ drive.zero = "mbr" /\ drive.type[p] /\ drive.holds[p]
                     /\ fat32
        IN  res = "NONE" <=> there /\ (call.op = "mount" => Accepts(drive.info[p]))

(* On a mounted volume the boot sector, FSINFO, both FATs and the data are *)
(* apart, unless the FATs have no sectors, and the copies that are written *)
(* are two different ones.                                                 *)
AreasApart == \A f \in up : drive.bpb.spf > 0 =>
    LET spf == drive.bpb.spf
        copies == {fat[f].fat_sect[1], fat[f].fat_sect[2]} \ {0}
    IN  /\ Cardinality(copies) = IF drive.bpb.mirror THEN 2 ELSE 1
        /\ \A a, b \in copies : a = b \/ a + spf <= b \/ b + spf <= a
        /\ \A a \in copies : fat[f].info_sect < a /\ a + spf <= fat[f].data_sect

(* The list holds what was mounted and not unmounted, whatever was         *)
(* unmounted first, so that a name is found exactly then.                  *)
ListIsUp == /\ Listed = up
            /\ call.op = "find" /\ pc = "idle" => (res = "NONE" <=> call.fat \in up)

(* What is mounted has passed check_fat and is used as a FAT32 volume.     *)
VolumesSound == TypeOK /\ ProbeIsDocumented /\ AreasApart /\ ListIsUp

Honest(d, p) == Accepts(d.info[p]) /\ d.info[p].free_cnt >= Cardinality(d.free[p])

(* A FSINFO that was accepted and whose count was not too low stays so,    *)
(* while clusters are only taken: the count never comes to the value that  *)
(* stands for an unknown one, whichever transfers failed.                  *)
InfoStaysGood == \A p \in Parts : Honest(given, p) => Honest(drive, p)

(* The first sector of the drive, with the boot sector or the partition    *)
(* table, is never written, but by an object that was mounted again after  *)
(* an unmounting of it failed.                                             *)
FirstSectorKept == [][drive'.zero # drive.zero => call.fat \in left]_vars

(* A search that never ends unless a transfer fails: the volume has no     *)
(* free cluster, and next_free, where the search would stop, is none.      *)
Endless == LET f == call.fat
               marks == IF win[f].sect = 0 THEN {} ELSE win[f].buf.marks
           IN  /\ pc = "scan" /\ drive.free[fat[f].part] \subseteq marks
               /\ fat[f].last_used \notin 2 .. (fat[f].clust_cnt - 1)

(* Every call ends but for a search that is endless, and for a check of a  *)
(* boot sector with clusters of no sectors, which stops the machine.       *)
CallsEnd == (pc \notin {"idle", "panic"} /\ ~Endless) ~> (pc \in {"idle", "panic"})
=============================================================================
