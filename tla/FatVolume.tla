----------------------------- MODULE FatVolume -----------------------------
(***************************************************************************)
(* The volume layer of src/trfs/fat32/fat.c: the one-sector window through *)
(* which the driver reads and writes everything but file data, the cluster *)
(* allocator kept in the two FAT copies, the FSINFO counters, and the      *)
(* calls that create, extend, close, unlink and synchronise a file.        *)
(*                                                                         *)
(* Every transfer of a sector is a step of its own, so a transfer can fail *)
(* and the machine can lose power between any two of them.                 *)
(*                                                                         *)
(* A sector is a function from its cells to values.  The cells of a FAT    *)
(* sector are the clusters it describes, the cells of the directory sector *)
(* are file names (the value is the first cluster), and FSINFO has the two *)
(* cells fat.c uses.                                                       *)
(*                                                                         *)
(* A definition that stands right before another and extends its name      *)
(* (SyncBufForgets, PutValNoEnd, ...) is a mistake the code could have     *)
(* made: put in the other's place, it must break a property.               *)
(***************************************************************************)
EXTENDS FatWindow, Sequences, FiniteSets

CONSTANTS
    ClustCnt,    \* fat->clust_cnt
    PerSect,     \* FAT entries in a sector (128 in the code)
    RootClust,   \* fat->root_clust
    BadClusts,   \* clusters the volume was formatted with as bad
    Files,       \* names of files of the root directory
    Mirrored,    \* fat->fat_sect[1] # 0
    CountMod     \* 2^32 for the code: free_cnt counts modulo this

Clusters == 2 .. (ClustCnt - 1)

ASSUME VolumeAssumption ==
    /\ ClustCnt \in Nat /\ ClustCnt > 3
    /\ PerSect \in Nat \ {0}
    /\ RootClust \in Clusters
    /\ BadClusts \subseteq Clusters \ {RootClust}
    /\ Mirrored \in BOOLEAN
    /\ CountMod \in Nat /\ CountMod > ClustCnt

(* The values a FAT entry can have besides the number of the next cluster. *)
FREE == 0
EOC  == ClustCnt
BAD  == ClustCnt + 1

NoEntry == 0

(* On disk, 0xffffffff in free_cnt means that the count is not known. *)
Unknown == CountMod - 1

FatSect(copy, c) == <<copy, c \div PerSect>>
DirSect  == <<"dir", 0>>
InfoSect == <<"info", 0>>
NoSect   == <<"none", 0>>

Sects == ({"act", "mir"} \X (0 .. ((ClustCnt - 1) \div PerSect)))
            \cup {DirSect, InfoSect}

Cells(s) ==
    CASE s[1] \in {"act", "mir"} -> {c \in Clusters : c \div PerSect = s[2]}
      [] s = DirSect             -> Files
      [] s = InfoSect            -> {"next_free", "free_cnt"}
      [] OTHER                   -> {}

Vals == 0 .. (CountMod + ClustCnt)

VARIABLES
    vol,     \* fat->last_used, fat->free_cnt and FAT_INFO_DIRTY
    pc,      \* where the running call is; "idle" between calls
    call,    \* the running call: its operation, its file and its locals
    res,     \* the last call that returned, and its error code
    torn     \* a failed unlink or allocation left an entry without a chain

vars == <<disk, win, vol, pc, call, res, faults, torn>>

Ops  == {"create", "extend", "unlink", "close", "sync"}
Errs == {"NONE", "IO", "FULL", "EOF", "DENIED", "BROKEN", "NOFAT", "FLAGS"}
Pcs  == {"idle", "dead", "find", "walk", "near", "scan", "eocM", "eoc", "linkM",
         "link", "flush", "info", "infoFlush", "add", "rmGet", "rmM", "rm",
         "rmEntry", "touch"}

NoBuf  == [x \in {} |-> 0]
NoCall == [op |-> "none", f |-> "none", clust |-> 0, prev |-> 0, next |-> 0,
           then |-> "return"]
NoRes  == [op |-> "none", err |-> "NONE"]

-----------------------------------------------------------------------------
FatOnDisk == [c \in Clusters |-> disk[FatSect("act", c)][c]]
FatView(copy) == [c \in Clusters |-> View(FatSect(copy, c))[c]]
DirOnDisk == disk[DirSect]
DirView   == View(DirSect)

(* A directory entry whose first cluster has been given back. *)
Dangling == \E f \in Files : /\ DirView[f] # NoEntry
                             /\ FatView("act")[DirView[f]] = FREE

(* The call returns.  An error that leaves an entry dangling is remembered. *)
Return(e) ==
    /\ pc' = "idle"
    /\ call' = NoCall
    /\ res' = [op |-> call.op, err |-> e]
    /\ torn' = (torn \/ (e # "NONE" /\ Dangling'))

Goto(l) == pc' = l /\ UNCHANGED <<res, torn>>

Fails(o) == ~o.ok /\ Took(o) /\ Return("IO") /\ UNCHANGED vol

(* get_fat's flags for a cluster that a chain may go through. *)
InChain(v) == v \notin {FREE, BAD}

NextClustMissesLast(c) == IF c + 1 >= ClustCnt - 1 THEN 2 ELSE c + 1
NextClustNoWrap(c) == IF c + 1 >= ClustCnt THEN c ELSE c + 1

NextClust(c) == IF c + 1 >= ClustCnt THEN 2 ELSE c + 1

(* put_fat writes the mirror, when there is one, before the active copy.    *)
(* The three entries the calls put: the end mark of a new cluster, the link *)
(* to it, and the release of a cluster.                                     *)
Puts == {"eoc", "link", "rm"}
MirrorPc == [eoc |-> "eocM", link |-> "linkM", rm |-> "rmM"]
FirstPut(p) == IF Mirrored THEN MirrorPc[p] ELSE p

PutCell(p) == IF p = "link" THEN call.prev ELSE call.clust
PutValNoEnd(p) == IF p = "link" THEN call.clust ELSE FREE
PutVal(p)  == CASE p = "eoc" -> EOC [] p = "link" -> call.clust [] p = "rm" -> FREE

-----------------------------------------------------------------------------
(* A volume as mkfs leaves it: the root directory holds one cluster. *)
Init ==
    /\ \E last \in Clusters :
         disk = [s \in Sects |->
                   CASE s = DirSect -> [f \in Files |-> NoEntry]
                     [] s = InfoSect ->
                          [x \in {"next_free", "free_cnt"} |->
                             IF x = "next_free" THEN last
                             ELSE Cardinality(Clusters \ (BadClusts \cup {RootClust}))]
                     [] OTHER ->
                          [c \in Cells(s) |-> IF c \in BadClusts THEN BAD
                                              ELSE IF c = RootClust THEN EOC ELSE FREE]]
    /\ win = [sect |-> NoSect, buf |-> NoBuf, dirty |-> FALSE]
    /\ vol = [last_used |-> disk[InfoSect]["next_free"],
              free_cnt |-> disk[InfoSect]["free_cnt"], dirty |-> FALSE]
    /\ pc = "idle"
    /\ call = NoCall
    /\ res = NoRes
    /\ faults = 0
    /\ torn = FALSE

(* A caller starts an operation on file f: opening with FAT_CREATE, seeking *)
(* one cluster past the end, fat_unlink, or fat_file_close.                 *)
Begin(op, f) ==
    /\ pc = "idle"
    /\ pc' = IF op = "close" THEN "touch" ELSE "find"
    /\ call' = [NoCall EXCEPT !.op = op, !.f = f]
    /\ op = "close" => DirView[f] # NoEntry
    /\ res' = NoRes
    /\ UNCHANGED <<disk, win, vol, faults, torn>>

(* fat_sync and fat_umount. *)
BeginSync ==
    /\ pc = "idle"
    /\ pc' = "flush"
    /\ call' = [NoCall EXCEPT !.op = "sync"]
    /\ res' = NoRes
    /\ UNCHANGED <<disk, win, vol, faults, torn>>

(* stretch_chain starts: after cluster prev, or a new chain when prev is 0. *)
Stretch(prev) ==
    /\ vol' = [vol EXCEPT !.dirty = TRUE]
    /\ IF prev # 0
       THEN Goto("near") /\ call' = [call EXCEPT !.prev = prev, !.clust = NextClust(prev)]
       ELSE Goto("scan") /\ call' = [call EXCEPT !.clust = vol.last_used]

(* follow_path, and what each call does with the entry it finds or misses. *)
Find ==
    /\ pc = "find"
    /\ \E o \in UpdateBuf(DirSect) :
         \/ Fails(o)
         \/ /\ o.ok /\ Took(o)
            /\ LET clust == o.win.buf[call.f]
                   found == clust # NoEntry
               IN  \/ ~found /\ call.op = "create" /\ Stretch(0)
                   \/ ~found /\ call.op = "extend" /\ Return("DENIED") /\ UNCHANGED vol
                   \/ ~found /\ call.op = "unlink" /\ Return("EOF") /\ UNCHANGED vol
                   \/ found /\ call.op = "create" /\ Return("NONE") /\ UNCHANGED vol
                   \/ /\ found /\ call.op = "extend"
                      /\ Goto("walk") /\ call' = [call EXCEPT !.clust = clust] /\ UNCHANGED vol
                   \/ /\ found /\ call.op = "unlink"
                      /\ Goto("rmGet") /\ call' = [call EXCEPT !.clust = clust]
                      /\ vol' = [vol EXCEPT !.dirty = TRUE]

(* fat_file_seek follows the chain to its last cluster and stretches it. *)
Walk ==
    /\ pc = "walk"
    /\ \E o \in UpdateBuf(FatSect("act", call.clust)) :
         \/ Fails(o)
         \/ /\ o.ok /\ Took(o)
            /\ LET next == o.win.buf[call.clust] IN
               \/ ~InChain(next) /\ Return("BROKEN") /\ UNCHANGED vol
               \/ next = EOC /\ Stretch(call.clust)
               \/ /\ InChain(next) /\ next # EOC
                  /\ Goto("walk") /\ call' = [call EXCEPT !.clust = next] /\ UNCHANGED vol

(* Is the cluster right after the last one free? *)
Near ==
    /\ pc = "near"
    /\ \E o \in UpdateBuf(FatSect("act", call.clust)) :
         \/ Fails(o)
         \/ /\ o.ok /\ Took(o) /\ UNCHANGED vol
            /\ IF o.win.buf[call.clust] = FREE
               THEN Goto(FirstPut("eoc")) /\ UNCHANGED call
               ELSE Goto("scan") /\ call' = [call EXCEPT !.clust = vol.last_used]

(* A failed read in the scan returns flags, which no get_fat of a new chain *)
(* has set on the first round: the caller may see success and use whatever  *)
(* its uninitialised cluster number holds.                                  *)
FlagsUnset == call.prev = 0 /\ call.clust = vol.last_used

ScanFails(o) ==
    /\ ~o.ok /\ Took(o) /\ UNCHANGED vol
    /\ \/ Return("FLAGS")
       \/ /\ FlagsUnset
          /\ \E garbage \in Clusters : call' = [call EXCEPT !.clust = garbage]
          /\ pc' = "add" /\ torn' = TRUE /\ UNCHANGED res

(* Look for a free cluster after last_used, which itself is not looked at. *)
Scan ==
    /\ pc = "scan"
    /\ LET c == NextClust(call.clust) IN
       IF c = vol.last_used
       THEN UNCHANGED <<disk, win, vol, faults>> /\ Return("FULL")
       ELSE \E o \in UpdateBuf(FatSect("act", c)) :
              \/ ScanFails(o)
              \/ /\ o.ok /\ Took(o) /\ UNCHANGED vol
                 /\ call' = [call EXCEPT !.clust = c]
                 /\ Goto(IF o.win.buf[c] = FREE THEN FirstPut("eoc") ELSE "scan")

PutMirror(p) ==
    /\ pc = MirrorPc[p]
    /\ \E o \in UpdateBuf(FatSect("mir", PutCell(p))) :
         \/ Fails(o)
         \/ Writes(o, PutCell(p), PutVal(p)) /\ Goto(p) /\ UNCHANGED <<vol, call>>

CountDown(n) == (n + CountMod - 1) % CountMod

(* What a call does once remove_chain or stretch_chain has synchronised. *)
NextPartNoAdd(op)   == IF op = "unlink" THEN "rmEntry" ELSE "return"
NextPartNoEntry(op) == IF op = "create" THEN "add" ELSE "return"
NextPart(op) ==
    CASE op = "create" -> "add" [] op = "unlink" -> "rmEntry" [] op = "extend" -> "return"

(* The new chain, or the longer one, is complete. *)
Allocated ==
    /\ vol' = [vol EXCEPT !.last_used = call.clust,
                          !.free_cnt = CountDown(@)]
    /\ call' = [call EXCEPT !.then = NextPart(call.op)]
    /\ Goto("flush")

PutEoc ==
    /\ pc = "eoc"
    /\ \E o \in UpdateBuf(FatSect("act", PutCell("eoc"))) :
         \/ Fails(o)
         \/ /\ Writes(o, PutCell("eoc"), PutVal("eoc"))
            /\ IF call.prev # 0 THEN Goto(FirstPut("link")) /\ UNCHANGED <<vol, call>>
               ELSE Allocated

PutLink ==
    /\ pc = "link"
    /\ \E o \in UpdateBuf(FatSect("act", PutCell("link"))) :
         \/ Fails(o)
         \/ Writes(o, PutCell("link"), PutVal("link")) /\ Allocated

(* remove_chain: read the entry, free the cluster, go to the next. *)
RmGet ==
    /\ pc = "rmGet"
    /\ \E o \in UpdateBuf(FatSect("act", call.clust)) :
         \/ Fails(o)
         \/ /\ o.ok /\ Took(o) /\ UNCHANGED vol
            /\ LET next == o.win.buf[call.clust] IN
               \/ ~InChain(next) /\ Return("BROKEN")
               \/ InChain(next) /\ Goto(FirstPut("rm")) /\ call' = [call EXCEPT !.next = next]

RmPut ==
    /\ pc = "rm"
    /\ \E o \in UpdateBuf(FatSect("act", PutCell("rm"))) :
         \/ Fails(o)
         \/ /\ Writes(o, PutCell("rm"), PutVal("rm"))
            /\ vol' = [vol EXCEPT !.free_cnt = (@ + 1) % CountMod]
            /\ IF call.next = EOC
               THEN Goto("flush") /\ call' = [call EXCEPT !.then = NextPart(call.op)]
               ELSE Goto("rmGet") /\ call' = [call EXCEPT !.clust = call.next]

(* sync_fs returned: the next part of the call. *)
Synced ==
    /\ IF call.then = "return"
       THEN Return("NONE")
       ELSE Goto(call.then) /\ call' = [call EXCEPT !.then = "return"]

(* sync_fs: write the window back; then put the counters in FSINFO, through *)
(* the window, and write that back too.                                     *)
Flush ==
    /\ pc = "flush"
    /\ \E o \in SyncBuf :
         \/ Fails(o)
         \/ /\ o.ok /\ Took(o) /\ UNCHANGED vol
            /\ IF vol.dirty THEN Goto("info") /\ UNCHANGED call ELSE Synced

UpdateInfo ==
    /\ pc = "info"
    /\ \E o \in UpdateBuf(InfoSect) :
         \/ Fails(o)
         \/ /\ o.ok
            /\ win' = [o.win EXCEPT !.buf = [next_free |-> vol.last_used,
                                             free_cnt |-> vol.free_cnt],
                                    !.dirty = TRUE]
            /\ disk' = o.disk
            /\ Goto("infoFlush")
            /\ UNCHANGED <<vol, call, faults>>

FlushInfo ==
    /\ pc = "infoFlush"
    /\ \E o \in SyncBuf :
         \/ Fails(o)
         \/ o.ok /\ Took(o) /\ vol' = [vol EXCEPT !.dirty = FALSE] /\ Synced

(* dir_add: the entry goes to the window and stays there. *)
Add ==
    /\ pc = "add"
    /\ \E o \in UpdateBuf(DirSect) :
         \/ Fails(o)
         \/ Writes(o, call.f, call.clust) /\ Return("NONE") /\ UNCHANGED vol

(* remove_entries, then the sync_fs that ends fat_unlink. *)
RmEntry ==
    /\ pc = "rmEntry"
    /\ \E o \in UpdateBuf(DirSect) :
         \/ Fails(o)
         \/ Writes(o, call.f, NoEntry) /\ Goto("flush") /\ UNCHANGED <<vol, call>>

(* fat_file_sync rewrites times and size in the entry, then synchronises. *)
Touch ==
    /\ pc = "touch"
    /\ \E o \in UpdateBuf(DirSect) :
         \/ Fails(o)
         \/ Writes(o, call.f, o.win.buf[call.f]) /\ Goto("flush") /\ UNCHANGED <<vol, call>>

(* Power is lost, and fat_mount reads the volume again.  It takes the       *)
(* counters from FSINFO as they are, and refuses an unknown free_cnt.       *)
Crash ==
    /\ faults < MaxFaults
    /\ faults' = faults + 1
    /\ win' = [sect |-> NoSect, buf |-> NoBuf, dirty |-> FALSE]
    /\ vol' = [last_used |-> disk[InfoSect]["next_free"],
               free_cnt |-> disk[InfoSect]["free_cnt"], dirty |-> FALSE]
    /\ LET mounts == disk[InfoSect]["free_cnt"] # Unknown IN
         /\ pc' = IF mounts THEN "idle" ELSE "dead"
         /\ res' = [op |-> "mount", err |-> IF mounts THEN "NONE" ELSE "NOFAT"]
    /\ call' = NoCall
    /\ UNCHANGED disk
    /\ torn' = (torn \/ Dangling')

Step ==
    \/ Find \/ Walk \/ Near \/ Scan
    \/ \E p \in Puts : PutMirror(p)
    \/ PutEoc \/ PutLink \/ RmGet \/ RmPut
    \/ Flush \/ UpdateInfo \/ FlushInfo
    \/ Add \/ RmEntry \/ Touch

Next ==
    \/ \E op \in Ops \ {"sync"}, f \in Files : Begin(op, f)
    \/ BeginSync
    \/ Step
    \/ Crash

Spec == Init /\ [][Next]_vars

(* A call runs in one thread with interrupts off: once entered it goes on. *)
FairSpec == Spec /\ WF_vars(Step)
-----------------------------------------------------------------------------
(* Every variable holds what the code can store in it. *)
TypeOK ==
    /\ DOMAIN disk = Sects
    /\ \A s \in Sects : disk[s] \in [Cells(s) -> Vals]
    /\ win.sect \in Sects \cup {NoSect}
    /\ win.buf \in [Cells(win.sect) -> Vals]
    /\ win.dirty \in BOOLEAN
    /\ vol \in [last_used : Clusters, free_cnt : 0 .. (CountMod - 1), dirty : BOOLEAN]
    /\ pc \in Pcs
    /\ call.op \in Ops \cup {"none"} /\ call.f \in Files \cup {"none"}
    /\ {call.clust, call.prev, call.next} \subseteq 0 .. EOC
    /\ call.then \in {"return", "add", "rmEntry"}
    /\ res.err \in Errs
    /\ faults \in 0 .. MaxFaults
    /\ torn \in BOOLEAN

InUse(fat) == {c \in Clusters : fat[c] \notin {FREE, BAD}}

Referrers(dir, fat, c) ==
    Cardinality({f \in Files : dir[f] = c}) + Cardinality({d \in Clusters : fat[d] = c})

(* On the medium, at any moment a crash could strike, no link leads to a    *)
(* cluster that is free, bad or the root directory's, and no cluster has    *)
(* two owners: the order in which stretch_chain and remove_chain let        *)
(* sectors out of the window never lets two files share a cluster.          *)
LinksSound ==
    ~torn => \A c \in Clusters :
        LET owners == Referrers(DirOnDisk, FatOnDisk, c) IN
        /\ owners <= 1
        /\ (\E d \in Clusters : FatOnDisk[d] = c) => FatOnDisk[c] \notin {FREE, BAD}
        /\ c = RootClust => owners = 0

(* A directory entry on the medium has its chain there too.  The one window *)
(* lets sectors out in the order in which they were changed, and            *)
(* create_chain comes before dir_add.  Only unlinking, which frees the      *)
(* chain first, has a moment at which the entry's cluster is already free,  *)
(* and then the call is still running or the entry's removal is in the      *)
(* window.                                                                  *)
EntriesSound ==
    ~torn => \A f \in Files :
        (DirOnDisk[f] # NoEntry /\ FatOnDisk[DirOnDisk[f]] = FREE)
            => (call.op = "unlink" /\ call.f = f) \/ DirView[f] = NoEntry

(* A call that synchronises and returns success leaves nothing behind in    *)
(* the window or the counters: a crash right after it loses nothing.        *)
SyncIsDurable ==
    (pc = "idle" /\ res.err = "NONE" /\ res.op \in {"extend", "unlink", "close", "sync"})
        => /\ \A s \in Sects : View(s) = disk[s]
           /\ ~vol.dirty
           /\ disk[InfoSect]["free_cnt"] = vol.free_cnt

(* Between calls the two FAT copies agree, but for one entry for every      *)
(* transfer that failed or crash that fell between the two put_fat2 calls.  *)
(* Nothing ever repairs such an entry, so this is the most one can promise. *)
MirrorInStep ==
    (Mirrored /\ pc = "idle") =>
        Cardinality({c \in Clusters : FatView("mir")[c] # FatView("act")[c]}) <= faults

(* Between calls free_cnt is exact as long as nothing has failed.  After    *)
(* failures it can be too high, by one for each, and never too low unless   *)
(* an unlink was cut short; so it never wraps round to the value with which *)
(* fat_mount refuses the volume.                                            *)
FreeCountTracks ==
    /\ (pc = "idle" /\ ~torn) =>
         vol.free_cnt - Cardinality({c \in Clusters : FatView("act")[c] = FREE}) \in 0 .. faults
    /\ ~torn => pc # "dead"

(* Clusters in use that nothing refers to: one for a failed transfer or a   *)
(* crash, as long as no unlink was cut short.                               *)
LeaksBounded ==
    (pc = "idle" /\ ~torn) =>
        Cardinality({c \in InUse(FatView("act")) \ {RootClust} :
                        Referrers(DirView, FatView("act"), c) = 0}) <= faults

(* The file system on the medium holds together at any moment.              *)
MediumSound == TypeOK /\ LinksSound /\ EntriesSound

(* What a failed transfer or a crash costs for good is bounded: an entry in *)
(* which the copies differ, one in the count, a cluster.                    *)
FailuresCostOne == MirrorInStep /\ FreeCountTracks /\ LeaksBounded

(* FAT_ERR_FULL is only said of a volume with no free cluster besides       *)
(* last_used, which the scan passes over.                                   *)
FullMeansFull ==
    [][(res' # res /\ res'.err = "FULL")
          => \A c \in Clusters \ {vol.last_used} : FatView("act")[c] # FREE]_vars

(* Moving the window, writing it back, or failing to, never changes what    *)
(* the driver sees of any sector; a step of a call stores into one sector.  *)
WindowLosesNothing ==
    [][ Crash \/ LET changed == {s \in Sects : View(s)' # View(s)} IN
                 changed # {} => changed = {win'.sect} /\ win'.dirty ]_vars

(* Every call returns, also after failed transfers: the scan goes round     *)
(* once, chains are followed to their end, and freeing visits each cluster  *)
(* once.                                                                    *)
CallsReturn == (pc \notin {"idle", "dead"}) ~> (pc \in {"idle", "dead"})

-----------------------------------------------------------------------------
(* The files of the medium as FileStore sees them: a name stands for the    *)
(* chain of its clusters, the empty chain when there is no entry.           *)
ChainFrom(fat) ==
    LET chain[n \in 0 .. ClustCnt] ==
            [c \in Clusters |-> IF n > 0 /\ fat[c] \in Clusters
                                THEN <<c>> \o chain[n - 1][fat[c]] ELSE <<c>>]
    IN  chain

StoreOnDisk ==
    [f \in Files |->
        IF DirOnDisk[f] = NoEntry THEN <<>>
        ELSE IF FatOnDisk[DirOnDisk[f]] = FREE THEN <<FREE>>
        ELSE ChainFrom(FatOnDisk)[ClustCnt][DirOnDisk[f]]]

Store == INSTANCE FileStore WITH store <- StoreOnDisk, broken <- torn, Lost <- <<FREE>>

(* What is on the medium moves as FileStore allows, crash or no crash.      *)
ImplementsStore == Store!Spec
=============================================================================
