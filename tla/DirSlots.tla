------------------------------ MODULE DirSlots ------------------------------
(***************************************************************************)
(* Listing directories: opendir, readdir and closedir of src/libc/dirent.c *)
(* down to the slots of src/kernel/driver/fat32.c and fat_dir_open,        *)
(* fat_dir_next and fat_dir_read of src/trfs/fat32/fat.c.                  *)
(*                                                                         *)
(* Nothing is written: a volume is what its clusters hold.  Slots of 32    *)
(* bytes are numbered through the volume, so that a position that runs     *)
(* past the end of a cluster is in the next one, whoever that belongs to.  *)
(*                                                                         *)
(* Definitions such as NextKeepsClust stand before the one whose name they *)
(* extend and are mistakes the code could have made.                       *)
(***************************************************************************)
EXTENDS Integers, Sequences, FiniteSets, SequencesExt

CONSTANTS
    MaxOpenDirs,  \* MAX_OPENDIRS
    PerSect,      \* slots in a sector (16 in the code)
    PerClust,     \* slots in a cluster
    Volumes,      \* what disks can hold, by their names: see below
    MaxFaults     \* bound: transfers that fail

(* A volume has dirs, the chains of its directories by first cluster, of   *)
(* which 0 is the root's, and slots.  A slot is [kind, name, alias, ...]:  *)
(* "sfn" a short entry of the file whose long name is name, "lfn" a piece  *)
(* of a long name with left pieces to come, itself included, "free" and    *)
(* "last".  to is the first cluster of a directory, NoDir of a file; skip  *)
(* says that it is a label or one of the dots.                             *)
NoDir == -1

ASSUME DirSlotsAssumption ==
    /\ {MaxOpenDirs, PerSect, PerClust} \subseteq Nat \ {0}
    /\ PerClust % PerSect = 0
    /\ \A v \in DOMAIN Volumes : \A c \in DOMAIN Volumes[v].dirs :
         Volumes[v].dirs[c] # <<>> /\ Volumes[v].dirs[c][1] = c

VARIABLES
    disk,     \* the disk the volume is on
    g_dirs,   \* the slots for open directories
    win,      \* the sector in the window of fat.c
    pc,       \* where the running call is; "idle" between calls
    call,     \* the running call and its locals
    res,      \* what it returned: an error code, or a name
    faults,   \* transfers that failed so far
    astray    \* for each slot, the end or the error it has returned, or "no"

vars == <<disk, g_dirs, win, pc, call, res, faults, astray>>

Slots  == 0 .. (MaxOpenDirs - 1)
NoDirP == [clust |-> 0, pos |-> 0]
Unused == [dir |-> NoDirP, used |-> FALSE, need_next |-> FALSE]
NoCall == [op |-> "none", slot |-> 0, dir |-> NoDirP, need |-> FALSE, name |-> NoDir,
           crc |-> "", left |-> 0]

Init ==
    /\ disk \in DOMAIN Volumes
    /\ g_dirs = [s \in Slots |-> Unused]
    /\ win = <<"none", 0>> /\ pc = "idle" /\ call = NoCall /\ res = "ask"
    /\ faults = 0 /\ astray = [s \in Slots |-> "no"]

-----------------------------------------------------------------------------
(* The volume. *)
vol == Volumes[disk]
Cells    == DOMAIN vol.slots
ClustOf(p) == p \div PerClust
SectOf(p)  == <<"sect", p \div PerSect>>
FatSect    == <<"fat", 0>>

(* What get_fat finds for cluster c: the next of its chain, or the end.    *)
EOC == -2
NextOf(c) ==
    LET ch == CHOOSE d \in DOMAIN vol.dirs : \E i \in DOMAIN vol.dirs[d] : vol.dirs[d][i] = c
        i  == CHOOSE j \in DOMAIN vol.dirs[ch] : vol.dirs[ch][j] = c
    IN  IF i < Len(vol.dirs[ch]) THEN vol.dirs[ch][i + 1] ELSE EOC

(* update_buf: a transfer only when the window has another sector.  Past   *)
(* the end of the volume there is nothing to read.                         *)
Fetches(s, there) ==
    IF win = s THEN win' = win /\ UNCHANGED faults
    ELSE there /\ win' = s /\ UNCHANGED faults
FetchFails(s, there) ==
    /\ win # s /\ win' = win
    /\ IF there THEN faults < MaxFaults /\ faults' = faults + 1 ELSE UNCHANGED faults

Loads(p)     == Fetches(SectOf(p), p \in Cells)
LoadFails(p) == FetchFails(SectOf(p), p \in Cells)

Returns(r) ==
    /\ res' = r /\ pc' = "idle" /\ call' = NoCall

(* A read of an open slot ends with r; dir is what it leaves of the place. *)
(* The code works on the slot itself, which nothing else sees meanwhile.   *)
Ends(dir, r) ==
    /\ Returns(r)
    /\ g_dirs' = [g_dirs EXCEPT ![call.slot].dir = dir, ![call.slot].need_next = TRUE]
    /\ astray' = IF r \in {"EOF", "IO", "BROKEN"} /\ astray[call.slot] = "no"
                 THEN [astray EXCEPT ![call.slot] = r] ELSE astray

Goes(l, c) == pc' = l /\ call' = c /\ UNCHANGED <<res, g_dirs, astray>>
GoesTo(l, dir) == Goes(l, [call EXCEPT !.dir = dir, !.need = TRUE])

NextKeepsClust(d, c) == [d EXCEPT !.pos = d.clust * PerClust]
NextSlot(d, c) == [clust |-> c, pos |-> c * PerClust]

(* dir_next.  The position moves before the FAT is asked. *)
Advance(l) ==
    LET d == [call.dir EXCEPT !.pos = @ + 1] IN
    IF d.pos % PerClust # 0
    THEN GoesTo(l, d) /\ UNCHANGED <<win, faults>>
    ELSE \/ FetchFails(FatSect, TRUE) /\ Ends(d, "IO")
         \/ /\ Fetches(FatSect, TRUE)
            /\ LET c == NextOf(d.clust)
               IN  IF c = EOC THEN Ends(d, "EOF") ELSE GoesTo(l, NextSlot(d, c))
-----------------------------------------------------------------------------
Begin(c, l) ==
    /\ pc = "idle" /\ pc' = l /\ res' = "ask" /\ call' = c
    /\ UNCHANGED <<disk, g_dirs, win, faults, astray>>

Positions(v, d) == FlattenSeq([i \in DOMAIN v.dirs[d] |->
    [j \in 1 .. PerClust |-> v.dirs[d][i] * PerClust + j - 1]])

(* The part of a directory before its end mark. *)
Live(v, d) ==
    LET ps == Positions(v, d)
        ends == {i \in DOMAIN ps : v.slots[ps[i]].kind = "last"}
    IN  SubSeq(ps, 1, IF ends = {} THEN Len(ps) ELSE Min(ends) - 1)

EntriesOf(v) ==
    UNION {{p \in ToSet(Live(v, d)) : v.slots[p].kind = "sfn"} : d \in DOMAIN v.dirs}
Reachable == [k \in DOMAIN Volumes |-> EntriesOf(Volumes[k])]

(* Where follow_path can end: on the short entry of a name, or, with no    *)
(* name after the volume's, on no entry.                                   *)
BeginOpen == \E p \in Reachable[disk] \cup {NoDir} : Begin([NoCall EXCEPT !.op = "open", !.name = p], "open")

(* Bound: a place is not followed further past the end of the volume. *)
Beyond == Cardinality(Cells) + 1

BeginOn(op, fd) ==
    /\ fd \in Slots => g_dirs[fd].dir.pos < Beyond
    /\ Begin([NoCall EXCEPT !.op = op, !.slot = fd,
               !.dir = IF fd \in Slots THEN g_dirs[fd].dir ELSE NoDirP,
               !.need = fd \in Slots /\ g_dirs[fd].need_next], op)

FirstFree == CHOOSE s \in Slots : ~g_dirs[s].used /\ \A t \in Slots : t < s => g_dirs[t].used

HasFree == \E s \in Slots : ~g_dirs[s].used

DirAtRoot(d) == d = [clust |-> 0, pos |-> 0]

(* dir_enter; .. of a directory in the root has cluster 0, the root's.     *)
DirEnter(c) == [clust |-> c, pos |-> c * PerClust]

(* fat32_dir_open gives out the first unused slot. *)
Gives(dir) ==
    /\ g_dirs' = [g_dirs EXCEPT ![FirstFree] =
                    [dir |-> dir, used |-> TRUE, need_next |-> FALSE]]
    /\ Returns("NONE") /\ UNCHANGED astray

OpenFull == /\ pc = "open" /\ ~HasFree
            /\ Returns("FULL") /\ UNCHANGED <<disk, g_dirs, win, faults, astray>>

(* follow_path fails: "EOF" when there is no such name, "PATH" when the    *)
(* path goes through a file.  What it leaves in an unused slot is not read.*)
OpenFails == /\ pc = "open" /\ HasFree
             /\ win' \in {win, FatSect} \cup {SectOf(p) : p \in Cells}
             /\ \/ \E e \in {"EOF", "PATH", "BROKEN"} : Returns(e) /\ UNCHANGED faults
                \/ faults < MaxFaults /\ faults' = faults + 1 /\ Returns("IO")
             /\ UNCHANGED <<disk, g_dirs, astray>>

OpenRoot == /\ pc = "open" /\ HasFree /\ call.name = NoDir
            /\ Gives(DirEnter(0))
            /\ UNCHANGED <<disk, win, faults>>

(* The entry was found and must be of a directory, which is entered; but   *)
(* the first entry of the root stands where the root itself begins.        *)
OpenEntry ==
    /\ pc = "open" /\ HasFree /\ call.name # NoDir
    /\ LET p  == call.name
           at == [clust |-> ClustOf(p), pos |-> p]
       IN  /\ win' = SectOf(p) /\ UNCHANGED <<disk, faults>>
           /\ IF DirAtRoot(at) THEN Gives(at)
              ELSE IF vol.slots[p].to = NoDir
              THEN Returns("PATH") /\ UNCHANGED <<g_dirs, astray>>
              ELSE Gives(DirEnter(vol.slots[p].to))

Used(s) == s \in Slots /\ g_dirs[s].used

(* fat32_dir_read. *)
ReadRefused ==
    /\ pc = "read" /\ ~Used(call.slot)
    /\ Returns("PARAM") /\ UNCHANGED <<disk, g_dirs, win, faults, astray>>

MoveOn(c) == c.need

Read ==
    /\ pc = "read" /\ Used(call.slot) /\ UNCHANGED disk
    /\ IF MoveOn(call) THEN Advance("look")
       ELSE GoesTo("look", call.dir) /\ UNCHANGED <<win, faults>>

(* An entry was read.  readdir passes over labels and dots, and asks again.*)
Delivers(p, name) ==
    IF vol.slots[p].skip THEN Goes("read", call) ELSE Ends(call.dir, name)

(* The loop of fat_dir_read looks at a slot ... *)
Look ==
    /\ pc = "look" /\ UNCHANGED disk
    /\ \/ LoadFails(call.dir.pos) /\ Ends(call.dir, "IO")
       \/ /\ Loads(call.dir.pos)
          /\ LET p == call.dir.pos
                 s == vol.slots[p]
             IN  \/ s.kind = "last" /\ Ends(call.dir, "EOF")
                 \/ s.kind = "free" /\ Goes("skip", call)
                 \/ s.kind = "sfn" /\ Delivers(p, s.alias)
                 \/ s.kind = "lfn" /\ ~s.head /\ Ends(call.dir, "BROKEN")
                 \/ /\ s.kind = "lfn" /\ s.head
                    /\ Goes("parse", [call EXCEPT !.crc = s.name, !.left = s.left])

(* ... goes on from a free one ... *)
Skip == pc = "skip" /\ UNCHANGED disk /\ Advance("look")

(* ... and reads a long name, piece by piece (parse_lfn_name), ...         *)
Parse ==
    /\ pc = "parse" /\ call.left > 0 /\ UNCHANGED disk
    /\ LET s == vol.slots[call.dir.pos]
       IN  IF s.kind = "lfn" /\ s.name = call.crc
           THEN Advance("piece")
           ELSE Ends(call.dir, "BROKEN") /\ UNCHANGED <<win, faults>>

Piece ==
    /\ pc = "piece" /\ UNCHANGED disk
    /\ \/ LoadFails(call.dir.pos) /\ Ends(call.dir, "IO")
       \/ /\ Loads(call.dir.pos)
          /\ Goes("parse", [call EXCEPT !.left = @ - 1])

(* ... which the short entry right after it must fit. *)
Parsed ==
    /\ pc = "parse" /\ call.left = 0 /\ UNCHANGED <<disk, win, faults>>
    /\ LET p == call.dir.pos
           s == vol.slots[p]
       IN  IF s.kind = "sfn" /\ s.name = call.crc THEN Delivers(p, s.name)
           ELSE Ends(call.dir, "BROKEN")

(* fat32_dir_close. *)
CloseRefused ==
    /\ pc = "close" /\ ~Used(call.slot)
    /\ Returns("PARAM") /\ UNCHANGED <<disk, g_dirs, win, faults, astray>>
WipedDirOnly(g) == [g EXCEPT !.dir = NoDirP]
Wiped(g) == Unused
Close ==
    /\ pc = "close" /\ Used(call.slot)
    /\ g_dirs' = [g_dirs EXCEPT ![call.slot] = Wiped(@)]
    /\ astray' = [astray EXCEPT ![call.slot] = "no"]
    /\ Returns("NONE") /\ UNCHANGED <<disk, win, faults>>

Step == \/ OpenFull \/ OpenFails \/ OpenRoot \/ OpenEntry
        \/ ReadRefused \/ Read \/ Look \/ Skip \/ Parse \/ Piece \/ Parsed
        \/ CloseRefused \/ Close

(* Programs pass any number for a descriptor. *)
Next ==
    \/ BeginOpen
    \/ \E fd \in -1 .. MaxOpenDirs : BeginOn("read", fd) \/ BeginOn("close", fd)
    \/ Step

Spec == Init /\ [][Next]_vars

(* A call runs in one thread to its end. *)
FairSpec == Spec /\ WF_vars(Step)
-----------------------------------------------------------------------------
(* The sector of an open slot is in the cluster it names. *)
TypeOK ==
    /\ disk \in DOMAIN Volumes
    /\ \A s \in Slots :
         /\ {g_dirs[s].used, g_dirs[s].need_next} \subseteq BOOLEAN
         /\ g_dirs[s].dir.pos \in Nat
         /\ g_dirs[s].used => g_dirs[s].dir.clust \in {ClustOf(p) : p \in Cells}
         /\ g_dirs[s].used /\ astray[s] = "no" => ClustOf(g_dirs[s].dir.pos) = g_dirs[s].dir.clust
    /\ pc \in {"idle", "open", "read", "look", "skip", "parse", "piece", "close"}
    /\ call.left \in Nat
    /\ faults \in 0 .. MaxFaults
    /\ \A s \in Slots : astray[s] \in {"no", "EOF", "IO", "BROKEN"}

(* The entries a listing of directory d has to give, by the layout alone:  *)
(* the place and the name of each.                                         *)
Entries(v, d) ==
    LET ps == Live(v, d)
        at(i) == v.slots[ps[i]]
        keep(i) == at(i).kind = "sfn" /\ ~at(i).skip
        name(i) == IF i > 1 /\ at(i - 1).kind = "lfn" THEN at(i).name ELSE at(i).alias
        idx == SelectSeq([i \in DOMAIN ps |-> i], keep)
    IN  [k \in DOMAIN idx |-> [at |-> idx[k], name |-> name(idx[k])]]

Names(es) == [k \in DOMAIN es |-> es[k].name]

(* What there is to deliver from each place of a disk on, the place        *)
(* included (now) or not.                                                  *)
From(v, d, i, now) ==
    Names(SelectSeq(Entries(v, d), LAMBDA e : e.at > i \/ (now /\ e.at = i)))

Rest == [k \in DOMAIN Volumes |->
    LET v  == Volumes[k]
        at == [p \in DOMAIN v.slots |-> {<<d, i>> \in (DOMAIN v.dirs) \X DOMAIN v.slots :
                 i \in DOMAIN Positions(v, d) /\ Positions(v, d)[i] = p}]
    IN  [p \in {q \in DOMAIN v.slots : at[q] # {}} |->
           LET x == CHOOSE y \in at[p] : TRUE
           IN  [now \in BOOLEAN |-> From(v, x[1], x[2], now)]]]

AllListings == UNION {{Names(Entries(Volumes[k], d)) : d \in DOMAIN Volumes[k].dirs} :
                      k \in DOMAIN Volumes}

Table == INSTANCE DirTable WITH
    Closed    <- <<"(closed)">>,
    Unknown   <- <<"(unknown)">>,
    Listings  <- AllListings,
    todo      <- [s \in Slots |-> IF ~g_dirs[s].used THEN <<"(closed)">>
                                  ELSE IF astray[s] # "no" THEN <<"(unknown)">>
                                  ELSE Rest[disk][g_dirs[s].dir.pos][~g_dirs[s].need_next]],
    out       <- res

(* The slots are a table of listings, each entry once and in order.        *)
ImplementsTable == Table!Spec

(* And the slots hold what the code can store in them.                     *)
SlotsSound == []TypeOK /\ ImplementsTable

(* Every call returns: directories are followed to an end. *)
CallsReturn == pc # "idle" ~> pc = "idle"
=============================================================================
