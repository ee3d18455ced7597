------------------------------- MODULE FatDir -------------------------------
(***************************************************************************)
(* One directory of src/trfs/fat32/fat.c: slots of 32 bytes in the sectors *)
(* of a chain of clusters.  An entry is a short-name slot (SFN) after the  *)
(* fragments of its long name (LFN), the last fragment first.  Searching,  *)
(* adding and removing entries go slot by slot through the window of       *)
(* FatWindow, and power can be lost between any two transfers.             *)
(*                                                                         *)
(* A place in the directory (dir->clust, dir->sect and dir->idx) is the    *)
(* number of its slot, counted along the chain.  All sectors that are not  *)
(* the directory's stand as one, OtherSect, of which only the length of    *)
(* the directory's chain is of interest.                                   *)
(*                                                                         *)
(* A definition that stands right before another and extends its name is a *)
(* mistake the code could have made, as in FatVolume.                      *)
(***************************************************************************)
EXTENDS FatWindow, Sequences, FiniteSets

CONSTANTS
    Names,          \* names callers use
    Frags,          \* fragments of 13 characters that each takes
    Short,          \* what put_sfn_name makes of it; names can share one
    PerSect,        \* slots of a sector (16 in the code)
    SectsPerClust,  \* sectors of a cluster
    MaxClust,       \* bound: clusters the directory can have
    Seeds           \* sequences of names the directory may hold at first

ClustSlots == PerSect * SectsPerClust

ASSUME DirAssumption ==
    /\ Frags \in [Names -> 1 .. 20]
    /\ DOMAIN Short = Names
    /\ PerSect \in Nat \ {0} /\ SectsPerClust \in Nat \ {0} /\ MaxClust \in Nat \ {0}
    /\ Seeds \subseteq Seq(Names)
    /\ \A seed \in Seeds : \A i, j \in DOMAIN seed : seed[i] = seed[j] => i = j

Slots     == 0 .. (MaxClust * ClustSlots - 1)
DirSects  == 0 .. (MaxClust * SectsPerClust - 1)
SectOf(p) == p \div PerSect
OtherSect == MaxClust * SectsPerClust
NoSect    == OtherSect + 1
Cells(s)  == {p \in Slots : SectOf(p) = s}

(* A slot: what its first byte says, and what the rest holds.  Freeing a   *)
(* slot, or making it the end, changes the first byte only.                *)
Lfn(n, k) == [mark |-> "used", kind |-> "lfn", n |-> n, k |-> k]
Sfn(n)    == [mark |-> "used", kind |-> "sfn", n |-> n, k |-> 0]
Zero      == [mark |-> "last", kind |-> "none", n |-> "none", k |-> 0]

(* What a cluster that was never cleared may read as: the end, a free slot,  *)
(* a fragment (of nothing), or the SFN of no name.                          *)
Junk == {[mark |-> m, kind |-> "junk", n |-> "none", k |-> 0] : m \in {"last", "free", "used"}}
          \cup {[mark |-> "used", kind |-> "alien", n |-> "none", k |-> 0]}

IsHead(s) == s.kind = "lfn" /\ s.k = Frags[s.n]

(* The slots of an entry, in their order. *)
Entry == [n \in Names |-> [i \in 1 .. (Frags[n] + 1) |->
                              IF i <= Frags[n] THEN Lfn(n, Frags[n] + 1 - i) ELSE Sfn(n)]]

VARIABLES
    pc,     \* where the running call is; "idle" between calls
    call,   \* the running call: its operation, its name and its locals
    res     \* the last call that returned, and its error code

vars == <<disk, win, faults, pc, call, res>>

Ops  == {"add", "mkdir", "remove", "find", "sync"}
Errs == {"NONE", "IO", "FULL", "EOF", "DENIED", "BROKEN"}
Pcs  == {"idle", "search", "parse", "next", "alloc", "allocSync", "dots", "room", "grow",
         "growSync", "clear", "fill", "release", "releaseSync", "unmark", "flush"}

NoCall == [op |-> "none", n |-> "none", pos |-> 0, loc |-> 0, left |-> 0, match |-> FALSE,
           crc |-> 0, cnt |-> 0, eod |-> FALSE, then |-> "none"]
NoRes  == [op |-> "none", n |-> "none", err |-> "none"]
NoWin  == [sect |-> NoSect, buf |-> [links |-> 0], dirty |-> FALSE]

-----------------------------------------------------------------------------
Return(e) ==
    /\ pc' = "idle"
    /\ call' = NoCall
    /\ res' = [op |-> call.op, n |-> call.n, err |-> e]

Goto(l, c) == pc' = l /\ call' = c /\ UNCHANGED res

Fails(o) == ~o.ok /\ Took(o) /\ Return("IO")


AdvanceSameClust(l, c) ==
    Goto(l, [c EXCEPT !.pos = IF (@ + 1) % ClustSlots # 0 THEN @ + 1 ELSE @ + 1 - ClustSlots])

(* dir_next, then on to l.  At the end of a cluster it asks the FAT. *)
Advance(l, c) ==
    IF (c.pos + 1) % ClustSlots # 0
    THEN Goto(l, [c EXCEPT !.pos = @ + 1])
    ELSE Goto("next", [c EXCEPT !.then = l])

(* How a call goes on when its search has found, or missed, the name. *)
Found(c) == IF call.op = "remove" THEN Goto("release", c) ELSE Return("NONE")

Missed ==
    CASE call.op \in {"add", "mkdir"} -> Goto("alloc", [NoCall EXCEPT !.op = call.op, !.n = call.n])
      [] call.op = "find"             -> Return("DENIED")
      [] call.op = "remove"           -> Return("EOF")

-----------------------------------------------------------------------------
(* The names of a seed in their order from the first slot of the directory *)
(* on, without gaps, in one cluster: at are their first slots, Held(.., i) *)
(* the slots of the i-th.                                                  *)
Held(seed, at, i) == at[i] .. at[i] + Frags[seed[i]]

Laid(seed, at) ==
    /\ \A i \in DOMAIN seed : Held(seed, at, i) \subseteq 0 .. ClustSlots - 1
    /\ \A i, j \in DOMAIN seed : i < j => at[i] + Frags[seed[i]] < at[j]
    /\ \A j \in DOMAIN seed : \A p \in 0 .. at[j] : \E i \in DOMAIN seed : p \in Held(seed, at, i)

(* What slot p of such a directory holds, with an end mark after the names *)
(* if they do not fill the cluster: other systems leave none then.         *)
FirstSlot(seed, at, junk, p) ==
    LET here == {i \in DOMAIN seed : p \in Held(seed, at, i)}
    IN  IF here # {} THEN LET i == CHOOSE i \in here : TRUE IN Entry[seed[i]][p - at[i] + 1]
        ELSE IF p < ClustSlots THEN Zero ELSE junk

Init ==
    /\ \E seed \in Seeds, junk \in Junk : \E at \in [DOMAIN seed -> 0 .. ClustSlots - 1] :
         /\ Laid(seed, at)
         /\ disk = [s \in DirSects \cup {OtherSect} |->
                       IF s = OtherSect THEN [links |-> 1]
                       ELSE [p \in Cells(s) |-> FirstSlot(seed, at, junk, p)]]
    /\ win = NoWin
    /\ faults = 0
    /\ pc = "idle"
    /\ call = NoCall
    /\ res = NoRes

(* fat_file_open with and without FAT_CREATE, fat_dir_create, fat_unlink.  *)
Begin(op, n) ==
    /\ pc = "idle"
    /\ pc' = "search"
    /\ call' = [NoCall EXCEPT !.op = op, !.n = n]
    /\ res' = NoRes
    /\ UNCHANGED <<disk, win, faults>>

BeginSync ==
    /\ pc = "idle"
    /\ pc' = "flush"
    /\ call' = [NoCall EXCEPT !.op = "sync"]
    /\ res' = NoRes
    /\ UNCHANGED <<disk, win, faults>>

(* dir_search looks at one slot. *)
Search ==
    /\ pc = "search"
    /\ \E o \in UpdateBuf(SectOf(call.pos)) :
         \/ Fails(o)
         \/ /\ o.ok /\ Took(o)
            /\ LET s == o.win.buf[call.pos]
                   c == [call EXCEPT !.loc = call.pos]
               IN  \/ s.mark = "last" /\ Missed
                   \/ s.mark = "free" /\ Advance("search", call)
                   \/ /\ s.mark = "used" /\ IsHead(s)
                      /\ Goto("parse", [c EXCEPT !.left = s.k, !.crc = Short[s.n],
                                                 !.match = (s.k = Frags[call.n])])
                   \/ /\ s.mark = "used" /\ s.kind \in {"lfn", "junk"} /\ ~IsHead(s)
                      /\ Return("BROKEN")
                   \/ /\ s.mark = "used" /\ s.kind \in {"sfn", "alien"}
                      /\ IF s.kind = "sfn" /\ Short[s.n] = Short[call.n]
                         THEN Found(c) ELSE Advance("search", c)

FragMatchesOff(s, c) == s.n = c.n /\ s.k = c.left + 1
FragMatches(s, c) == s.n = c.n /\ s.k = c.left

(* parse_lfn_name goes through the fragments, whose first byte it does not *)
(* look at; then dir_search looks at the SFN.                              *)
Parse ==
    /\ pc = "parse"
    /\ \E o \in UpdateBuf(SectOf(call.pos)) :
         \/ Fails(o)
         \/ /\ o.ok /\ Took(o)
            /\ LET s == o.win.buf[call.pos]
                   same == s.kind = (IF call.left > 0 THEN "lfn" ELSE "sfn")
                               /\ Short[s.n] = call.crc
               IN  \/ ~same /\ Return("BROKEN")
                   \/ /\ same /\ call.left > 0
                      /\ Advance("parse", [call EXCEPT !.left = @ - 1,
                                                   !.match = @ /\ FragMatches(s, call)])
                   \/ same /\ call.left = 0 /\ s.mark # "used" /\ Return("BROKEN")
                   \/ /\ same /\ call.left = 0 /\ s.mark = "used"
                      /\ IF call.match THEN Found(call)
                         ELSE Advance("search", [call EXCEPT !.crc = 0])

(* get_fat in dir_next.  Only a search, or looking for room, can meet the  *)
(* end of the chain: the rest go over slots that were there before.        *)
NextInChain ==
    /\ pc = "next"
    /\ \E o \in UpdateBuf(OtherSect) :
         \/ Fails(o)
         \/ /\ o.ok /\ Took(o)
            /\ LET more == call.pos + 1 < o.win.buf.links * ClustSlots IN
               \/ /\ more
                  /\ Goto(call.then, [call EXCEPT !.pos = @ + 1, !.then = "none"])
               \/ ~more /\ call.then = "room" /\ Goto("grow", call)
               \/ ~more /\ call.then # "room" /\ Missed

(* create_chain, of which FatVolume has the detail. *)
Alloc ==
    /\ pc = "alloc"
    /\ \E o \in UpdateBuf(OtherSect) :
         \/ Fails(o)
         \/ o.ok /\ Took(o) /\ Return("FULL")
         \/ Writes(o, "links", o.win.buf.links) /\ Goto("allocSync", call)

AllocSync ==
    /\ pc = "allocSync"
    /\ \E o \in SyncBuf :
         \/ Fails(o)
         \/ o.ok /\ Took(o) /\ Goto(IF call.op = "mkdir" THEN "dots" ELSE "room", call)

(* fat_dir_create clears the new directory and puts its . and .. there. *)
Dots ==
    /\ pc = "dots"
    /\ \E o \in UpdateBuf(OtherSect) :
         \/ Fails(o)
         \/ Writes(o, "links", o.win.buf.links) /\ Goto("room", call)

NeedShort(n) == Frags[n]
Need(n) == Frags[n] + 1

(* dir_add looks for room; loc is the first slot of the run.  It goes on   *)
(* by one slot also after the last it needs, and stretches the chain then. *)
Room ==
    /\ pc = "room" /\ call.cnt < Need(call.n)
    /\ \E o \in UpdateBuf(SectOf(call.pos)) :
         \/ Fails(o)
         \/ /\ o.ok /\ Took(o)
            /\ LET mark == o.win.buf[call.pos].mark
                   fits == call.eod \/ mark # "used"
               IN  Advance("room",
                      [call EXCEPT !.cnt = IF fits THEN @ + 1 ELSE 0,
                                   !.loc = IF fits /\ call.cnt = 0 THEN call.pos ELSE @,
                                   !.eod = @ \/ mark = "last"])

(* stretch_chain in dir_next_stretch. *)
Grow ==
    /\ pc = "grow"
    /\ \E o \in UpdateBuf(OtherSect) :
         \/ Fails(o)
         \/ o.ok /\ Took(o) /\ Return("FULL")
         \/ /\ o.win.buf.links < MaxClust
            /\ Writes(o, "links", o.win.buf.links + 1)
            /\ Goto("growSync", call)

GrowSync ==
    /\ pc = "growSync"
    /\ \E o \in SyncBuf :
         \/ Fails(o)
         \/ o.ok /\ Took(o) /\ Goto("clear", [call EXCEPT !.pos = @ + 1, !.left = 0, !.then = "none"])

ToClearLess == SectsPerClust - 1
ToClear == SectsPerClust

(* clust_clear: the window becomes each sector of the new cluster in turn. *)
Clear ==
    /\ pc = "clear"
    /\ LET s == SectOf(call.pos) + call.left
           zeros == [sect |-> s, buf |-> [p \in Cells(s) |-> Zero], dirty |-> TRUE]
           written == [disk EXCEPT ![s] = zeros.buf]
       IN  \/ \E d \in {disk, written} :
                Fails([win |-> zeros, disk |-> d, ok |-> FALSE])
           \/ /\ Took([win |-> [zeros EXCEPT !.dirty = FALSE], disk |-> written, ok |-> TRUE])
              /\ IF call.left + 1 < ToClear
                 THEN Goto("clear", [call EXCEPT !.left = @ + 1])
                 ELSE Goto("room", [call EXCEPT !.left = 0])

AtFirst(c) == [c EXCEPT !.pos = c.loc, !.loc = 0, !.cnt = 0, !.eod = FALSE, !.left = Frags[c.n]]

(* The slot after the new entry becomes the end of the directory. *)
Mark ==
    /\ pc = "room" /\ call.cnt = Need(call.n)
    /\ IF call.eod
       THEN \E o \in UpdateBuf(SectOf(call.pos)) :
              \/ Fails(o)
              \/ /\ Writes(o, call.pos, [o.win.buf[call.pos] EXCEPT !.mark = "last"])
                 /\ Goto("fill", AtFirst(call))
       ELSE Goto("fill", AtFirst(call)) /\ UNCHANGED <<disk, win, faults>>

FillPartUpwards(c) == IF c.left > 0 THEN Lfn(c.n, Frags[c.n] + 1 - c.left) ELSE Sfn(c.n)
FillPart(c) == IF c.left > 0 THEN Lfn(c.n, c.left) ELSE Sfn(c.n)

(* dir_add writes the fragments, and then the SFN, into the window. *)
Fill ==
    /\ pc = "fill"
    /\ \E o \in UpdateBuf(SectOf(call.pos)) :
         \/ Fails(o)
         \/ /\ Writes(o, call.pos, FillPart(call))
            /\ \/ call.left > 0 /\ Advance("fill", [call EXCEPT !.left = @ - 1])
               \/ call.left = 0 /\ call.op = "add" /\ Return("NONE")
               \/ call.left = 0 /\ call.op = "mkdir" /\ Goto("flush", call)

(* remove_chain.  A chain that an earlier failure has freed reads BROKEN. *)
Release ==
    /\ pc = "release"
    /\ \E o \in UpdateBuf(OtherSect) :
         \/ Fails(o)
         \/ o.ok /\ Took(o) /\ faults > 0 /\ Return("BROKEN")
         \/ Writes(o, "links", o.win.buf.links) /\ Goto("releaseSync", call)

(* remove_entries goes from the first slot of the entry (loc) to the SFN,  *)
(* where the search has stopped.                                           *)
UnmarkFromSfn(c) == [c EXCEPT !.loc = c.pos]
UnmarkFrom(c) == [c EXCEPT !.pos = c.loc, !.loc = c.pos]

ReleaseSync ==
    /\ pc = "releaseSync"
    /\ \E o \in SyncBuf :
         \/ Fails(o)
         \/ o.ok /\ Took(o) /\ Goto("unmark", UnmarkFrom(call))

Unmark ==
    /\ pc = "unmark"
    /\ \E o \in UpdateBuf(SectOf(call.pos)) :
         \/ Fails(o)
         \/ /\ Writes(o, call.pos, [o.win.buf[call.pos] EXCEPT !.mark = "free"])
            /\ IF call.pos = call.loc THEN Goto("flush", call) ELSE Advance("unmark", call)

(* The sync_fs that ends fat_unlink, fat_dir_create and fat_sync. *)
Flush ==
    /\ pc = "flush"
    /\ \E o \in SyncBuf :
         \/ Fails(o)
         \/ o.ok /\ Took(o) /\ Return("NONE")

Crash ==
    /\ faults < MaxFaults
    /\ faults' = faults + 1
    /\ win' = NoWin
    /\ pc' = "idle"
    /\ call' = NoCall
    /\ res' = NoRes
    /\ UNCHANGED disk

Step ==
    \/ Search \/ Parse \/ NextInChain
    \/ Alloc \/ AllocSync \/ Dots
    \/ Room \/ Grow \/ GrowSync \/ Clear \/ Mark \/ Fill
    \/ Release \/ ReleaseSync \/ Unmark \/ Flush

Next ==
    \/ \E op \in Ops \ {"sync"}, n \in Names : Begin(op, n)
    \/ BeginSync
    \/ Step
    \/ Crash

Spec == Init /\ [][Next]_vars

FairSpec == Spec /\ WF_vars(Step)
-----------------------------------------------------------------------------
(* Every variable holds what the code can store in it. *)
TypeOK ==
    /\ DOMAIN disk = DirSects \cup {OtherSect}
    /\ disk[OtherSect].links \in 1 .. MaxClust
    /\ win.sect \in DirSects \cup {OtherSect, NoSect}
    /\ win.dirty \in BOOLEAN
    /\ \A s \in DirSects :
         /\ DOMAIN View(s) = Cells(s)
         /\ \A p \in Cells(s) :
              /\ View(s)[p].mark \in {"used", "free", "last"}
              /\ View(s)[p].kind \in {"lfn", "sfn", "none", "junk", "alien"}
              /\ View(s)[p].n \in Names \cup {"none"}
    /\ pc \in Pcs
    /\ call.op \in Ops \cup {"none"} /\ call.n \in Names \cup {"none"}
    /\ {call.pos, call.loc} \subseteq Slots
    /\ call.left \in 0 .. (IF pc = "clear" THEN SectsPerClust - 1 ELSE 20) /\ call.cnt \in 0 .. 21
    /\ res.err \in Errs \cup {"none"}
    /\ faults \in 0 .. MaxFaults

(* A directory as the driver sees it and as the medium has it: its slots,  *)
(* how many are linked, and which come before the end mark.                *)
Driver   == [p \in Slots |-> View(SectOf(p))[p]]
Medium  == [p \in Slots |-> disk[SectOf(p)][p]]
InView  == View(OtherSect).links * ClustSlots
OnDisk  == disk[OtherSect].links * ClustSlots

Before(dir, p) == \A q \in 0 .. p : dir[q].mark # "last"

(* A whole entry of n stands at slot p, and can be reached. *)
Stands(dir, cnt, n, p) ==
    /\ p + Frags[n] < cnt
    /\ \A i \in 0 .. Frags[n] : dir[p + i] = Entry[n][i + 1]
    /\ Before(dir, p)

Kept == {n \in Names : \E p \in Slots : Stands(Medium, OnDisk, n, p)}
Seen == {n \in Names : \E p \in Slots : Stands(Driver, InView, n, p)}

Searching == pc \in {"search", "parse"} \/ (pc = "next" /\ call.then \in {"search", "parse"})

FindsName == /\ Stands(Driver, InView, call.n, call.loc)
             /\ call.pos = call.loc + Frags[call.n]

(* A search, which parses slot by slot and skips what it does not know,    *)
(* comes to what the entries in the directory say: it stops at the entry   *)
(* of its name, it misses only a name that is not there, and it calls the  *)
(* directory broken only after a failure.                                  *)
SearchIsRight ==
    [][ (Searching /\ ~Searching' /\ faults' = faults) =>
          /\ (faults = 0 /\ (pc' = "release" \/ res'.err = "NONE")) => FindsName
          /\ (pc' = "alloc" \/ res'.err \in {"EOF", "DENIED"}) => call.n \notin Seen
          /\ res'.err = "BROKEN" => faults > 0 ]_vars

(* No name has two entries, for the driver or on the medium. *)
OneEntryEach ==
    \A n \in Names, p, q \in Slots :
        p # q => /\ ~(Stands(Driver, InView, n, p) /\ Stands(Driver, InView, n, q))
                 /\ ~(Stands(Medium, OnDisk, n, p) /\ Stands(Medium, OnDisk, n, q))

(* Until the first failure, and when it strikes, what was never written is  *)
(* hidden on the medium by an end mark before it, if there was one at       *)
(* first: a cluster is linked before it is cleared, but beyond the mark,    *)
(* and dir_add puts the new mark before it takes the old one's place.       *)
Marked == \E p \in Slots : p < OnDisk /\ ~Before(Medium, p)
JunkHidden == \A p \in Slots : p < OnDisk /\ Before(Medium, p) => Medium[p].kind \notin {"junk", "alien"}

JunkStaysHidden == [][ (faults = 0 /\ Marked /\ JunkHidden) => JunkHidden' ]_vars

(* Each failure leaves at most one name in pieces. *)
PiecesBounded ==
    LET pieces == {p \in Slots :
                      /\ p < InView /\ Before(Driver, p) /\ Driver[p].mark = "used"
                      /\ ~\E q \in 0 .. p, n \in Names :
                            p <= q + Frags[n] /\ Stands(Driver, InView, n, q)}
    IN  pc = "idle" => Cardinality({Driver[p].n : p \in pieces}) <= faults

(* A call that reports success has done it: an added name is there, and a  *)
(* removed one is gone from the medium too.  After a failure there can be a *)
(* short name without its long one, and only for a name that shares it can  *)
(* the report be wrong.                                                    *)
ResultsAreTrue ==
    LET shared == faults > 0 /\ \E m \in Names \ {res.n} : Short[m] = Short[res.n]
    IN  /\ res.err = "NONE" /\ res.op \in {"add", "mkdir", "find"} /\ faults = 0 => res.n \in Seen
        /\ res.err = "NONE" /\ res.op = "remove" => res.n \notin Kept \/ shared

(* What the directory holds and what calls have said of it agree.          *)
DirectorySound == TypeOK /\ OneEntryEach /\ ResultsAreTrue

(* Every call returns: searches, the search for room with a growing chain, *)
(* and removing come to an end, also in what failures have left.           *)
CallsReturn == pc # "idle" ~> pc = "idle"

(* What a search finds has the long name that it looks for.  The comment on *)
(* sfn_char says so, but dir_search compares short names where there is no  *)
(* long one.                                                                *)
LongNamesOnly ==
    [][ (Searching /\ (pc' = "release" \/ res'.err = "NONE")) => FindsName ]_vars

Request(c) == [op |-> c.op, n |-> c.n]

Store == INSTANCE DirStore WITH
    seen <- Seen, kept <- Kept, asked <- Request(call), None <- Request(NoCall),
    Requests <- [op : Ops, n : Names \cup {"none"}],
    Adding <- {"add", "mkdir"}, Removing <- "remove"

(* The names move as DirStore says: no call touches the entry of another    *)
(* name, and none is lost or comes back when the power goes.                *)
ImplementsStore == Store!Spec
=============================================================================
