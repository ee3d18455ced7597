---------------------------- MODULE FatFileProofs ----------------------------
(***************************************************************************)
(* Proofs about FatFile, for sectors, clusters and files of any size, any  *)
(* number of handles with any flags, and any number of failed transfers    *)
(* and power losses.                                                       *)
(*                                                                         *)
(* The invariant IInv has three parts.  MediumFits: what the window and    *)
(* the medium have of the FAT and of the entry.  Handling: a handle at     *)
(* rest is where it should be unless a transfer for it failed, and the     *)
(* handle of the running call is as far as the place of the call says      *)
(* (Track), unless the call began with a handle gone astray.  SizesOk: the *)
(* sizes of the handles follow that of the entry, until another handle     *)
(* rewrites it.                                                            *)
(*                                                                         *)
(* FileInv adds what the refinement of ByteFile needs: a clean buffer has  *)
(* the bytes of the medium, and of two handles with one sector neither is  *)
(* dirty (Whole), but for sectors that count as lost (Accounted).  ReadInv *)
(* and ChainInv are for handles that are only read.                        *)
(***************************************************************************)
EXTENDS FatFile, FatWindowProofs

AllFlags == {"READ", "WRITE", "APPEND", "TRUNC"}
Spots    == Sectors \cup {NoSect}
HandleSet ==
    [open : BOOLEAN, flags : SUBSET AllFlags, size : 0 .. MaxOff, offset : 0 .. MaxOff,
     clust : 1 .. MaxClusts, sect : Spots, buf : Buffers, dirty : BOOLEAN, acc : BOOLEAN,
     mod : BOOLEAN, at : Spots, hurt : BOOLEAN, late : BOOLEAN]

Clust(o) == o \div ClustSize

Sects    == {"fat", "dir"}
FatVals  == [len : 1 .. MaxClusts]
DirVals  == [size : 0 .. MaxOff]
NoVal    == [x \in {} |-> 0]
AllVals  == FatVals \cup DirVals \cup {NoVal}

MediumFits ==
    /\ WindowFits(Sects, "none", AllVals)
    /\ disk["fat"] \in FatVals /\ View("fat") \in FatVals
    /\ disk["dir"] \in DirVals /\ View("dir") \in DirVals
    /\ data \in [Sectors -> Buffers]

Ops     == {"open", "read", "write", "seek", "sync", "close"}
Seeking == {"follow", "stretch", "stretchSync", "back", "fill"}
Closing == {"put", "touch", "flush"}
Pcs     == {"idle", "find", "chunk"} \cup Seeking \cup Closing

Errors == {"NONE", "IO", "FULL", "EOF"}

CallSet ==
    [op : Ops \cup {"none"}, h : Handles \cup {"none"}, flags : SUBSET AllFlags,
     len : 0 .. MaxLen, val : Vals \cup {0}, ssect : Spots, off : 0 .. MaxOff,
     left : 0 .. Clust(MaxOff)]

(* A handle between calls, and one whose file is being opened. *)
Shut(f)  == f = NoHandle
Ready(f) == f.open /\ f.sect \in Sectors /\ f.at \in Sectors /\ (f.dirty => "WRITE" \in f.flags)
Young(f) == f.open /\ f.at = NoSect /\ ~f.dirty

Running(h)  == pc # "idle" /\ call.h = h

(* What a call can be at a place, whatever has happened to its handle. *)
CallOk(p, c, f) ==
    /\ p \in Pcs /\ c \in CallSet
    /\ p = "idle" => c = NoCall
    /\ p # "idle" => c.h \in Handles /\ c.op \in Ops
    /\ p = "find" => c.op = "open" /\ Shut(f)
    /\ p \in Seeking => /\ c.op \in {"open", "seek", "read", "write"}
                        /\ IF c.op = "open" THEN Young(f) /\ c.ssect = NoSect
                           ELSE Ready(f) /\ c.ssect \in Sectors
    /\ p = "chunk" => c.op \in {"read", "write"} /\ Ready(f)
    /\ p \in Closing => c.op \in {"sync", "close"} /\ Ready(f)
    /\ c.op = "write" => "WRITE" \in f.flags /\ c.val \in Vals
    /\ p \in {"stretch", "stretchSync"} => c.left > 0
    /\ p = "stretchSync" => f.clust < MaxClusts
    /\ p = "back" => c.op # "open"
    /\ p \in {"back", "fill"} => f.sect \in Sectors

CallFits ==
    /\ CallOk(pc, call, Handle) /\ spoilt \in BOOLEAN
    /\ res.err \in Errors /\ lost \subseteq Sectors
    /\ faults \in 0 .. MaxFaults

(* A handle stands where its offset says. *)
Stands(f) == f.clust = Clust(f.offset) + 1 /\ f.sect = SectAt(f.clust, f.offset)

(* How far a call is that did not begin astray. *)
FollowOk(c, f) ==
    /\ f.at = c.ssect /\ f.clust + c.left = Clust(c.off) + 1
    /\ c.op \in {"read", "write"} =>
         /\ f.sect = c.ssect /\ f.sect = SectAt(Clust(f.offset) + 1, f.offset)
         /\ c.left <= 1
         /\ c.left > 0 => f.clust = Clust(f.offset) + 1
BufferOk(c, f) == Stands(f) /\ f.at = c.ssect /\ c.ssect # f.sect
ChunkOk(c, f)  == Sane(f) \/ (f.hurt /\ c.len = 0 /\ c.op = "write")

TrackOk(p, c, f) ==
    /\ p \in {"follow", "stretch", "stretchSync"} => FollowOk(c, f)
    /\ p = "back" => BufferOk(c, f) /\ f.dirty
    /\ p = "fill" => BufferOk(c, f) /\ ~f.dirty
    /\ p = "chunk" => ChunkOk(c, f)
    /\ p \in Closing => Sane(f)

(* The running call is where it should be, or it began astray. *)
Track(sp, p, c, f) == IF sp THEN p # "idle" => f.hurt ELSE TrackOk(p, c, f)

(* A handle at rest is where it should be, unless a transfer for it failed. *)
Rests(f) == (Shut(f) \/ Ready(f)) /\ (f.hurt \/ Shut(f) \/ Sane(f))
HandlesFit ==
    /\ hs \in [Handles -> HandleSet]
    /\ \A h \in Handles : ~Running(h) => Rests(hs[h])

(* The sizes of the handles and of the entry. *)
SizeOk(f, n) == /\ ~f.late /\ ~f.mod => f.size = n
                /\ ~f.late /\ "TRUNC" \notin f.flags => f.size >= n
SizesOk == /\ \A h \in Handles : hs[h].open => SizeOk(hs[h], View("dir").size)
           /\ pc = "flush" => Handle.late \/ Handle.size = View("dir").size
           /\ pc \in {"touch", "flush"} => data[Handle.sect] = Handle.buf
           /\ call.op = "write" => Handle.mod

Handling == HandlesFit /\ CallFits /\ Track(spoilt, pc, call, Handle)

IInv == MediumFits /\ Handling /\ SizesOk
-----------------------------------------------------------------------------
LEMMA Constants ==
    /\ SectSize \in Nat /\ SectSize > 0 /\ ClustSects \in Nat /\ ClustSects > 0
    /\ MaxClusts \in Nat /\ MaxClusts > 0 /\ MaxLen \in Nat /\ MaxLen > 0
    /\ MaxOff \in Nat /\ MaxOff >= ClustSize /\ MaxFaults \in Nat
    /\ ClustSize \in Nat /\ ClustSize > 0 /\ ClustSize >= SectSize
    /\ MaxClusts * ClustSects \in Nat
    /\ Sectors \subseteq Nat /\ NoSect \notin Sectors /\ "none" \notin Handles
    /\ Vals \subseteq Nat /\ NoBuf \in Buffers
  <1>1. /\ SectSize \in Nat /\ SectSize > 0 /\ ClustSects \in Nat /\ ClustSects > 0
        /\ MaxClusts \in Nat /\ MaxClusts > 0 /\ MaxLen \in Nat /\ MaxLen > 0
        /\ MaxOff \in Nat /\ MaxOff >= ClustSize /\ MaxFaults \in Nat /\ "none" \notin Handles
        /\ Vals \subseteq Nat
    BY FileAssumption, WindowAssumption
  <1>2. \A m, n \in Nat : m > 0 /\ n > 0 => m * n \in Nat /\ m * n >= m /\ m * n > 0
    <2> TAKE m, n \in Nat
    <2> SUFFICES ASSUME m > 0, n > 0 PROVE m * n \in Nat /\ m * n >= m /\ m * n > 0  OBVIOUS
    <2>1. n - 1 \in Nat /\ m * (n - 1) \in Nat /\ m * n = m * (n - 1) + m  OBVIOUS
    <2> QED BY <2>1
  <1>3. ClustSize \in Nat /\ ClustSize > 0 /\ ClustSize >= SectSize  BY <1>1, <1>2 DEF ClustSize
  <1>4. MaxClusts * ClustSects \in Nat  BY <1>1, <1>2
  <1>5. Sectors \subseteq Nat /\ NoSect \notin Sectors  BY <1>4 DEF Sectors, NoSect
  <1>6. NoBuf \in Buffers  BY FileAssumption DEF NoBuf, Buffers
  <1> QED BY <1>1, <1>3, <1>4, <1>5, <1>6

(* The record of a handle, and one of its fields changed. *)
LEMMA HandleIs ==
    ASSUME NEW f \in HandleSet
    PROVE  /\ f.open \in BOOLEAN /\ f.flags \subseteq AllFlags /\ f.size \in 0 .. MaxOff
           /\ f.offset \in 0 .. MaxOff /\ f.clust \in 1 .. MaxClusts /\ f.sect \in Spots
           /\ f.buf \in Buffers /\ f.dirty \in BOOLEAN /\ f.acc \in BOOLEAN /\ f.mod \in BOOLEAN
           /\ f.at \in Spots /\ f.hurt \in BOOLEAN /\ f.late \in BOOLEAN
  BY DEF HandleSet

Alike(g, f) ==
    /\ g.open = f.open /\ g.flags = f.flags /\ g.size = f.size /\ g.buf = f.buf
    /\ g.dirty = f.dirty /\ g.acc = f.acc /\ g.mod = f.mod /\ g.at = f.at /\ g.late = f.late

LEMMA HurtIs ==
    ASSUME NEW f \in HandleSet, NEW b \in BOOLEAN, NEW g, g = [f EXCEPT !.hurt = b]
    PROVE  /\ g \in HandleSet /\ g.hurt = b /\ Alike(g, f)
           /\ g.clust = f.clust /\ g.sect = f.sect /\ g.offset = f.offset
  BY DEF HandleSet, Alike

Moved(f, s, o) == [f EXCEPT !.sect = s, !.offset = o]

LEMMA PlaceIs ==
    ASSUME NEW f \in HandleSet, NEW g, NEW s \in Spots, NEW o \in 0 .. MaxOff, g = Moved(f, s, o)
    PROVE  /\ g \in HandleSet /\ Alike(g, f)
           /\ g.clust = f.clust /\ g.sect = s /\ g.offset = o /\ g.hurt = f.hurt
  BY DEF HandleSet, Alike, Moved

LEMMA ClosedIs == NoHandle \in HandleSet /\ ~NoHandle.open /\ NoHandle.at = NoSect /\ ~NoHandle.dirty /\ ~NoHandle.hurt
  BY Constants DEF NoHandle, HandleSet, Spots

LEMMA TurnedBack ==
    ASSUME NEW f \in HandleSet, NEW g, g = Backtrack(f), SectAt(1, 0) \in Spots
    PROVE  /\ g \in HandleSet /\ Alike(g, f) /\ g.clust = 1 /\ g.sect = SectAt(1, 0) /\ g.offset = 0
           /\ g.hurt = f.hurt
  <1> DEFINE s == SectAt(1, 0)
  <1>1. 1 \in 1 .. MaxClusts /\ 0 \in 0 .. MaxOff /\ s \in Spots  BY Constants
  <1>2. g = [f EXCEPT !.clust = 1, !.sect = s, !.offset = 0]  BY DEF Backtrack
  <1> HIDE DEF s
  <1>3. /\ g \in HandleSet /\ Alike(g, f) /\ g.clust = 1 /\ g.sect = s /\ g.offset = 0 /\ g.hurt = f.hurt
    BY <1>1, <1>2 DEF HandleSet, Alike
  <1> QED BY <1>3 DEF s

LEMMA MovedOn ==
    ASSUME NEW f \in HandleSet, NEW c \in 1 .. MaxClusts, NEW g, g = [f EXCEPT !.clust = c]
    PROVE  /\ g \in HandleSet /\ Alike(g, f) /\ g.clust = c /\ g.sect = f.sect /\ g.offset = f.offset
           /\ g.hurt = f.hurt
  BY DEF HandleSet, Alike

Placed(g, f) == g.clust = f.clust /\ g.sect = f.sect /\ g.offset = f.offset /\ g.hurt = f.hurt

Loaded(f, b, s) == [f EXCEPT !.buf = b, !.at = s]

LEMMA LoadedIs ==
    ASSUME NEW f \in HandleSet, NEW b \in Buffers, NEW s \in Spots, NEW g, g = Loaded(f, b, s)
    PROVE  /\ g \in HandleSet /\ Placed(g, f) /\ g.buf = b /\ g.at = s
           /\ g.open = f.open /\ g.flags = f.flags /\ g.size = f.size /\ g.dirty = f.dirty
           /\ g.acc = f.acc /\ g.mod = f.mod /\ g.late = f.late
  BY DEF HandleSet, Placed, Loaded

Written(f, b) == [f EXCEPT !.buf = b, !.dirty = TRUE]

LEMMA WrittenIs ==
    ASSUME NEW f \in HandleSet, NEW b \in Buffers, NEW g, g = Written(f, b)
    PROVE  /\ g \in HandleSet /\ Placed(g, f) /\ g.buf = b /\ g.at = f.at
           /\ g.open = f.open /\ g.flags = f.flags /\ g.size = f.size /\ g.dirty
           /\ g.acc = f.acc /\ g.mod = f.mod /\ g.late = f.late
  BY DEF HandleSet, Placed, Written

LEMMA CleanedIs ==
    ASSUME NEW f \in HandleSet, NEW g, g = [f EXCEPT !.dirty = FALSE]
    PROVE  /\ g \in HandleSet /\ Placed(g, f) /\ g.buf = f.buf /\ g.at = f.at
           /\ g.open = f.open /\ g.flags = f.flags /\ g.size = f.size /\ ~g.dirty
           /\ g.acc = f.acc /\ g.mod = f.mod /\ g.late = f.late
  BY DEF HandleSet, Placed

(* Changes that are about sizes and dates only. *)
Held(g, f) == /\ Placed(g, f) /\ g.open = f.open /\ g.flags = f.flags /\ g.buf = f.buf /\ g.dirty = f.dirty
              /\ g.at = f.at

LEMMA SizedIs ==
    ASSUME NEW f \in HandleSet, NEW n \in 0 .. MaxOff, NEW g, g = [f EXCEPT !.size = n]
    PROVE  /\ g \in HandleSet /\ Held(g, f) /\ g.size = n /\ g.acc = f.acc /\ g.mod = f.mod /\ g.late = f.late
  BY DEF HandleSet, Placed, Held

LEMMA LateIs ==
    ASSUME NEW f \in HandleSet, NEW g, g = [f EXCEPT !.late = TRUE]
    PROVE  /\ g \in HandleSet /\ Held(g, f) /\ g.size = f.size /\ g.acc = f.acc /\ g.mod = f.mod /\ g.late
  BY DEF HandleSet, Placed, Held

Marked(f, a, m) == [f EXCEPT !.acc = a, !.mod = m]

LEMMA MarkedIs ==
    ASSUME NEW f \in HandleSet, NEW a \in BOOLEAN, NEW m \in BOOLEAN, NEW g, g = Marked(f, a, m)
    PROVE  /\ g \in HandleSet /\ Held(g, f) /\ g.size = f.size /\ g.acc = a /\ g.mod = m /\ g.late = f.late
  BY DEF HandleSet, Placed, Held, Marked

LEMMA TouchedIs ==
    ASSUME NEW f \in HandleSet, NEW m \in BOOLEAN, NEW g, g = Marked(f, TRUE, m)
    PROVE  g \in HandleSet /\ Held(g, f) /\ g.size = f.size /\ g.late = f.late
  BY DEF HandleSet, Placed, Held, Marked

LEMMA CleanIs ==
    ASSUME NEW f \in HandleSet, NEW g, g = Marked(f, FALSE, FALSE)
    PROVE  g \in HandleSet /\ Held(g, f) /\ g.size = f.size /\ ~g.acc /\ ~g.mod /\ g.late = f.late
  BY DEF HandleSet, Placed, Held, Marked

(* A handle as fat_file_open makes it. *)
Blank(fl) == [NoHandle EXCEPT !.open = TRUE, !.flags = fl]

LEMMA OpenedIs ==
    ASSUME NEW fl \in SUBSET AllFlags, NEW n \in 0 .. MaxOff, NEW g,
           g = OpenSize(Blank(fl), n)
    PROVE  /\ g \in HandleSet /\ g.open /\ g.flags = fl /\ g.at = NoSect /\ g.sect = NoSect /\ ~g.dirty /\ ~g.hurt
           /\ ~g.late /\ g.clust = 1 /\ g.offset = 0 /\ (~g.mod => g.size = n)
           /\ ("TRUNC" \notin fl => g.size = n)
  <1> DEFINE e == [NoHandle EXCEPT !.open = TRUE, !.flags = fl]
             cut == "TRUNC" \in fl /\ n # 0
  <1>1. /\ e \in HandleSet /\ e.open /\ e.flags = fl /\ e.at = NoSect /\ e.sect = NoSect /\ ~e.dirty /\ ~e.hurt
        /\ ~e.late /\ e.clust = 1 /\ e.offset = 0 /\ ~e.mod
    <2> DEFINE n0 == NoHandle
    <2>1. /\ n0 \in HandleSet /\ n0.at = NoSect /\ n0.sect = NoSect /\ ~n0.dirty /\ ~n0.hurt
          /\ ~n0.late /\ n0.clust = 1 /\ n0.offset = 0 /\ ~n0.mod
      BY ClosedIs DEF NoHandle
    <2>2. e = [n0 EXCEPT !.open = TRUE, !.flags = fl]  OBVIOUS
    <2> HIDE DEF e, n0
    <2> QED BY <2>1, <2>2 DEF HandleSet
  <1>2. g = [e EXCEPT !.size = IF cut THEN 0 ELSE n, !.mod = cut]  BY <1>1 DEF OpenSize, Blank
  <1> HIDE DEF e
  <1>3. CASE cut
    <2>1. g = [e EXCEPT !.size = 0, !.mod = TRUE]
      <3>1. (IF cut THEN 0 ELSE n) = 0 /\ cut = TRUE  BY <1>3
      <3> HIDE DEF cut
      <3> QED BY <1>2, <3>1
    <2>2. 0 \in 0 .. MaxOff  BY Constants
    <2> QED BY <1>1, <1>3, <2>1, <2>2 DEF HandleSet
  <1>4. CASE ~cut
    <2>1. g = [e EXCEPT !.size = n, !.mod = FALSE]
      <3>1. (IF cut THEN 0 ELSE n) = n /\ cut = FALSE  BY <1>4
      <3> HIDE DEF cut
      <3> QED BY <1>2, <3>1
    <2> QED BY <1>1, <1>4, <2>1 DEF HandleSet
  <1> QED BY <1>3, <1>4
-----------------------------------------------------------------------------
(* Offsets, sectors and clusters. *)
LEMMA SectorOf ==
    ASSUME NEW c \in 1 .. MaxClusts, NEW o \in Nat
    PROVE  SectAt(c, o) \in Sectors
  <1> DEFINE r == (o \div SectSize) % ClustSects
  <1>1. r \in 0 .. (ClustSects - 1)
    <2>1. o \div SectSize \in Nat  BY Constants, Division
    <2> QED BY <2>1, Constants
  <1> HIDE DEF r
  <1>2. (c - 1) * ClustSects \in Nat /\ (MaxClusts - c) * ClustSects \in Nat  BY Constants
  <1>3. MaxClusts * ClustSects = (MaxClusts - c) * ClustSects + (c - 1) * ClustSects + ClustSects  BY Constants
  <1>4. \A x, y, z, k, m \in Nat : k > 0 /\ m = x + y + k /\ z \in 0 .. (k - 1) => y + z \in 0 .. (m - 1)  OBVIOUS
  <1>5. (c - 1) * ClustSects + r \in 0 .. (MaxClusts * ClustSects - 1)
    <2> DEFINE x == (MaxClusts - c) * ClustSects
               y == (c - 1) * ClustSects
               m == MaxClusts * ClustSects
    <2>1. x \in Nat /\ y \in Nat /\ m \in Nat /\ m = x + y + ClustSects  BY <1>2, <1>3, Constants
    <2> HIDE DEF x, y, m
    <2>2. y + r \in 0 .. (m - 1)  BY <1>1, <1>4, <2>1, Constants
    <2> QED BY <2>2 DEF y, m
  <1> QED BY <1>5 DEF SectAt, Sectors, r

LEMMA ClustIs ==
    /\ \A o \in Nat : Clust(o) \in Nat
    /\ \A a, b \in Nat : a <= b => Clust(a) <= Clust(b)
    /\ \A a, b \in Nat : b <= a + ClustSize => Clust(b) <= Clust(a) + 1
    /\ Clust(0) = 0
  <1>1. \A o \in Nat : Clust(o) \in Nat  BY Constants, Division DEF Clust
  <1>2. \A o, s \in Nat : Clust(o) < s <=> o < s * ClustSize  BY Constants, Division DEF Clust
  <1>3. ASSUME NEW a \in Nat, NEW b \in Nat, a <= b PROVE Clust(a) <= Clust(b)
    <2>1. Clust(b) + 1 \in Nat /\ (Clust(b) + 1) * ClustSize \in Nat  BY <1>1, Constants
    <2>2. b < (Clust(b) + 1) * ClustSize  BY <1>1, <1>2, <2>1
    <2>3. a < (Clust(b) + 1) * ClustSize  BY <1>3, <2>1, <2>2
    <2>4. Clust(a) < Clust(b) + 1  BY <1>2, <2>1, <2>3
    <2> QED BY <1>1, <2>4
  <1>4. ASSUME NEW a \in Nat, NEW b \in Nat, b <= a + ClustSize PROVE Clust(b) <= Clust(a) + 1
    <2>1. Clust(a) + 1 \in Nat /\ Clust(a) + 2 \in Nat  BY <1>1
    <2> DEFINE x == (Clust(a) + 1) * ClustSize
               y == (Clust(a) + 2) * ClustSize
    <2>2. x \in Nat /\ y = x + ClustSize  BY <1>1, Constants
    <2>3. a < x  BY <1>1, <1>2, <2>1
    <2>4. Clust(b) < Clust(a) + 2 <=> b < y  BY <1>2, <2>1
    <2> HIDE DEF x, y
    <2>5. b < y  BY <1>4, <2>2, <2>3, Constants
    <2> QED BY <1>1, <2>4, <2>5
  <1>5. Clust(0) = 0
    <2>1. Clust(0) < 1  BY <1>2, Constants
    <2> QED BY <1>1, <2>1
  <1> QED BY <1>1, <1>3, <1>4, <1>5
-----------------------------------------------------------------------------
(* The record of the running call, and some of its fields changed. *)
LEMMA CallIs ==
    ASSUME NEW c \in CallSet
    PROVE  /\ c.op \in Ops \cup {"none"} /\ c.h \in Handles \cup {"none"} /\ c.flags \subseteq AllFlags
           /\ c.len \in 0 .. MaxLen /\ c.val \in Vals \cup {0} /\ c.ssect \in Spots
           /\ c.off \in 0 .. MaxOff /\ c.left \in 0 .. Clust(MaxOff)
  BY DEF CallSet

LEMMA ToClust == Clust(MaxOff) \in Nat
  BY Constants, ClustIs

LEMMA NoCallIs == NoCall \in CallSet /\ NoCall.op = "none" /\ NoCall.h = "none"
  BY Constants, ToClust DEF NoCall, CallSet, Spots

(* A call that goes on with d does for the same caller what c did. *)
SameCall(d, c) == d \in CallSet /\ d.op = c.op /\ d.h = c.h /\ d.flags = c.flags /\ d.val = c.val

LEMMA NextChunk ==
    ASSUME NEW c \in CallSet, NEW n \in 0 .. MaxLen, NEW d,
           d = [c EXCEPT !.len = n, !.ssect = NoSect, !.off = 0, !.left = 0]
    PROVE  SameCall(d, c) /\ d.len = n
  <1>1. NoSect \in Spots /\ 0 \in 0 .. MaxOff /\ 0 \in 0 .. Clust(MaxOff)  BY Constants, ToClust DEF Spots
  <1> QED BY <1>1 DEF CallSet, SameCall

LEMMA LessLeft ==
    ASSUME NEW c \in CallSet, NEW n \in 0 .. MaxLen, NEW d, d = [c EXCEPT !.len = n]
    PROVE  SameCall(d, c) /\ d.len = n
  BY DEF CallSet, SameCall

SetOut(c, s, o, l) == [c EXCEPT !.ssect = s, !.off = o, !.left = l]

LEMMA SetsOut ==
    ASSUME NEW c \in CallSet, NEW s \in Spots, NEW o \in 0 .. MaxOff, NEW l \in 0 .. Clust(MaxOff), NEW d,
           d = SetOut(c, s, o, l)
    PROVE  SameCall(d, c) /\ d.len = c.len /\ d.ssect = s /\ d.off = o /\ d.left = l
  BY DEF CallSet, SameCall, SetOut

LEMMA GoesOn ==
    ASSUME NEW c \in CallSet, NEW l \in 0 .. Clust(MaxOff), NEW d, d = [c EXCEPT !.left = l]
    PROVE  SameCall(d, c) /\ d.len = c.len /\ d.ssect = c.ssect /\ d.off = c.off /\ d.left = l
  BY DEF CallSet, SameCall

(* The calls that callers begin. *)
Opens(c, h, fl)     == [c EXCEPT !.op = "open", !.h = h, !.flags = fl]
Copies(c, op, h, n, v) == [c EXCEPT !.op = op, !.h = h, !.len = n, !.val = v]
Asks(c, op, h)      == [c EXCEPT !.op = op, !.h = h]

LEMMA OpensIs ==
    ASSUME NEW c \in CallSet, NEW h \in Handles, NEW fl \in SUBSET AllFlags, NEW d, d = Opens(c, h, fl)
    PROVE  d \in CallSet /\ d.op = "open" /\ d.h = h
  BY DEF CallSet, Opens, Ops

LEMMA CopiesIs ==
    ASSUME NEW c \in CallSet, NEW op \in Ops, NEW h \in Handles, NEW n \in 0 .. MaxLen, NEW v \in Vals \cup {0},
           NEW d, d = Copies(c, op, h, n, v)
    PROVE  d \in CallSet /\ d.op = op /\ d.h = h /\ d.val = v
  BY DEF CallSet, Copies

LEMMA AsksIs ==
    ASSUME NEW c \in CallSet, NEW op \in Ops, NEW h \in Handles, NEW d, d = Asks(c, op, h)
    PROVE  d \in CallSet /\ d.op = op /\ d.h = h
  BY DEF CallSet, Asks
-----------------------------------------------------------------------------
(* All handles but h are at rest. *)
Others(h) == \A g \in Handles \ {h} : Rests(hs[g])

(* What steps leave alone or change little. *)
Counts == spoilt \in BOOLEAN /\ res.err \in Errors /\ lost \subseteq Sectors /\ faults \in 0 .. MaxFaults

(* A step that leaves handle h as f, which its call goes on with, and the   *)
(* others at rest.                                                         *)
LEMMA HandlesMove ==
    ASSUME NEW h \in Handles, NEW f \in HandleSet,
           hs' \in [Handles -> HandleSet], hs'[h] = f, \A g \in Handles \ {h} : Rests(hs'[g]),
           CallOk(pc', call', f), Track(spoilt', pc', call', f),
           pc' # "idle" => call'.h = h,
           pc' = "idle" => Rests(f),
           Counts'
    PROVE  Handling'
  <1>2. HandlesFit'
    <2> SUFFICES ASSUME NEW g \in Handles, ~Running(g)' PROVE Rests(hs'[g])
      BY DEF HandlesFit
    <2>1. CASE g = h  BY <2>1 DEF Running
    <2>2. CASE g # h  BY <2>2
    <2> QED BY <2>1, <2>2
  <1>3. CASE pc' # "idle"
    <2>1. Handle' = f  BY <1>3 DEF Handle
    <2>2. CallFits' /\ Track(spoilt', pc', call', Handle')  BY <2>1 DEF CallFits, Counts
    <2> QED BY <1>2, <2>2 DEF Handling
  <1>4. CASE pc' = "idle"
    <2>1. call' = NoCall /\ call' \in CallSet  BY <1>4 DEF CallOk
    <2>2. CallOk(pc', call', Handle')  BY <1>4, <2>1, NoCallIs DEF CallOk, Pcs, Seeking, Closing
    <2>3. Track(spoilt', pc', call', Handle')  BY <1>4 DEF Track, TrackOk, Seeking, Closing
    <2> QED BY <1>2, <2>2, <2>3 DEF Handling, CallFits, Counts
  <1> QED BY <1>3, <1>4

(* A step of the call of handle h, which it leaves as f. *)
LEMMA StepFits ==
    ASSUME NEW h \in Handles, NEW f \in HandleSet, hs \in [Handles -> HandleSet], Others(h),
           hs' = [hs EXCEPT ![h] = f],
           CallOk(pc', call', f), Track(spoilt', pc', call', f),
           pc' # "idle" => call'.h = h,
           pc' = "idle" => Rests(f),
           Counts'
    PROVE  Handling'
  <1>1. /\ hs' \in [Handles -> HandleSet] /\ hs'[h] = f
        /\ \A g \in Handles \ {h} : Rests(hs'[g])
    BY DEF Others
  <1> QED BY <1>1, HandlesMove

SeekOps == {"open", "seek", "read", "write"}

(* When a seek ends with e. *)
SeekOver(sp, c, f, e) ==
    /\ f \in HandleSet /\ c \in CallSet /\ c.h \in Handles /\ c.op \in SeekOps /\ e \in Errors
    /\ c.op = "write" => "WRITE" \in f.flags /\ c.val \in Vals
    /\ (c.op = "open" /\ e # "NONE") \/ Ready(f)
    /\ e = "NONE" /\ ~sp => Sane(f)
    /\ e \in {"FULL", "EOF"} => \/ f.hurt \/ Sane(f)
                                \/ e = "FULL" /\ c.op \in {"open", "seek"}
    /\ sp => f.hurt

LEMMA SeekEndsFits ==
    ASSUME NEW c, NEW f, NEW e, SeekOver(spoilt', c, f, e), SeekEnds(c, f, e),
           hs \in [Handles -> HandleSet], Others(c.h), Counts, spoilt' \in BOOLEAN, lost' \subseteq Sectors, faults' \in 0 .. MaxFaults
    PROVE  Handling'
  <1> DEFINE b == f.hurt \/ e = "IO" \/ (e = "FULL" /\ c.op \in {"open", "seek"})
             g == [f EXCEPT !.hurt = b]
  <1>1. /\ f \in HandleSet /\ c \in CallSet /\ c.h \in Handles /\ c.op \in SeekOps /\ e \in Errors
        /\ c.op = "write" => "WRITE" \in f.flags /\ c.val \in Vals
        /\ (c.op = "open" /\ e # "NONE") \/ Ready(f)
        /\ e = "NONE" /\ ~spoilt' => Sane(f)
        /\ e # "NONE" => b \/ Sane(f)
        /\ spoilt' => b
    BY DEF SeekOver, Errors
  <1>2. /\ hs' = [hs EXCEPT ![c.h] = IF c.op = "open" /\ e # "NONE" THEN NoHandle ELSE g]
        /\ AfterSeek(c.op, e) => Returns(c.op, e)
        /\ ~AfterSeek(c.op, e) =>
              /\ pc' = "chunk" /\ UNCHANGED res
              /\ call' = [c EXCEPT !.len = IF e = "NONE" THEN c.len ELSE 0,
                                   !.ssect = NoSect, !.off = 0, !.left = 0]
    BY DEF SeekEnds
  <1>3. /\ g \in HandleSet /\ g.hurt = b /\ Alike(g, f)
        /\ g.clust = f.clust /\ g.sect = f.sect /\ g.offset = f.offset
    <2>1. b \in BOOLEAN  OBVIOUS
    <2> HIDE DEF b
    <2>2. g = [f EXCEPT !.hurt = b]  OBVIOUS
    <2> HIDE DEF g
    <2> QED BY <1>1, <2>1, <2>2, HurtIs
  <1> HIDE DEF b, g
  <1>4. (Sane(g) <=> Sane(f)) /\ (Ready(f) => Ready(g)) /\ g.flags = f.flags
    BY <1>3 DEF Sane, Ready, Alike
  <1>5. Counts'
    <2>1. CASE AfterSeek(c.op, e)  BY <1>1, <1>2, <2>1 DEF Counts, Returns
    <2>2. CASE ~AfterSeek(c.op, e)  BY <1>2, <2>2 DEF Counts
    <2> QED BY <2>1, <2>2
  <1>6. CASE AfterSeek(c.op, e)
    <2> DEFINE k == IF c.op = "open" /\ e # "NONE" THEN NoHandle ELSE g
    <2>1. pc' = "idle" /\ call' = NoCall  BY <1>2, <1>6 DEF Returns
    <2>2. k \in HandleSet /\ Rests(k)
      <3>1. Rests(NoHandle) /\ NoHandle \in HandleSet  BY ClosedIs DEF Rests, Shut
      <3>2. CASE c.op = "open" /\ e # "NONE"  BY <3>1, <3>2
      <3>3. CASE ~(c.op = "open" /\ e # "NONE")
        <4>1. Rests(g)  BY <1>1, <1>3, <1>4, <3>3 DEF Rests
        <4> QED BY <1>3, <3>3, <4>1
      <3> QED BY <3>2, <3>3
    <2>3. hs' = [hs EXCEPT ![c.h] = k]  BY <1>2
    <2> HIDE DEF k
    <2>4. CallOk(pc', call', k) /\ Track(spoilt', pc', call', k)
      BY <2>1, NoCallIs DEF CallOk, Track, TrackOk, Pcs, Seeking, Closing
    <2> QED BY <1>1, <1>5, <2>1, <2>2, <2>3, <2>4, StepFits
  <1>7. CASE ~AfterSeek(c.op, e)
    <2>1. c.op \in {"read", "write"} /\ (c.op = "read" => e = "NONE")
      BY <1>1, <1>7 DEF AfterSeek, SeekOps
    <2>2. hs' = [hs EXCEPT ![c.h] = g] /\ pc' = "chunk"  BY <1>2, <1>7, <2>1
    <2> DEFINE n == IF e = "NONE" THEN c.len ELSE 0
    <2>3. SameCall(call', c) /\ call'.len = n
      <3>1. n \in 0 .. MaxLen  BY <1>1, CallIs, Constants
      <3>2. call' = [c EXCEPT !.len = n, !.ssect = NoSect, !.off = 0, !.left = 0]  BY <1>2, <1>7
      <3> HIDE DEF n
      <3> QED BY <1>1, <3>1, <3>2, NextChunk
    <2>4. CallOk(pc', call', g)
      BY <1>1, <1>3, <1>4, <2>1, <2>2, <2>3 DEF CallOk, SameCall, Pcs, Seeking, Closing, Ops
    <2>5. Track(spoilt', pc', call', g)
      BY <1>1, <1>3, <1>4, <2>1, <2>2, <2>3 DEF Track, TrackOk, ChunkOk, SameCall, Seeking, Closing
    <2> QED BY <1>1, <1>3, <1>5, <2>2, <2>3, <2>4, <2>5, StepFits DEF SameCall
  <1> QED BY <1>6, <1>7

(* What a seek of f to off begins with. *)
SeekReady(sp, c, f, off) ==
    /\ f \in HandleSet /\ c \in CallSet /\ c.h \in Handles /\ c.op \in SeekOps /\ off \in Int
    /\ c.op = "write" => "WRITE" \in f.flags /\ c.val \in Vals
    /\ c.op # "open" => Ready(f) /\ (~sp => Sane(f))
    /\ c.op = "open" => /\ Young(f) /\ f.clust = 1 /\ f.offset = 0 /\ f.sect = NoSect
                        /\ off \in 0 .. MaxOff
    /\ c.op \in {"read", "write"} => off >= f.offset /\ off <= f.offset + ClustSize
    /\ sp => f.hurt

LEMMA SeekBeginsFits ==
    ASSUME NEW c, NEW f, NEW off, SeekReady(spoilt', c, f, off), SeekBegins(c, f, off),
           hs \in [Handles -> HandleSet], Others(c.h), Counts, spoilt' \in BOOLEAN,
           lost' \subseteq Sectors, faults' \in 0 .. MaxFaults
    PROVE  Handling'
  <1>1. /\ f \in HandleSet /\ c \in CallSet /\ c.h \in Handles /\ c.op \in SeekOps /\ off \in Int
        /\ c.op = "write" => "WRITE" \in f.flags /\ c.val \in Vals
        /\ c.op # "open" => Ready(f) /\ (~spoilt' => Sane(f))
        /\ c.op = "open" => /\ Young(f) /\ f.clust = 1 /\ f.offset = 0 /\ f.sect = NoSect
                            /\ off \in 0 .. MaxOff
        /\ c.op \in {"read", "write"} => off >= f.offset /\ off <= f.offset + ClustSize
        /\ spoilt' => f.hurt
    BY DEF SeekReady
  <1>2. CASE off < 0 \/ off > MaxOff
    <2>1. SeekEnds(c, f, "EOF")  BY <1>2 DEF SeekBegins
    <2>2. c.op # "open"  BY <1>1, <1>2, Constants
    <2>3. SeekOver(spoilt', c, f, "EOF")  BY <1>1, <2>2 DEF SeekOver, Errors
    <2> QED BY <2>1, <2>3, SeekEndsFits
  <1>3. CASE off \in 0 .. MaxOff
    <2> DEFINE dst  == Clust(off)
               back == dst < Clust(f.offset)
               g    == IF back THEN Backtrack(f) ELSE f
               l    == dst - Clust(g.offset)
    <2>1. ~(off < 0 \/ off > MaxOff)  BY <1>3, Constants
    <2>2. /\ hs' = [hs EXCEPT ![c.h] = g]
          /\ call' = [c EXCEPT !.ssect = f.sect, !.off = off, !.left = l]
          /\ pc' = "follow" /\ UNCHANGED res
      BY <2>1 DEF SeekBegins, Clust
    <2>3. /\ f.offset \in 0 .. MaxOff /\ f.offset \in Nat /\ off \in Nat /\ f.sect \in Spots /\ f.clust \in Nat
      BY <1>1, <1>3, HandleIs, Constants
    <2>4. dst \in Nat /\ Clust(f.offset) \in Nat /\ dst <= Clust(MaxOff) /\ Clust(0) = 0
      BY <1>3, <2>3, ClustIs, Constants
    <2>5. /\ g \in HandleSet /\ Alike(g, f) /\ g.hurt = f.hurt
          /\ back => g.clust = 1 /\ g.offset = 0 /\ g.sect \in Sectors
          /\ ~back => g = f
      <3>1. CASE back
        <4>1. SectAt(1, 0) \in Sectors  BY SectorOf, Constants
        <4>2. g = Backtrack(f)  BY <3>1
        <4> HIDE DEF g, back
        <4> QED BY <1>1, <3>1, <4>1, <4>2, TurnedBack DEF Spots
      <3>2. CASE ~back
        <4>1. g = f  BY <3>2
        <4> HIDE DEF g, back
        <4> QED BY <1>1, <3>2, <4>1 DEF Alike
      <3> QED BY <3>1, <3>2
    <2>6. l \in 0 .. Clust(MaxOff) /\ l = dst - Clust(g.offset)
      <3>1. CASE back
        <4>1. Clust(g.offset) = 0  BY <2>4, <2>5, <3>1
        <4> HIDE DEF g, back, dst
        <4> QED BY <2>4, <4>1, ToClust
      <3>2. CASE ~back
        <4>1. Clust(g.offset) = Clust(f.offset) /\ Clust(f.offset) <= dst  BY <2>4, <2>5, <3>2
        <4> HIDE DEF g, back, dst
        <4> QED BY <2>4, <4>1, ToClust
      <3> QED BY <3>1, <3>2
    <2>7. /\ SameCall(call', c) /\ call'.ssect = f.sect /\ call'.off = off /\ call'.left = l
      <3>1. l \in 0 .. Clust(MaxOff)  BY <2>6
      <3>2. c \in CallSet /\ f.sect \in Spots  BY <1>1, <2>3
      <3>3. call' = [c EXCEPT !.ssect = f.sect, !.off = off, !.left = l]  BY <2>2
      <3> HIDE DEF l, g, dst, back
      <3>4. call' = SetOut(c, f.sect, off, l)  BY <3>3 DEF SetOut
      <3> QED BY <1>3, <3>1, <3>2, <3>4, SetsOut
    <2>8. c.op # "open" => Ready(g)
      <3>1. c.op # "open" => Ready(f)  BY <1>1
      <3> HIDE DEF g, back
      <3> QED BY <2>5, <3>1 DEF Ready, Alike
    <2>9. c.op = "open" => ~back
      <3>1. c.op = "open" => Clust(f.offset) = 0  BY <1>1, <2>4
      <3> QED BY <2>4, <3>1
    <2>10. CallOk(pc', call', g)
      <3>1. c.op = "open" => Young(g) /\ f.sect = NoSect  BY <1>1, <2>5, <2>9
      <3>2. c.op # "open" => f.sect \in Sectors  BY <1>1 DEF Ready
      <3>3. g.flags = f.flags  BY <2>5 DEF Alike
      <3> HIDE DEF g, back, l, dst
      <3> QED BY <1>1, <2>2, <2>7, <2>8, <3>1, <3>2, <3>3 DEF CallOk, SameCall, SeekOps, Pcs, Seeking, Closing, Ops
    <2>11. Track(spoilt', pc', call', g)
      <3>1. CASE spoilt'  BY <1>1, <2>5, <3>1 DEF Track
      <3>2. CASE ~spoilt'
        <4>1. g.at = f.at /\ f.at = f.sect /\ f.clust = Clust(f.offset) + 1
          <5>1. g.at = f.at  BY <2>5 DEF Alike
          <5>2. c.op = "open" => f.at = NoSect /\ f.sect = NoSect /\ f.clust = 1 /\ f.offset = 0  BY <1>1 DEF Young
          <5>3. c.op # "open" => f.at = f.sect /\ f.clust = Clust(f.offset) + 1  BY <1>1, <3>2 DEF Sane, Clust
          <5> HIDE DEF g
          <5> QED BY <2>4, <5>1, <5>2, <5>3
        <4>2. g.clust = Clust(g.offset) + 1
          <5>1. Clust(0) = 0  BY <2>4
          <5> HIDE DEF g, dst, l, back
          <5>2. back => g.clust = 1 /\ g.offset = 0  BY <2>5
          <5>3. back => Clust(g.offset) = 0  BY <5>1, <5>2
          <5> QED BY <2>5, <4>1, <5>2, <5>3
        <4>3. g.clust + l = dst + 1
          <5>1. \A x, y, z \in Int : x = y + 1 => x + (z - y) = z + 1  OBVIOUS
          <5>2. Clust(g.offset) \in Nat  BY <2>5, HandleIs, ClustIs
          <5> HIDE DEF g, dst
          <5> QED BY <2>4, <4>2, <5>1, <5>2
        <4>4. c.op \in {"read", "write"} => /\ ~back /\ l <= 1
                                            /\ f.sect = SectAt(Clust(f.offset) + 1, f.offset)
          <5> SUFFICES ASSUME c.op \in {"read", "write"} PROVE ~back /\ l <= 1 /\ f.sect = SectAt(Clust(f.offset) + 1, f.offset)
            OBVIOUS
          <5>1. off >= f.offset /\ off <= f.offset + ClustSize  BY <1>1
          <5>2. Clust(f.offset) <= dst /\ dst <= Clust(f.offset) + 1  BY <2>3, <5>1, ClustIs
          <5>3. ~back  BY <2>4, <5>2
          <5>4. Clust(g.offset) = Clust(f.offset)  BY <2>5, <5>3
          <5>5. f.sect = SectAt(Clust(f.offset) + 1, f.offset)  BY <1>1, <3>2, <4>1 DEF Sane
          <5>6. l <= 1
            <6> HIDE DEF g, dst, back
            <6> QED BY <2>4, <5>2, <5>4
          <5> QED BY <5>3, <5>5, <5>6
        <4>5. FollowOk(call', g)
          <5>1. ~back => g = f  BY <2>5
          <5> HIDE DEF g, dst, l, back
          <5>2. g.at = call'.ssect  BY <2>7, <4>1
          <5>3. g.clust + call'.left = Clust(call'.off) + 1  BY <2>7, <4>3 DEF dst
          <5>4. call'.op \in {"read", "write"} => /\ g.sect = call'.ssect
                   /\ g.sect = SectAt(Clust(g.offset) + 1, g.offset) /\ call'.left <= 1
                   /\ g.clust = Clust(g.offset) + 1
            BY <2>7, <4>2, <4>4, <5>1 DEF SameCall
          <5> QED BY <5>2, <5>3, <5>4 DEF FollowOk
        <4> HIDE DEF g
        <4> QED BY <2>2, <3>2, <4>5 DEF Track, TrackOk, Closing
      <3> QED BY <3>1, <3>2
    <2>12. Counts'  BY <2>2 DEF Counts
    <2>13. pc' = "follow" /\ call'.h = c.h  BY <2>2, <2>7 DEF SameCall
    <2> HIDE DEF g, l, dst, back
    <2> QED BY <1>1, <2>2, <2>5, <2>10, <2>11, <2>12, <2>13, StepFits
  <1>4. off < 0 \/ off > MaxOff \/ off \in 0 .. MaxOff  BY <1>1, Constants
  <1> QED BY <1>2, <1>3, <1>4
-----------------------------------------------------------------------------
(* What is known when a step of a running call begins. *)
LEMMA RunningCall ==
    ASSUME Handling, pc # "idle"
    PROVE  /\ hs \in [Handles -> HandleSet] /\ Counts
           /\ call.h \in Handles /\ call \in CallSet /\ call.op \in Ops
           /\ Handle \in HandleSet /\ Handle = hs[call.h] /\ Others(call.h)
           /\ CallOk(pc, call, Handle) /\ Track(spoilt, pc, call, Handle)
  <1>1. CallOk(pc, call, Handle) /\ Track(spoilt, pc, call, Handle) /\ Counts
    BY DEF Handling, CallFits, Counts
  <1>2. call.h \in Handles /\ call \in CallSet /\ call.op \in Ops  BY <1>1 DEF CallOk
  <1>3. hs \in [Handles -> HandleSet] /\ Others(call.h)
    BY DEF Handling, HandlesFit, Others, Running
  <1> QED BY <1>1, <1>2, <1>3 DEF Handle

(* What a call takes from the window can fail, and is counted. *)
LEMMA FaultsFit ==
    ASSUME faults \in 0 .. MaxFaults,
           (\E o : Took(o)) \/ faults' = faults \/ (faults < MaxFaults /\ faults' = faults + 1)
    PROVE  faults' \in 0 .. MaxFaults
  <1>1. faults' = faults \/ (faults < MaxFaults /\ faults' = faults + 1)  BY DEF Took
  <1> QED BY <1>1, Constants

(* A transfer fails. *)
LEMMA TransferFails ==
    ASSUME Handling, pc \in {"find"} \cup Seeking, SeekEnds(call, Handle, "IO"), UNCHANGED spoilt,
           lost' \subseteq Sectors, faults' \in 0 .. MaxFaults
    PROVE  Handling'
  <1>1. pc # "idle"  BY DEF Seeking
  <1>2. /\ hs \in [Handles -> HandleSet] /\ Counts
        /\ call.h \in Handles /\ call \in CallSet
        /\ Handle \in HandleSet /\ Others(call.h)
        /\ CallOk(pc, call, Handle) /\ Track(spoilt, pc, call, Handle)
    BY <1>1, RunningCall
  <1>3. SeekOver(spoilt', call, Handle, "IO")
    <2>1. call.op \in SeekOps /\ (call.op = "open" \/ Ready(Handle))
      BY <1>2 DEF CallOk, SeekOps, Seeking
    <2>2. call.op = "write" => "WRITE" \in Handle.flags /\ call.val \in Vals  BY <1>2 DEF CallOk
    <2>3. spoilt' => Handle.hurt  BY <1>1, <1>2 DEF Track
    <2> QED BY <1>2, <2>1, <2>2, <2>3 DEF SeekOver, Errors
  <1>4. spoilt' \in BOOLEAN  BY <1>2 DEF Counts
  <1> QED BY <1>2, <1>3, <1>4, SeekEndsFits

(* No cluster is free: a handle that was reading or writing has not moved. *)
LEMMA VolumeIsFull ==
    ASSUME Handling, pc = "stretch", SeekEnds(call, Handle, "FULL"), UNCHANGED <<spoilt, faults>>,
           lost' \subseteq Sectors
    PROVE  Handling'
  <1>2. /\ hs \in [Handles -> HandleSet] /\ Counts
        /\ call.h \in Handles /\ call \in CallSet
        /\ Handle \in HandleSet /\ Others(call.h)
        /\ CallOk(pc, call, Handle) /\ Track(spoilt, pc, call, Handle)
    BY RunningCall
  <1>3. SeekOver(spoilt', call, Handle, "FULL")
    <2>1. call.op \in SeekOps /\ (call.op = "open" \/ Ready(Handle)) /\ call.left > 0
      BY <1>2 DEF CallOk, SeekOps, Seeking
    <2>2. call.op = "write" => "WRITE" \in Handle.flags /\ call.val \in Vals  BY <1>2 DEF CallOk
    <2>3. spoilt' => Handle.hurt  BY <1>2 DEF Track
    <2>4. ~spoilt /\ call.op \in {"read", "write"} => Sane(Handle)
      BY <1>2, <2>1 DEF Track, TrackOk, FollowOk, Sane, Clust
    <2> QED BY <1>2, <2>1, <2>2, <2>3, <2>4 DEF SeekOver, Errors, SeekOps
  <1>4. spoilt' \in BOOLEAN /\ faults' \in 0 .. MaxFaults  BY <1>2 DEF Counts
  <1> QED BY <1>2, <1>3, <1>4, SeekEndsFits

(* A step that leaves the handles and the call as they are. *)
LEMMA OnlyMovesOn ==
    ASSUME Handling, pc # "idle", pc' # "idle", UNCHANGED <<hs, call, res, spoilt>>,
           CallOk(pc', call, Handle), Track(spoilt, pc', call, Handle),
           lost' \subseteq Sectors, faults' \in 0 .. MaxFaults
    PROVE  Handling'
  <1>1. /\ hs \in [Handles -> HandleSet] /\ Counts
        /\ call.h \in Handles /\ Handle \in HandleSet /\ Handle = hs[call.h] /\ Others(call.h)
    BY RunningCall
  <1>2. hs' = [hs EXCEPT ![call.h] = Handle]  BY <1>1
  <1>3. Counts'  BY <1>1 DEF Counts
  <1>4. CallOk(pc', call', Handle) /\ Track(spoilt', pc', call', Handle) /\ call'.h = call.h  OBVIOUS
  <1> QED BY <1>1, <1>2, <1>3, <1>4, StepFits

(* The handle goes to the next cluster of its chain. *)
LEMMA NextCluster ==
    ASSUME Handling, pc \in {"follow", "stretchSync"}, call.left > 0, Handle.clust < MaxClusts,
           hs' = [hs EXCEPT ![call.h].clust = @ + 1], call' = [call EXCEPT !.left = @ - 1],
           pc' = "follow", UNCHANGED <<spoilt, res>>, lost' \subseteq Sectors, faults' \in 0 .. MaxFaults
    PROVE  Handling'
  <1>1. /\ hs \in [Handles -> HandleSet] /\ Counts
        /\ call.h \in Handles /\ call \in CallSet
        /\ Handle \in HandleSet /\ Handle = hs[call.h] /\ Others(call.h)
        /\ CallOk(pc, call, Handle) /\ Track(spoilt, pc, call, Handle)
    BY RunningCall
  <1> DEFINE k == Handle.clust + 1
             f == [Handle EXCEPT !.clust = k]
             l == call.left - 1
  <1>2. Handle.clust \in 1 .. MaxClusts /\ k \in 1 .. MaxClusts /\ k = Handle.clust + 1
    <2>1. Handle.clust \in 1 .. MaxClusts  BY <1>1, HandleIs
    <2> QED BY <2>1, Constants
  <1>3. call.left \in Nat /\ l \in 0 .. Clust(MaxOff) /\ l = call.left - 1
    <2>1. call.left \in 0 .. Clust(MaxOff)  BY <1>1, CallIs
    <2> QED BY <2>1, ToClust
  <1>4. hs' = [hs EXCEPT ![call.h] = f]  BY <1>1
  <1>5. call' = [call EXCEPT !.left = l]  OBVIOUS
  <1>6. f = [Handle EXCEPT !.clust = k]  OBVIOUS
  <1> HIDE DEF k, l, f
  <1>7. /\ f \in HandleSet /\ Alike(f, Handle) /\ f.clust = k /\ f.sect = Handle.sect /\ f.offset = Handle.offset
        /\ f.hurt = Handle.hurt
    BY <1>1, <1>2, <1>6, MovedOn
  <1>8. SameCall(call', call) /\ call'.ssect = call.ssect /\ call'.off = call.off /\ call'.left = l
    BY <1>1, <1>3, <1>5, GoesOn
  <1>9. CallOk(pc', call', f)
    <2>1. (Young(Handle) => Young(f)) /\ (Ready(Handle) => Ready(f)) /\ f.flags = Handle.flags
      BY <1>7 DEF Young, Ready, Alike
    <2> QED BY <1>1, <1>8, <2>1 DEF CallOk, SameCall, Pcs, Seeking, Closing
  <1>10. Track(spoilt', pc', call', f)
    <2>1. CASE spoilt  BY <1>1, <1>7, <2>1 DEF Track
    <2>2. CASE ~spoilt
      <3>1. FollowOk(call, Handle)  BY <1>1, <2>2 DEF Track, TrackOk
      <3>2. f.clust + call'.left = Clust(call'.off) + 1
        <4>1. call.off \in Nat  BY <1>1, CallIs, Constants
        <4>2. Clust(call.off) \in Nat  BY <4>1, ClustIs
        <4>3. Handle.clust + call.left = Clust(call.off) + 1  BY <3>1 DEF FollowOk
        <4> QED BY <1>2, <1>3, <1>7, <1>8, <4>2, <4>3
      <3>3. call.op \in {"read", "write"} => call'.left = 0  BY <1>3, <1>8, <3>1 DEF FollowOk
      <3>4. FollowOk(call', f)
        BY <1>7, <1>8, <3>1, <3>2, <3>3 DEF FollowOk, SameCall, Alike
      <3> QED BY <2>2, <3>4 DEF Track, TrackOk, Closing
    <2> QED BY <2>1, <2>2
  <1>11. Counts'  BY <1>1 DEF Counts
  <1>12. call'.h = call.h  BY <1>8 DEF SameCall
  <1> QED BY <1>1, <1>4, <1>7, <1>9, <1>10, <1>11, <1>12, StepFits

(* The call returns e and leaves its handle as f. *)
LEMMA CallReturns ==
    ASSUME Handling, pc # "idle", NEW f \in HandleSet, Rests(f), hs' = [hs EXCEPT ![call.h] = f],
           NEW op, NEW e \in Errors, Returns(op, e), UNCHANGED spoilt,
           lost' \subseteq Sectors, faults' \in 0 .. MaxFaults
    PROVE  Handling'
  <1>1. /\ hs \in [Handles -> HandleSet] /\ Counts /\ call.h \in Handles /\ Others(call.h)
    BY RunningCall
  <1>2. pc' = "idle" /\ call' = NoCall  BY DEF Returns
  <1>3. CallOk(pc', call', f) /\ Track(spoilt', pc', call', f)
    BY <1>2, NoCallIs DEF CallOk, Track, TrackOk, Pcs, Seeking, Closing
  <1>4. Counts'  BY <1>1 DEF Counts, Returns, Errors
  <1> QED BY <1>1, <1>2, <1>3, <1>4, StepFits

(* Arrived where the chain ends: at another sector, or at the same.        *)
LEMMA ArriveFits ==
    ASSUME Handling, Arrive, UNCHANGED spoilt, lost' \subseteq Sectors
    PROVE  Handling'
  <1> DEFINE f == [Handle EXCEPT !.sect = SectAt(Handle.clust, call.off), !.offset = call.off]
  <1>1. pc = "follow" /\ call.left = 0 /\ UNCHANGED <<disk, win, faults, data>>
    BY DEF Arrive, Metadata
  <1>2. /\ hs \in [Handles -> HandleSet] /\ Counts
        /\ call.h \in Handles /\ call \in CallSet
        /\ Handle \in HandleSet /\ Others(call.h)
        /\ CallOk(pc, call, Handle) /\ Track(spoilt, pc, call, Handle)
    BY <1>1, RunningCall
  <1>3. /\ call.off \in 0 .. MaxOff /\ call.off \in Nat /\ Handle.clust \in 1 .. MaxClusts
        /\ SectAt(Handle.clust, call.off) \in Sectors
    <2>1. call.off \in 0 .. MaxOff /\ Handle.clust \in 1 .. MaxClusts  BY <1>2, CallIs, HandleIs
    <2>2. call.off \in Nat  BY <2>1, Constants
    <2> QED BY <2>1, <2>2, SectorOf
  <1>4. /\ f \in HandleSet /\ Alike(f, Handle) /\ f.clust = Handle.clust
        /\ f.sect = SectAt(Handle.clust, call.off) /\ f.offset = call.off /\ f.hurt = Handle.hurt
    <2>1. SectAt(Handle.clust, call.off) \in Spots  BY <1>3 DEF Spots
    <2>2. f = Moved(Handle, SectAt(Handle.clust, call.off), call.off)  BY DEF Moved
    <2> HIDE DEF f
    <2> QED BY <1>2, <1>3, <2>1, <2>2, PlaceIs
  <1>5. IF f.sect = call.ssect
        THEN SeekEnds(call, f, "NONE")
        ELSE hs' = [hs EXCEPT ![call.h] = f] /\ pc' = FirstTransfer(f) /\ UNCHANGED <<call, res>>
    BY DEF Arrive, SameSector
  <1> HIDE DEF f
  <1>6. /\ call.op \in SeekOps
        /\ IF call.op = "open" THEN Young(f) /\ call.ssect = NoSect ELSE Ready(f) /\ call.ssect \in Sectors
        /\ call.op = "write" => "WRITE" \in f.flags /\ call.val \in Vals
        /\ spoilt => f.hurt
    <2>1. IF call.op = "open" THEN Young(Handle) /\ call.ssect = NoSect
          ELSE Ready(Handle) /\ call.ssect \in Sectors
      BY <1>1, <1>2 DEF CallOk, Seeking
    <2>2. /\ call.op \in SeekOps /\ (call.op = "write" => "WRITE" \in Handle.flags /\ call.val \in Vals)
          /\ spoilt => Handle.hurt
      BY <1>1, <1>2 DEF CallOk, Track, SeekOps, Seeking
    <2> QED BY <1>3, <1>4, <2>1, <2>2 DEF Young, Ready, Alike
  <1>7. ~spoilt => Stands(f) /\ f.at = call.ssect
    <2> SUFFICES ASSUME ~spoilt PROVE Stands(f) /\ f.at = call.ssect  OBVIOUS
    <2>1. Handle.at = call.ssect /\ Handle.clust + call.left = Clust(call.off) + 1
      BY <1>1, <1>2 DEF Track, TrackOk, FollowOk
    <2>2. Handle.clust = Clust(call.off) + 1
      <3>1. Handle.clust \in Nat  BY <1>3, Constants
      <3> QED BY <1>1, <2>1, <3>1
    <2> QED BY <1>4, <2>1, <2>2 DEF Stands, Alike
  <1>8. spoilt' \in BOOLEAN /\ faults' \in 0 .. MaxFaults  BY <1>1, <1>2 DEF Counts
  <1>9. CASE f.sect = call.ssect
    <2>1. call.op # "open"  BY <1>3, <1>4, <1>6, <1>9, Constants
    <2>2. ~spoilt => Sane(f)  BY <1>7, <1>9 DEF Stands, Sane, Clust
    <2>3. SeekOver(spoilt', call, f, "NONE")
      BY <1>2, <1>4, <1>6, <2>1, <2>2 DEF SeekOver, Errors
    <2> QED BY <1>2, <1>5, <1>8, <1>9, <2>3, SeekEndsFits
  <1>10. CASE f.sect # call.ssect
    <2>1. /\ hs' = [hs EXCEPT ![call.h] = f] /\ UNCHANGED <<call, res>>
          /\ pc' = IF f.dirty THEN "back" ELSE "fill"
      BY <1>5, <1>10 DEF FirstTransfer
    <2>2. f.dirty => call.op # "open"  BY <1>6 DEF Young
    <2>3. CallOk(pc', call', f)
      BY <1>2, <1>3, <1>4, <1>6, <2>1, <2>2 DEF CallOk, SeekOps, Pcs, Seeking, Closing, Ops
    <2>4. Track(spoilt', pc', call', f)
      BY <1>6, <1>7, <1>10, <2>1 DEF Track, TrackOk, BufferOk, Closing
    <2>5. Counts' /\ pc' # "idle" /\ call'.h = call.h  BY <1>2, <1>8, <2>1 DEF Counts
    <2> QED BY <1>2, <1>4, <2>1, <2>3, <2>4, <2>5, StepFits
  <1> QED BY <1>9, <1>10

(* The buffer goes to its old sector, and is filled from its new one. *)
LEMMA BackFits ==
    ASSUME Handling, Back, UNCHANGED spoilt, lost' \subseteq Sectors
    PROVE  Handling'
  <1>1. pc = "back"  BY DEF Back
  <1>2. /\ hs \in [Handles -> HandleSet] /\ Counts
        /\ call.h \in Handles /\ call \in CallSet
        /\ Handle \in HandleSet /\ Handle = hs[call.h] /\ Others(call.h)
        /\ CallOk(pc, call, Handle) /\ Track(spoilt, pc, call, Handle)
    BY <1>1, RunningCall
  <1>3. faults' \in 0 .. MaxFaults
    <2>1. faults \in 0 .. MaxFaults  BY <1>2 DEF Counts
    <2>2. faults' = faults \/ (faults < MaxFaults /\ faults' = faults + 1)
      BY DEF Back, PutFails, Faulted, Metadata
    <2> QED BY <2>1, <2>2, FaultsFit
  <1>4. CASE PutFails(call.ssect)
    <2>1. SeekEnds(call, Handle, "IO")  BY <1>4 DEF PutFails
    <2> QED BY <1>1, <1>3, <2>1, TransferFails DEF Seeking
  <1>5. CASE hs' = [hs EXCEPT ![call.h].dirty = FALSE] /\ pc' = "fill" /\ UNCHANGED <<call, res>>
    <2> DEFINE f == [Handle EXCEPT !.dirty = FALSE]
    <2>1. hs' = [hs EXCEPT ![call.h] = f]  BY <1>2, <1>5
    <2>2. /\ f \in HandleSet /\ Placed(f, Handle) /\ f.at = Handle.at /\ f.open = Handle.open
          /\ f.flags = Handle.flags /\ ~f.dirty
      <3>1. f = [Handle EXCEPT !.dirty = FALSE]  OBVIOUS
      <3> HIDE DEF f
      <3> QED BY <1>2, <3>1, CleanedIs
    <2> HIDE DEF f
    <2>3. CallOk(pc', call', f)
      <3>1. (Young(Handle) => Young(f)) /\ (Ready(Handle) => Ready(f))
        BY <2>2 DEF Young, Ready, Placed
      <3> QED BY <1>1, <1>2, <1>5, <2>2, <3>1 DEF CallOk, Pcs, Seeking, Closing, Placed
    <2>4. Track(spoilt', pc', call', f)
      BY <1>1, <1>2, <1>5, <2>2 DEF Track, TrackOk, BufferOk, Stands, Placed, Closing
    <2>5. Counts' /\ pc' # "idle" /\ call'.h = call.h  BY <1>2, <1>3, <1>5 DEF Counts
    <2> QED BY <1>2, <2>1, <2>2, <2>3, <2>4, <2>5, StepFits
  <1> QED BY <1>4, <1>5 DEF Back

LEMMA FillFits ==
    ASSUME MediumFits, Handling, Fill, UNCHANGED spoilt, lost' \subseteq Sectors
    PROVE  Handling'
  <1>1. pc = "fill"  BY DEF Fill
  <1>2. /\ hs \in [Handles -> HandleSet] /\ Counts
        /\ call.h \in Handles /\ call \in CallSet
        /\ Handle \in HandleSet /\ Others(call.h)
        /\ CallOk(pc, call, Handle) /\ Track(spoilt, pc, call, Handle)
    BY <1>1, RunningCall
  <1>3. faults' \in 0 .. MaxFaults /\ spoilt' \in BOOLEAN
    <2>1. faults \in 0 .. MaxFaults /\ spoilt' \in BOOLEAN  BY <1>2 DEF Counts
    <2>2. faults' = faults \/ (faults < MaxFaults /\ faults' = faults + 1)
      BY DEF Fill, Faulted, Metadata
    <2> QED BY <2>1, <2>2, FaultsFit
  <1>4. CASE SeekEnds(call, Handle, "IO")
    BY <1>1, <1>3, <1>4, TransferFails DEF Seeking
  <1>5. CASE SeekEnds(call, [Handle EXCEPT !.buf = data[Handle.sect], !.at = Handle.sect], "NONE")
    <2> DEFINE b == data[Handle.sect]
               s == Handle.sect
               f == [Handle EXCEPT !.buf = b, !.at = s]
    <2>1. s \in Sectors /\ b \in Buffers /\ s \in Spots
      <3>1. Handle.sect \in Sectors  BY <1>1, <1>2 DEF CallOk
      <3> QED BY <3>1 DEF MediumFits, Spots
    <2>2. SeekEnds(call, f, "NONE")  BY <1>5
    <2>3. f = Loaded(Handle, b, s) /\ s = Handle.sect  BY DEF Loaded
    <2> HIDE DEF f, s, b
    <2>4. /\ f \in HandleSet /\ Placed(f, Handle) /\ f.at = s
          /\ f.open = Handle.open /\ f.flags = Handle.flags /\ f.dirty = Handle.dirty
      BY <1>2, <2>1, <2>3, LoadedIs
    <2>5. Ready(f)
      <3>1. Young(Handle) \/ Ready(Handle)  BY <1>1, <1>2 DEF CallOk, Seeking
      <3> QED BY <2>1, <2>3, <2>4, <3>1 DEF Young, Ready, Placed
    <2>6. ~spoilt => Sane(f)
      BY <1>1, <1>2, <2>3, <2>4 DEF Track, TrackOk, BufferOk, Stands, Sane, Placed, Clust
    <2>7. SeekOver(spoilt', call, f, "NONE")
      <3>1. /\ call.op \in SeekOps /\ (call.op = "write" => "WRITE" \in Handle.flags /\ call.val \in Vals)
            /\ spoilt => Handle.hurt
        BY <1>1, <1>2 DEF CallOk, Track, SeekOps, Seeking
      <3> QED BY <1>2, <2>4, <2>5, <2>6, <3>1 DEF SeekOver, Errors, Placed
    <2> QED BY <1>2, <1>3, <2>2, <2>7, SeekEndsFits
  <1> QED BY <1>4, <1>5 DEF Fill
-----------------------------------------------------------------------------
(* What the window shows of the FAT and of the directory entry. *)
LEMMA Shown ==
    ASSUME MediumFits, NEW s \in Sects, NEW o \in UpdateBuf(s), o.ok
    PROVE  o.win.buf = View(s)
  <1>1. "none" \notin Sects /\ WindowFits(Sects, "none", AllVals)  BY DEF MediumFits, Sects
  <1> QED BY <1>1, UpdateBufFits

LEMMA EntryShown ==
    ASSUME MediumFits
    PROVE  /\ \A o \in UpdateBuf("fat") : o.ok => o.win.buf.len = View("fat").len
           /\ \A o \in UpdateBuf("dir") : o.ok => o.win.buf.size = View("dir").size
           /\ View("fat").len \in 1 .. MaxClusts /\ View("dir").size \in 0 .. MaxOff
           /\ disk["fat"].len \in 1 .. MaxClusts /\ disk["dir"].size \in 0 .. MaxOff
  <1>1. "fat" \in Sects /\ "dir" \in Sects  BY DEF Sects
  <1>2. View("fat") \in FatVals /\ View("dir") \in DirVals /\ disk["fat"] \in FatVals /\ disk["dir"] \in DirVals
    BY DEF MediumFits
  <1> QED BY <1>1, <1>2, Shown DEF FatVals, DirVals

LEMMA FindFits ==
    ASSUME MediumFits, Handling, Find, UNCHANGED spoilt, lost' \subseteq Sectors
    PROVE  Handling'
  <1>1. pc = "find"  BY DEF Find
  <1>2. /\ hs \in [Handles -> HandleSet] /\ Counts
        /\ call.h \in Handles /\ call \in CallSet
        /\ Handle \in HandleSet /\ Others(call.h)
        /\ CallOk(pc, call, Handle) /\ Track(spoilt, pc, call, Handle)
    BY <1>1, RunningCall
  <1>3. PICK o \in UpdateBuf("dir") :
          \/ Fails(o)
          \/ /\ o.ok /\ Took(o)
             /\ LET f == OpenSize([NoHandle EXCEPT !.open = TRUE, !.flags = call.flags], o.win.buf.size)
                IN  SeekBegins(call, f, IF "APPEND" \in f.flags THEN f.size ELSE 0)
    BY DEF Find
  <1>4. Took(o) /\ faults \in 0 .. MaxFaults /\ spoilt' \in BOOLEAN
    BY <1>2, <1>3 DEF Fails, Counts
  <1>5. faults' \in 0 .. MaxFaults  BY <1>4, FaultsFit
  <1>6. CASE Fails(o)
    <2>1. SeekEnds(call, Handle, "IO")  BY <1>6 DEF Fails
    <2> QED BY <1>1, <1>5, <2>1, TransferFails
  <1>7. CASE ~Fails(o)
    <2> DEFINE f == OpenSize([NoHandle EXCEPT !.open = TRUE, !.flags = call.flags], o.win.buf.size)
               off == IF "APPEND" \in f.flags THEN f.size ELSE 0
    <2>1. o.ok /\ SeekBegins(call, f, off)  BY <1>3, <1>7
    <2>2. o.win.buf.size \in 0 .. MaxOff  BY <2>1, EntryShown
    <2>3. call.flags \in SUBSET AllFlags  BY <1>2, CallIs
    <2>4. f = OpenSize(Blank(call.flags), o.win.buf.size)  BY DEF Blank
    <2> HIDE DEF f
    <2>5. /\ f \in HandleSet /\ f.open /\ f.flags = call.flags /\ f.at = NoSect /\ f.sect = NoSect /\ ~f.dirty /\ ~f.hurt
          /\ f.clust = 1 /\ f.offset = 0
      BY <2>2, <2>3, <2>4, OpenedIs
    <2>6. off \in 0 .. MaxOff /\ off \in Int
      <3>1. f.size \in 0 .. MaxOff /\ 0 \in 0 .. MaxOff  BY <2>5, HandleIs, Constants
      <3> QED BY <3>1, Constants
    <2>7. call.op = "open" /\ ~spoilt
      <3>1. call.op = "open" /\ Shut(Handle)  BY <1>1, <1>2 DEF CallOk
      <3>2. ~Handle.hurt  BY <3>1, ClosedIs DEF Shut
      <3> QED BY <1>1, <1>2, <3>1, <3>2 DEF Track
    <2>8. SeekReady(spoilt', call, f, off)
      <3> HIDE DEF off
      <3> QED BY <1>2, <2>5, <2>6, <2>7 DEF SeekReady, Young, SeekOps
    <2> HIDE DEF off
    <2> QED BY <1>2, <1>4, <1>5, <2>1, <2>8, SeekBeginsFits
  <1> QED BY <1>6, <1>7

(* The chain is followed, or is at its end... *)
LEMMA FollowFits ==
    ASSUME MediumFits, Handling, Follow, UNCHANGED spoilt, lost' \subseteq Sectors
    PROVE  Handling'
  <1>1. pc = "follow" /\ call.left > 0  BY DEF Follow
  <1>2. /\ Counts /\ call.h \in Handles /\ Handle \in HandleSet /\ Handle = hs[call.h]
        /\ CallOk(pc, call, Handle) /\ Track(spoilt, pc, call, Handle)
    BY <1>1, RunningCall
  <1>3. PICK o \in UpdateBuf("fat") :
          \/ Fails(o)
          \/ /\ o.ok /\ Took(o)
             /\ UNCHANGED <<data, res>>
             /\ IF Handle.clust < o.win.buf.len
                THEN /\ hs' = [hs EXCEPT ![call.h].clust = @ + 1]
                     /\ call' = [call EXCEPT !.left = @ - 1] /\ UNCHANGED pc
                ELSE pc' = "stretch" /\ UNCHANGED <<hs, call>>
    BY DEF Follow
  <1>4. Took(o) /\ faults \in 0 .. MaxFaults
    BY <1>2, <1>3 DEF Fails, Counts
  <1>5. faults' \in 0 .. MaxFaults  BY <1>4, FaultsFit
  <1>6. CASE Fails(o)
    <2>1. SeekEnds(call, Handle, "IO")  BY <1>6 DEF Fails
    <2> QED BY <1>1, <1>5, <2>1, TransferFails DEF Seeking
  <1>7. CASE ~Fails(o) /\ Handle.clust < o.win.buf.len
    <2>1. Handle.clust < MaxClusts
      <3>1. o.win.buf.len \in 1 .. MaxClusts  BY <1>3, <1>7, EntryShown
      <3>2. Handle.clust \in 1 .. MaxClusts  BY <1>2, HandleIs
      <3> QED BY <1>7, <3>1, <3>2, Constants
    <2>2. /\ hs' = [hs EXCEPT ![call.h].clust = @ + 1] /\ call' = [call EXCEPT !.left = @ - 1]
          /\ pc' = "follow" /\ UNCHANGED res
      BY <1>1, <1>3, <1>7
    <2> QED BY <1>1, <1>5, <2>1, <2>2, NextCluster
  <1>8. CASE ~Fails(o) /\ ~(Handle.clust < o.win.buf.len)
    <2>1. pc' = "stretch" /\ UNCHANGED <<hs, call, res>>  BY <1>3, <1>8
    <2>2. CallOk(pc', call, Handle) /\ Track(spoilt, pc', call, Handle)
      BY <1>1, <1>2, <2>1 DEF CallOk, Track, TrackOk, Pcs, Seeking, Closing
    <2> QED BY <1>1, <1>5, <2>1, <2>2, OnlyMovesOn
  <1> QED BY <1>6, <1>7, <1>8

(* ... then no cluster is free, or one is linked to it... *)
LEMMA StretchFits ==
    ASSUME Handling, Stretch, UNCHANGED spoilt, lost' \subseteq Sectors
    PROVE  Handling'
  <1>1. pc = "stretch"  BY DEF Stretch
  <1>2. /\ Counts /\ call.h \in Handles
        /\ CallOk(pc, call, Handle) /\ Track(spoilt, pc, call, Handle)
    BY <1>1, RunningCall
  <1>3. CASE UNCHANGED Metadata /\ SeekEnds(call, Handle, "FULL")
    BY <1>1, <1>3, VolumeIsFull DEF Metadata
  <1>4. ASSUME NEW o \in UpdateBuf("fat"), Fails(o) PROVE Handling'
    <2>1. SeekEnds(call, Handle, "IO") /\ Took(o) /\ faults \in 0 .. MaxFaults
      BY <1>2, <1>4 DEF Fails, Counts
    <2>2. faults' \in 0 .. MaxFaults  BY <2>1, FaultsFit
    <2> QED BY <1>1, <2>1, <2>2, TransferFails DEF Seeking
  <1>5. ASSUME NEW o \in UpdateBuf("fat"), Handle.clust < MaxClusts,
               Writes(o, "len", Handle.clust + 1),
               pc' = "stretchSync", UNCHANGED <<data, hs, call, res>>
        PROVE  Handling'
    <2>1. CallOk(pc', call, Handle) /\ Track(spoilt, pc', call, Handle)
      BY <1>1, <1>2, <1>5 DEF CallOk, Track, TrackOk, Pcs, Seeking, Closing
    <2>2. faults' \in 0 .. MaxFaults  BY <1>2, <1>5 DEF Writes, Counts
    <2> QED BY <1>1, <1>5, <2>1, <2>2, OnlyMovesOn
  <1> QED BY <1>3, <1>4, <1>5 DEF Stretch

(* ... and the volume is synchronised. *)
LEMMA StretchSyncFits ==
    ASSUME Handling, StretchSync, UNCHANGED spoilt, lost' \subseteq Sectors
    PROVE  Handling'
  <1>1. pc = "stretchSync"  BY DEF StretchSync
  <1>2. Counts /\ CallOk(pc, call, Handle)  BY <1>1, RunningCall
  <1>3. PICK o \in SyncBuf :
         \/ Fails(o)
         \/ /\ o.ok /\ Took(o)
            /\ hs' = [hs EXCEPT ![call.h].clust = @ + 1]
            /\ call' = [call EXCEPT !.left = @ - 1]
            /\ pc' = "follow" /\ UNCHANGED <<data, res>>
    BY DEF StretchSync
  <1>4. Took(o) /\ faults \in 0 .. MaxFaults
    BY <1>2, <1>3 DEF Fails, Counts
  <1>5. faults' \in 0 .. MaxFaults  BY <1>4, FaultsFit
  <1>6. CASE Fails(o)
    <2>1. SeekEnds(call, Handle, "IO")  BY <1>6 DEF Fails
    <2> QED BY <1>1, <1>5, <2>1, TransferFails DEF Seeking
  <1>7. CASE ~Fails(o)
    <2>1. Handle.clust < MaxClusts /\ call.left > 0  BY <1>1, <1>2 DEF CallOk
    <2> QED BY <1>1, <1>3, <1>5, <1>7, <2>1, NextCluster
  <1> QED BY <1>6, <1>7
-----------------------------------------------------------------------------
(* What one round of a read or a write moves: at most what the sector has. *)
LEMMA ChunkBounds ==
    ASSUME NEW o \in Nat, NEW l \in Nat, l > 0, NEW m \in Nat
    PROVE  /\ o % SectSize \in 0 .. (SectSize - 1)
           /\ Min2(l, SectSize - (o % SectSize)) \in 1 .. l
           /\ Min2(l, SectSize - (o % SectSize)) <= SectSize - (o % SectSize)
           /\ m > o => /\ Min2(l, Min2(SectSize - (o % SectSize), m - o)) \in 1 .. l
                       /\ o + Min2(l, Min2(SectSize - (o % SectSize), m - o)) <= m
                       /\ Min2(l, Min2(SectSize - (o % SectSize), m - o)) <= SectSize - (o % SectSize)
  <1> DEFINE r == o % SectSize
  <1>1. r \in 0 .. (SectSize - 1) /\ SectSize \in Nat  BY Constants
  <1> HIDE DEF r
  <1>2. /\ Min2(l, SectSize - r) \in 1 .. l
        /\ Min2(l, SectSize - r) <= SectSize - r
        /\ m > o => /\ Min2(l, Min2(SectSize - r, m - o)) \in 1 .. l
                    /\ o + Min2(l, Min2(SectSize - r, m - o)) <= m
                    /\ Min2(l, Min2(SectSize - r, m - o)) <= SectSize - r
    BY <1>1 DEF Min2
  <1> QED BY <1>1, <1>2 DEF r

(* The chunk of a call, whatever has happened to its handle. *)
LEMMA AtChunk ==
    ASSUME Handling, pc = "chunk"
    PROVE  /\ hs \in [Handles -> HandleSet] /\ Counts
           /\ call.h \in Handles /\ call \in CallSet /\ call.op \in {"read", "write"}
           /\ Handle \in HandleSet /\ Handle = hs[call.h] /\ Others(call.h) /\ Ready(Handle)
           /\ call.op = "write" => "WRITE" \in Handle.flags /\ call.val \in Vals
           /\ IF spoilt THEN Handle.hurt ELSE ChunkOk(call, Handle)
           /\ call.len \in 0 .. MaxLen /\ Handle.offset \in 0 .. MaxOff /\ Handle.size \in 0 .. MaxOff
           /\ call.len \in Nat /\ Handle.offset \in Nat /\ Handle.size \in Nat
  <1>2. /\ hs \in [Handles -> HandleSet] /\ Counts
        /\ call.h \in Handles /\ call \in CallSet
        /\ Handle \in HandleSet /\ Handle = hs[call.h] /\ Others(call.h)
        /\ CallOk(pc, call, Handle) /\ Track(spoilt, pc, call, Handle)
    BY RunningCall
  <1>3. call.op \in {"read", "write"} /\ Ready(Handle)  BY <1>2 DEF CallOk
  <1>4. call.op = "write" => "WRITE" \in Handle.flags /\ call.val \in Vals  BY <1>2 DEF CallOk
  <1>5. IF spoilt THEN Handle.hurt ELSE ChunkOk(call, Handle)  BY <1>2 DEF Track, TrackOk
  <1>6. call.len \in 0 .. MaxLen /\ Handle.offset \in 0 .. MaxOff /\ Handle.size \in 0 .. MaxOff
    BY <1>2, CallIs, HandleIs
  <1>7. call.len \in Nat /\ Handle.offset \in Nat /\ Handle.size \in Nat  BY <1>6, Constants
  <1> QED BY <1>2, <1>3, <1>4, <1>5, <1>6, <1>7

LEMMA ReadChunkFits ==
    ASSUME Handling, ReadChunk, UNCHANGED spoilt, lost' \subseteq Sectors
    PROVE  Handling'
  <1>1. pc = "chunk" /\ call.op = "read" /\ UNCHANGED faults  BY DEF ReadChunk, Metadata
  <1>2. /\ hs \in [Handles -> HandleSet] /\ Counts
        /\ call.h \in Handles /\ call \in CallSet
        /\ Handle \in HandleSet /\ Handle = hs[call.h] /\ Others(call.h) /\ Ready(Handle)
        /\ IF spoilt THEN Handle.hurt ELSE ChunkOk(call, Handle)
        /\ call.len \in 0 .. MaxLen
        /\ call.len \in Nat /\ Handle.offset \in Nat /\ Handle.size \in Nat
    BY <1>1, AtChunk
  <1>3. faults' \in 0 .. MaxFaults /\ spoilt' \in BOOLEAN  BY <1>1, <1>2 DEF Counts
  <1>4. spoilt \/ Sane(Handle)  BY <1>1, <1>2 DEF ChunkOk
  <1>5. CASE call.len > 0 /\ Handle.offset < Handle.size
    <2> DEFINE d == [call EXCEPT !.len = @ - Cnt]
               off == Handle.offset + Cnt
    <2>1. SeekBegins(d, Handle, off)  BY <1>1, <1>5 DEF ReadChunk
    <2>2. Cnt \in 1 .. call.len /\ Cnt <= SectSize
      <3>1. /\ Cnt \in 1 .. call.len /\ Cnt <= SectSize - Idx /\ Idx \in 0 .. (SectSize - 1)
        BY <1>2, <1>5, ChunkBounds DEF Cnt, Idx
      <3> HIDE DEF Cnt, Idx
      <3> QED BY <1>2, <3>1, Constants
    <2>3. SameCall(d, call)
      <3> DEFINE n == call.len - Cnt
      <3>1. n \in 0 .. MaxLen  BY <1>2, <2>2, Constants
      <3>2. d = [call EXCEPT !.len = n]  OBVIOUS
      <3> HIDE DEF n, d
      <3> QED BY <1>2, <3>1, <3>2, LessLeft
    <2>4. off \in Int /\ off >= Handle.offset /\ off <= Handle.offset + ClustSize
      <3>1. \A x, y, z, k \in Nat : x \in 1 .. y /\ x <= k /\ k <= z =>
               \A p \in Nat : p + x \in Int /\ p + x >= p /\ p + x <= p + z
        OBVIOUS
      <3> QED BY <1>2, <2>2, <3>1, Constants
    <2>5. SeekReady(spoilt', d, Handle, off)
      <3> HIDE DEF off, d
      <3> QED BY <1>1, <1>2, <1>4, <2>3, <2>4 DEF SeekReady, SameCall, SeekOps
    <2>6. d.h = call.h  BY <2>3 DEF SameCall
    <2> HIDE DEF off, d
    <2> QED BY <1>2, <1>3, <2>1, <2>5, <2>6, SeekBeginsFits
  <1>6. CASE ~(call.len > 0 /\ Handle.offset < Handle.size)
    <2>1. Returns(call.op, "NONE") /\ UNCHANGED hs  BY <1>1, <1>6 DEF ReadChunk
    <2>2. Rests(Handle)  BY <1>2, <1>4 DEF Rests
    <2>3. hs' = [hs EXCEPT ![call.h] = Handle]  BY <1>2, <2>1
    <2> QED BY <1>1, <1>2, <1>3, <2>1, <2>2, <2>3, CallReturns DEF Errors
  <1> QED BY <1>5, <1>6

LEMMA PutBytesIs ==
    ASSUME NEW f \in HandleSet, call.val \in Vals, NEW n
    PROVE  PutBytes(f, n) \in Buffers
  <1>1. f.buf \in Buffers  BY HandleIs
  <1> QED BY <1>1 DEF PutBytes, Buffers

LEMMA WriteChunkFits ==
    ASSUME Handling, WriteChunk, UNCHANGED spoilt, lost' \subseteq Sectors
    PROVE  Handling'
  <1>1. pc = "chunk" /\ call.op = "write" /\ UNCHANGED faults  BY DEF WriteChunk, Metadata
  <1>2. /\ hs \in [Handles -> HandleSet] /\ Counts
        /\ call.h \in Handles /\ call \in CallSet
        /\ Handle \in HandleSet /\ Handle = hs[call.h] /\ Others(call.h) /\ Ready(Handle)
        /\ "WRITE" \in Handle.flags /\ call.val \in Vals
        /\ IF spoilt THEN Handle.hurt ELSE ChunkOk(call, Handle)
        /\ call.len \in 0 .. MaxLen /\ Handle.offset \in 0 .. MaxOff /\ Handle.size \in 0 .. MaxOff
        /\ call.len \in Nat /\ Handle.offset \in Nat /\ Handle.size \in Nat
    BY <1>1, AtChunk
  <1>3. faults' \in 0 .. MaxFaults /\ spoilt' \in BOOLEAN  BY <1>1, <1>2 DEF Counts
  <1>5. CASE call.len > 0
    <2> DEFINE n == Min2(call.len, SectSize - Idx)
               d == [call EXCEPT !.len = @ - n]
               b == PutBytes(Handle, n)
               f == [Handle EXCEPT !.buf = b, !.dirty = TRUE]
               off == Handle.offset + n
    <2>1. SeekBegins(d, f, off)  BY <1>1, <1>5 DEF WriteChunk
    <2>2. n \in 1 .. call.len /\ n <= SectSize
      <3>1. /\ n \in 1 .. call.len /\ n <= SectSize - Idx /\ Idx \in 0 .. (SectSize - 1)
        BY <1>2, <1>5, ChunkBounds DEF Idx
      <3> HIDE DEF n, Idx
      <3> QED BY <1>2, <3>1, Constants
    <2>3. SameCall(d, call)
      <3> DEFINE k == call.len - n
      <3>1. k \in 0 .. MaxLen
        <4> HIDE DEF n
        <4> QED BY <1>2, <2>2, Constants
      <3>2. d = [call EXCEPT !.len = k]  OBVIOUS
      <3> HIDE DEF k, d
      <3> QED BY <1>2, <3>1, <3>2, LessLeft
    <2>4. off \in Int /\ off >= Handle.offset /\ off <= Handle.offset + ClustSize
      <3> HIDE DEF n
      <3>1. n \in Nat /\ n <= SectSize /\ SectSize \in Nat /\ Handle.offset \in Nat
        BY <1>2, <2>2, Constants
      <3>2. ClustSize \in Nat /\ SectSize <= ClustSize  BY Constants
      <3> HIDE DEF Handle
      <3> QED BY <3>1, <3>2
    <2>5. /\ f \in HandleSet /\ Placed(f, Handle) /\ f.at = Handle.at
          /\ f.open = Handle.open /\ f.flags = Handle.flags
      <3>1. b \in Buffers  BY <1>2, PutBytesIs
      <3>2. f = Written(Handle, b)  BY DEF Written
      <3> HIDE DEF f, b
      <3> QED BY <1>2, <3>1, <3>2, WrittenIs
    <2> HIDE DEF f, off, d, b
    <2>6. Ready(f) /\ (spoilt \/ Sane(f)) /\ (spoilt => f.hurt)
      <3>1. spoilt \/ Sane(Handle)
        <4>1. call.len # 0  BY <1>2, <1>5
        <4> QED BY <1>2, <4>1 DEF ChunkOk
      <3>2. Sane(Handle) => Sane(f)  BY <2>5 DEF Sane, Placed
      <3> QED BY <1>2, <2>5, <3>1, <3>2 DEF Ready, Placed
    <2>7. SeekReady(spoilt', d, f, off)
      <3>1. f.offset = Handle.offset /\ f.flags = Handle.flags  BY <2>5 DEF Placed
      <3> QED BY <1>1, <1>2, <2>3, <2>4, <2>5, <2>6, <3>1 DEF SeekReady, SameCall, SeekOps
    <2>8. d.h = call.h  BY <2>3 DEF SameCall
    <2> QED BY <1>2, <1>3, <2>1, <2>7, <2>8, SeekBeginsFits
  <1>6. CASE ~(call.len > 0)
    <2> DEFINE n == SizeAfter(Handle)
               f == [Handle EXCEPT !.size = n]
    <2>1. hs' = [hs EXCEPT ![call.h] = f] /\ Returns(call.op, "NONE")  BY <1>1, <1>2, <1>6 DEF WriteChunk
    <2>2. n \in 0 .. MaxOff  BY <1>2 DEF SizeAfter
    <2>3. f = [Handle EXCEPT !.size = n]  OBVIOUS
    <2> HIDE DEF f, n
    <2>4. f \in HandleSet /\ Held(f, Handle)  BY <1>2, <2>2, <2>3, SizedIs
    <2>5. Ready(f) /\ (f.hurt \/ Sane(f))
      <3>1. Handle.hurt \/ Sane(Handle)  BY <1>2 DEF ChunkOk
      <3> QED BY <1>2, <2>4, <3>1 DEF Ready, Sane, Held, Placed
    <2>6. Rests(f)  BY <2>5 DEF Rests
    <2> QED BY <1>1, <1>2, <1>3, <2>1, <2>4, <2>6, CallReturns DEF Errors
  <1> QED BY <1>5, <1>6
-----------------------------------------------------------------------------
(* Synchronising and closing leave the handle where it is. *)
LEMMA AtClosing ==
    ASSUME Handling, pc \in Closing
    PROVE  /\ pc # "idle"
           /\ hs \in [Handles -> HandleSet] /\ Counts
           /\ call.h \in Handles /\ call \in CallSet /\ call.op \in {"sync", "close"}
           /\ Handle \in HandleSet /\ Handle = hs[call.h] /\ Others(call.h)
           /\ Ready(Handle) /\ Rests(Handle)
           /\ CallOk(pc, call, Handle) /\ Track(spoilt, pc, call, Handle)
  <1>1. pc # "idle"  BY DEF Closing
  <1>2. /\ hs \in [Handles -> HandleSet] /\ Counts
        /\ call.h \in Handles /\ call \in CallSet
        /\ Handle \in HandleSet /\ Handle = hs[call.h] /\ Others(call.h)
        /\ CallOk(pc, call, Handle) /\ Track(spoilt, pc, call, Handle)
    BY <1>1, RunningCall
  <1>3. call.op \in {"sync", "close"} /\ Ready(Handle)  BY <1>2 DEF CallOk
  <1>4. Handle.hurt \/ Sane(Handle)  BY <1>1, <1>2 DEF Track, TrackOk
  <1> QED BY <1>1, <1>2, <1>3, <1>4 DEF Rests

(* From one place of closing to the next. *)
LEMMA ClosingMovesOn ==
    ASSUME Handling, pc \in Closing, pc' \in Closing, UNCHANGED <<hs, call, res, spoilt>>,
           lost' \subseteq Sectors, faults' \in 0 .. MaxFaults
    PROVE  Handling'
  <1>1. /\ pc # "idle" /\ pc' # "idle"
        /\ CallOk(pc, call, Handle) /\ Track(spoilt, pc, call, Handle)
    BY AtClosing DEF Closing
  <1>2. CallOk(pc', call, Handle) /\ Track(spoilt, pc', call, Handle)
    BY <1>1 DEF CallOk, Track, TrackOk, Pcs, Seeking, Closing
  <1> QED BY <1>1, <1>2, OnlyMovesOn

(* Closing fails. *)
LEMMA ClosingFails ==
    ASSUME Handling, pc \in Closing, Returns(call.op, "IO"), UNCHANGED <<hs, spoilt>>,
           lost' \subseteq Sectors, faults' \in 0 .. MaxFaults
    PROVE  Handling'
  <1>1. /\ pc # "idle" /\ hs \in [Handles -> HandleSet] /\ call.h \in Handles
        /\ Handle \in HandleSet /\ Handle = hs[call.h] /\ Rests(Handle)
    BY AtClosing
  <1>2. hs' = [hs EXCEPT ![call.h] = Handle]  BY <1>1
  <1> QED BY <1>1, <1>2, CallReturns DEF Errors

LEMMA PutFits ==
    ASSUME Handling, Put, UNCHANGED spoilt, lost' \subseteq Sectors
    PROVE  Handling'
  <1>1. pc = "put" /\ pc \in Closing  BY DEF Put, Closing
  <1>2. faults' \in 0 .. MaxFaults
    <2>1. faults \in 0 .. MaxFaults  BY DEF Handling, CallFits
    <2>2. faults' = faults \/ (faults < MaxFaults /\ faults' = faults + 1)
      BY DEF Put, Faulted, Metadata
    <2> QED BY <2>1, <2>2, FaultsFit
  <1>3. CASE Returns(call.op, "IO") /\ UNCHANGED hs
    BY <1>1, <1>2, <1>3, ClosingFails
  <1>4. CASE pc' = (IF Handle.acc \/ Handle.mod THEN "touch" ELSE "flush") /\ UNCHANGED <<hs, call, res>>
    <2>1. pc' \in Closing  BY <1>4 DEF Closing
    <2> QED BY <1>1, <1>2, <1>4, <2>1, ClosingMovesOn
  <1> QED BY <1>3, <1>4 DEF Put

(* The entry is rewritten; other handles may be late then. *)
LEMMA TouchFits ==
    ASSUME Handling, Touch, UNCHANGED spoilt, lost' \subseteq Sectors
    PROVE  Handling'
  <1>1. pc = "touch" /\ pc \in Closing  BY DEF Touch, Closing
  <1>2. /\ pc # "idle"
        /\ hs \in [Handles -> HandleSet] /\ Counts
        /\ call.h \in Handles /\ call \in CallSet
        /\ Handle \in HandleSet /\ Handle = hs[call.h] /\ Others(call.h)
        /\ CallOk(pc, call, Handle) /\ Track(spoilt, pc, call, Handle)
    BY <1>1, AtClosing
  <1>3. faults \in 0 .. MaxFaults /\ spoilt' \in BOOLEAN  BY <1>2 DEF Counts
  <1>4. ASSUME NEW o \in UpdateBuf("dir"), SyncFails(o) PROVE Handling'
    <2>1. Returns(call.op, "IO") /\ UNCHANGED hs /\ Took(o)  BY <1>4 DEF SyncFails
    <2>2. faults' \in 0 .. MaxFaults  BY <1>3, <2>1, FaultsFit
    <2> QED BY <1>1, <2>1, <2>2, ClosingFails
  <1>5. ASSUME NEW o \in UpdateBuf("dir"),
               Writes(o, "size", IF Handle.mod THEN Handle.size ELSE o.win.buf.size),
               hs' = [g \in Handles |->
                        IF g # call.h /\ hs[g].open /\ Handle.mod
                        THEN [hs[g] EXCEPT !.late = TRUE] ELSE hs[g]],
               pc' = "flush", UNCHANGED <<data, call, res>>
        PROVE  Handling'
    <2>1. faults' = faults  BY <1>5 DEF Writes
    <2>2. ASSUME NEW g \in Handles
          PROVE  hs'[g] \in HandleSet /\ (g # call.h /\ Rests(hs[g]) => Rests(hs'[g]))
      <3>1. hs[g] \in HandleSet  BY <1>2
      <3>2. CASE g # call.h /\ hs[g].open /\ Handle.mod
        <4>1. hs'[g] = [hs[g] EXCEPT !.late = TRUE]  BY <1>5, <3>2
        <4> DEFINE f == hs[g]
                   k == hs'[g]
        <4>2. k = [f EXCEPT !.late = TRUE] /\ f \in HandleSet /\ f.open  BY <3>1, <3>2, <4>1
        <4> HIDE DEF f, k
        <4>3. k \in HandleSet /\ Held(k, f)  BY <4>2, LateIs
        <4>4. Rests(f) => Rests(k)
          BY <4>2, <4>3, ClosedIs DEF Rests, Ready, Shut, Sane, Held, Placed
        <4> QED BY <4>3, <4>4 DEF f, k
      <3>3. CASE ~(g # call.h /\ hs[g].open /\ Handle.mod)
        <4>1. hs'[g] = hs[g]  BY <1>5, <3>3
        <4> QED BY <3>1, <4>1
      <3> QED BY <3>2, <3>3
    <2>3. hs' \in [Handles -> HandleSet]
      <3>1. hs' = [g \in Handles |-> hs'[g]]  BY <1>5
      <3> QED BY <2>2, <3>1
    <2>4. hs'[call.h] = Handle /\ \A g \in Handles \ {call.h} : Rests(hs'[g])
      BY <1>2, <1>5, <2>2 DEF Others
    <2>5. CallOk(pc', call', Handle) /\ Track(spoilt', pc', call', Handle)
      BY <1>1, <1>2, <1>5 DEF CallOk, Track, TrackOk, Pcs, Seeking, Closing
    <2>6. Counts'  BY <1>2, <1>3, <1>5, <2>1 DEF Counts
    <2>7. pc' # "idle" /\ call'.h = call.h  BY <1>5
    <2> QED BY <1>2, <2>3, <2>4, <2>5, <2>6, <2>7, HandlesMove
  <1> QED BY <1>4, <1>5 DEF Touch

LEMMA FlushFits ==
    ASSUME Handling, Flush, UNCHANGED spoilt, lost' \subseteq Sectors
    PROVE  Handling'
  <1>1. pc = "flush" /\ pc \in Closing  BY DEF Flush, Closing
  <1>2. /\ pc # "idle"
        /\ hs \in [Handles -> HandleSet] /\ Counts /\ call.h \in Handles
        /\ Handle \in HandleSet /\ Handle = hs[call.h] /\ Ready(Handle) /\ Rests(Handle)
    BY <1>1, AtClosing
  <1>3. faults \in 0 .. MaxFaults  BY <1>2 DEF Counts
  <1>4. ASSUME NEW o \in SyncBuf, SyncFails(o) PROVE Handling'
    <2>1. Returns(call.op, "IO") /\ UNCHANGED hs /\ Took(o)  BY <1>4 DEF SyncFails
    <2>2. faults' \in 0 .. MaxFaults  BY <1>3, <2>1, FaultsFit
    <2> QED BY <1>1, <2>1, <2>2, ClosingFails
  <1>5. ASSUME NEW o \in SyncBuf, Took(o), Returns(call.op, "NONE"),
               hs' = [hs EXCEPT ![call.h] =
                        IF call.op = "close" THEN NoHandle
                        ELSE [@ EXCEPT !.acc = FALSE, !.mod = FALSE]]
        PROVE  Handling'
    <2>1. faults' \in 0 .. MaxFaults  BY <1>3, <1>5, FaultsFit
    <2>2. CASE call.op = "close"
      <3>1. hs' = [hs EXCEPT ![call.h] = NoHandle]  BY <1>5, <2>2
      <3>2. NoHandle \in HandleSet /\ Rests(NoHandle)  BY ClosedIs DEF Rests, Shut
      <3> QED BY <1>2, <1>5, <2>1, <3>1, <3>2, CallReturns DEF Errors
    <2>3. CASE call.op # "close"
      <3> DEFINE f == Marked(Handle, FALSE, FALSE)
      <3>1. hs' = [hs EXCEPT ![call.h] = f]  BY <1>2, <1>5, <2>3 DEF Marked
      <3>2. f \in HandleSet /\ Held(f, Handle)
        <4>1. f = Marked(Handle, FALSE, FALSE)  OBVIOUS
        <4> HIDE DEF f
        <4> QED BY <1>2, <4>1, CleanIs
      <3> HIDE DEF f
      <3>3. Rests(f)
        BY <1>2, <3>2, ClosedIs DEF Rests, Ready, Shut, Sane, Held, Placed
      <3> QED BY <1>2, <1>5, <2>1, <3>1, <3>2, <3>3, CallReturns DEF Errors
    <2> QED BY <2>2, <2>3
  <1> QED BY <1>4, <1>5 DEF Flush
-----------------------------------------------------------------------------
(* What is known when a call begins, and how it begins. *)
LEMMA AllRest ==
    ASSUME Handling, pc = "idle"
    PROVE  /\ hs \in [Handles -> HandleSet] /\ Counts
           /\ \A h \in Handles : hs[h] \in HandleSet /\ Rests(hs[h]) /\ Others(h)
           /\ \A h \in Handles : hs[h].open => Ready(hs[h]) /\ (hs[h].hurt \/ Sane(hs[h]))
           /\ \A h \in Handles : ~hs[h].open => Shut(hs[h])
  <1>1. hs \in [Handles -> HandleSet] /\ \A h \in Handles : Rests(hs[h])
    BY DEF Handling, HandlesFit, Running
  <1>2. Counts  BY DEF Handling, CallFits, Counts
  <1>3. \A h \in Handles : hs[h].open => Ready(hs[h]) /\ (hs[h].hurt \/ Sane(hs[h]))
    BY <1>1, ClosedIs DEF Rests, Shut
  <1>4. \A h \in Handles : ~hs[h].open => Shut(hs[h])
    BY <1>1 DEF Rests, Ready
  <1> QED BY <1>1, <1>2, <1>3, <1>4 DEF Others

LEMMA SpoiltIs ==
    ASSUME NEW f \in HandleSet, spoilt' = Astray(f)
    PROVE  spoilt' \in BOOLEAN /\ (spoilt' => f.hurt) /\ (~spoilt' /\ f.hurt => Sane(f))
  <1>1. f.hurt \in BOOLEAN  BY HandleIs
  <1>2. spoilt' \in BOOLEAN  BY Zenon DEF Astray
  <1> QED BY <1>1, <1>2 DEF Astray

LEMMA BeginOpenFits ==
    ASSUME Handling, pc = "idle", NEW h \in Handles, NEW fl \in Flags, BeginOpen(h, fl),
           lost' \subseteq Sectors
    PROVE  Handling'
  <1> DEFINE c == [NoCall EXCEPT !.op = "open", !.h = h, !.flags = fl]
  <1>1. /\ hs \in [Handles -> HandleSet] /\ Counts /\ hs[h] \in HandleSet /\ Others(h)
    BY AllRest
  <1>2. ~hs[h].open /\ pc' = "find" /\ UNCHANGED <<hs, faults>>
    BY DEF BeginOpen, Begins, Metadata
  <1>3. Shut(hs[h]) /\ ~hs[h].hurt  BY <1>2, AllRest, ClosedIs DEF Shut
  <1>4. call' = c /\ res' = NoRes /\ spoilt' = Astray(hs[h])
    BY DEF BeginOpen, Begins, NoCall
  <1>5. c \in CallSet /\ c.op = "open" /\ c.h = h
    <2>1. fl \in SUBSET AllFlags  BY FileAssumption DEF AllFlags
    <2>2. c = Opens(NoCall, h, fl)  BY DEF Opens
    <2> HIDE DEF c
    <2> QED BY <2>1, <2>2, NoCallIs, OpensIs
  <1> HIDE DEF c
  <1>6. spoilt' \in BOOLEAN /\ ~spoilt'  BY <1>1, <1>3, <1>4, SpoiltIs
  <1>7. CallOk(pc', call', hs[h])
    BY <1>2, <1>3, <1>4, <1>5 DEF CallOk, Pcs, Seeking, Closing, Ops
  <1>8. Track(spoilt', pc', call', hs[h])
    BY <1>2, <1>6 DEF Track, TrackOk, Closing
  <1>9. Counts'  BY <1>1, <1>2, <1>4, <1>6 DEF Counts, NoRes, Errors
  <1>10. hs' = [hs EXCEPT ![h] = hs[h]]  BY <1>1, <1>2
  <1>11. pc' # "idle" /\ call'.h = h  BY <1>2, <1>4, <1>5
  <1> QED BY <1>1, <1>7, <1>8, <1>9, <1>10, <1>11, StepFits

LEMMA BeginTransferFits ==
    ASSUME Handling, pc = "idle", NEW h \in Handles, NEW op \in {"read", "write"}, NEW n \in 1 .. MaxLen,
           NEW v \in IF op = "write" THEN Vals ELSE {0}, BeginTransfer(op, h, n, v),
           lost' \subseteq Sectors
    PROVE  Handling'
  <1> DEFINE c == [NoCall EXCEPT !.op = op, !.h = h, !.len = n, !.val = v]
             m == hs[h].mod \/ op = "write"
             f == Marked(hs[h], TRUE, m)
  <1>1. /\ hs \in [Handles -> HandleSet] /\ Counts /\ hs[h] \in HandleSet /\ Others(h)
    BY AllRest
  <1>2. hs[h].open /\ ~Denied(op, h) /\ pc' = "chunk" /\ UNCHANGED faults
    BY DEF BeginTransfer, Begins, Metadata
  <1>3. Ready(hs[h]) /\ (hs[h].hurt \/ Sane(hs[h]))  BY <1>2, AllRest
  <1>4. call' = c /\ res' = NoRes /\ spoilt' = Astray(hs[h])
    BY DEF BeginTransfer, Begins, NoCall
  <1>5. c \in CallSet /\ c.op = op /\ c.h = h /\ c.val = v
    <2>1. n \in 0 .. MaxLen /\ v \in Vals \cup {0} /\ op \in Ops  BY Constants DEF Ops
    <2>2. c = Copies(NoCall, op, h, n, v)  BY DEF Copies
    <2> HIDE DEF c
    <2> QED BY <2>1, <2>2, NoCallIs, CopiesIs
  <1>6. f \in HandleSet /\ Held(f, hs[h])
    <2>1. m \in BOOLEAN  OBVIOUS
    <2>2. f = Marked(hs[h], TRUE, m)  OBVIOUS
    <2> HIDE DEF f, m
    <2> QED BY <1>1, <2>1, <2>2, MarkedIs
  <1>7. hs' = [hs EXCEPT ![h] = f]  BY <1>1 DEF BeginTransfer, Marked
  <1> HIDE DEF c, f
  <1>8. spoilt' \in BOOLEAN /\ (spoilt' => hs[h].hurt) /\ (~spoilt' => Sane(hs[h]))
    BY <1>1, <1>3, <1>4, SpoiltIs
  <1>9. Ready(f) /\ (Sane(hs[h]) => Sane(f)) /\ f.flags = hs[h].flags /\ f.hurt = hs[h].hurt
    BY <1>3, <1>6 DEF Ready, Sane, Held, Placed
  <1>10. CallOk(pc', call', f)
    <2>1. op = "write" => "WRITE" \in f.flags /\ v \in Vals  BY <1>2, <1>9 DEF Denied
    <2> QED BY <1>2, <1>4, <1>5, <1>9, <2>1 DEF CallOk, Pcs, Seeking, Closing, Ops
  <1>11. Track(spoilt', pc', call', f)
    BY <1>2, <1>8, <1>9 DEF Track, TrackOk, ChunkOk, Closing
  <1>12. Counts'  BY <1>1, <1>2, <1>4, <1>8 DEF Counts, NoRes, Errors
  <1>13. pc' # "idle" /\ call'.h = h  BY <1>2, <1>4, <1>5
  <1> QED BY <1>1, <1>6, <1>7, <1>10, <1>11, <1>12, <1>13, StepFits

LEMMA BeginSyncFits ==
    ASSUME Handling, pc = "idle", NEW h \in Handles, NEW op \in {"sync", "close"}, BeginSync(op, h),
           lost' \subseteq Sectors
    PROVE  Handling'
  <1> DEFINE c == [NoCall EXCEPT !.op = op, !.h = h]
  <1>1. /\ hs \in [Handles -> HandleSet] /\ Counts /\ hs[h] \in HandleSet /\ Others(h)
    BY AllRest
  <1>2. hs[h].open /\ pc' = "put" /\ UNCHANGED <<hs, faults>>
    BY DEF BeginSync, Begins, Metadata
  <1>3. Ready(hs[h]) /\ (hs[h].hurt \/ Sane(hs[h]))  BY <1>2, AllRest
  <1>4. call' = c /\ res' = NoRes /\ spoilt' = Astray(hs[h])
    BY DEF BeginSync, Begins, NoCall
  <1>5. c \in CallSet /\ c.op = op /\ c.h = h
    <2>1. op \in Ops  BY DEF Ops
    <2>2. c = Asks(NoCall, op, h)  BY DEF Asks
    <2> HIDE DEF c
    <2> QED BY <2>1, <2>2, NoCallIs, AsksIs
  <1> HIDE DEF c
  <1>8. spoilt' \in BOOLEAN /\ (spoilt' => hs[h].hurt) /\ (~spoilt' => Sane(hs[h]))
    BY <1>1, <1>3, <1>4, SpoiltIs
  <1>10. CallOk(pc', call', hs[h])
    BY <1>2, <1>3, <1>4, <1>5 DEF CallOk, Pcs, Seeking, Closing, Ops
  <1>11. Track(spoilt', pc', call', hs[h])
    BY <1>2, <1>8 DEF Track, TrackOk, Closing
  <1>12. Counts'  BY <1>1, <1>2, <1>4, <1>8 DEF Counts, NoRes, Errors
  <1>13. pc' # "idle" /\ call'.h = h  BY <1>2, <1>4, <1>5
  <1>14. hs' = [hs EXCEPT ![h] = hs[h]]  BY <1>1, <1>2
  <1> QED BY <1>1, <1>10, <1>11, <1>12, <1>13, <1>14, StepFits

LEMMA BeginSeekFits ==
    ASSUME Handling, NEW h \in Handles, NEW off \in Seeks, NEW w \in {"START", "CURR", "END"},
           BeginSeek(h, off, w), lost' \subseteq Sectors
    PROVE  Handling'
  <1> DEFINE c == [NoCall EXCEPT !.op = "seek", !.h = h]
             o == Base(hs[h], w) + off
  <1>0. pc = "idle"  BY DEF BeginSeek
  <1>1. /\ hs \in [Handles -> HandleSet] /\ Counts /\ hs[h] \in HandleSet /\ Others(h)
    BY <1>0, AllRest
  <1>2. hs[h].open /\ UNCHANGED faults  BY DEF BeginSeek, Metadata
  <1>3. Ready(hs[h]) /\ (hs[h].hurt \/ Sane(hs[h]))  BY <1>0, <1>2, AllRest
  <1>4. SeekBegins(c, hs[h], o) /\ spoilt' = Astray(hs[h])
    BY DEF BeginSeek
  <1>5. c \in CallSet /\ c.op = "seek" /\ c.h = h
    <2>1. "seek" \in Ops  BY DEF Ops
    <2>2. c = Asks(NoCall, "seek", h)  BY DEF Asks
    <2> HIDE DEF c
    <2> QED BY <2>1, <2>2, NoCallIs, AsksIs
  <1>6. o \in Int
    <2>1. hs[h].offset \in 0 .. MaxOff /\ hs[h].size \in 0 .. MaxOff  BY <1>1, HandleIs
    <2>2. Base(hs[h], w) \in Int  BY <2>1, Constants DEF Base
    <2>3. off \in Int  BY FileAssumption
    <2> QED BY <2>2, <2>3
  <1> HIDE DEF c, o
  <1>8. spoilt' \in BOOLEAN /\ (spoilt' => hs[h].hurt) /\ (~spoilt' => Sane(hs[h]))
    BY <1>1, <1>3, <1>4, SpoiltIs
  <1>9. SeekReady(spoilt', c, hs[h], o)
    BY <1>1, <1>3, <1>5, <1>6, <1>8 DEF SeekReady, SeekOps
  <1>10. faults' \in 0 .. MaxFaults  BY <1>1, <1>2 DEF Counts
  <1> QED BY <1>1, <1>4, <1>5, <1>8, <1>9, <1>10, SeekBeginsFits

(* After a loss of power there is no handle. *)
LEMMA CrashFits ==
    ASSUME Handling, Crash, lost' \subseteq Sectors
    PROVE  Handling'
  <1>1. /\ hs' = [h \in Handles |-> NoHandle] /\ pc' = "idle" /\ call' = NoCall
        /\ res' = [op |-> "mount", err |-> "NONE"] /\ UNCHANGED spoilt
        /\ faults < MaxFaults /\ faults' = faults + 1
    BY DEF Crash
  <1>2. Rests(NoHandle) /\ NoHandle \in HandleSet  BY ClosedIs DEF Rests, Shut
  <1>3. HandlesFit'
    <2>1. hs' \in [Handles -> HandleSet] /\ \A h \in Handles : Rests(hs'[h])  BY <1>1, <1>2
    <2> QED BY <2>1 DEF HandlesFit
  <1>4. faults' \in 0 .. MaxFaults /\ spoilt' \in BOOLEAN
    <2>1. faults \in 0 .. MaxFaults /\ spoilt \in BOOLEAN  BY DEF Handling, CallFits
    <2> QED BY <1>1, <2>1, FaultsFit
  <1>5. CallOk(pc', call', Handle') /\ Track(spoilt', pc', call', Handle')
    BY <1>1, NoCallIs DEF CallOk, Track, TrackOk, Pcs, Seeking, Closing
  <1> QED BY <1>1, <1>3, <1>4, <1>5 DEF Handling, CallFits, Errors
-----------------------------------------------------------------------------
(* What is seen of the FAT and of the entry does not change. *)
ViewsStay == View("fat")' = View("fat") /\ View("dir")' = View("dir")

LEMMA LookFits ==
    ASSUME MediumFits, UNCHANGED data, NEW o, o \in UpdateBuf("fat") \/ o \in UpdateBuf("dir") \/ o \in SyncBuf,
           Took(o)
    PROVE  /\ MediumFits' /\ ViewsStay
           /\ o \in SyncBuf /\ o.ok => ~win'.dirty /\ disk'["dir"] = View("dir")
  <1>1. "none" \notin Sects /\ WindowFits(Sects, "none", AllVals) /\ "fat" \in Sects /\ "dir" \in Sects
    BY DEF MediumFits, Sects
  <1>2. OutcomeFits(o, Sects, "none", AllVals)  BY <1>1, UpdateBufFits, SyncBufFits
  <1>3. /\ WindowFits(Sects, "none", AllVals)'
        /\ \A t \in Sects : View(t)' = View(t)
        /\ disk' = disk \/ \A t \in Sects : disk'[t] = View(t)
    BY <1>1, <1>2, TookFits
  <1>4. ViewsStay  BY <1>1, <1>3 DEF ViewsStay
  <1>5. MediumFits'  BY <1>1, <1>3, <1>4 DEF MediumFits, ViewsStay
  <1>6. o \in SyncBuf /\ o.ok => ~win'.dirty /\ disk'["dir"] = View("dir")
    BY <1>1, SyncBufFits DEF Took
  <1> QED BY <1>4, <1>5, <1>6

LEMMA MediumStays ==
    ASSUME MediumFits, UNCHANGED <<disk, win>>, data' \in [Sectors -> Buffers]
    PROVE  MediumFits' /\ ViewsStay
  BY DEF MediumFits, ViewsStay, WindowFits, View

LEMMA StoredIs ==
    ASSUME MediumFits, Handling, pc # "idle", NEW s \in Sectors
    PROVE  /\ Stored(s) \in [Sectors -> Buffers] /\ Stored(s)[s] = Handle.buf
           /\ \A t \in Sectors \ {s} : Stored(s)[t] = data[t]
  <1>1. Handle.buf \in Buffers  BY RunningCall, HandleIs
  <1>2. data \in [Sectors -> Buffers]  BY DEF MediumFits
  <1> QED BY <1>1, <1>2 DEF Stored

(* The chain becomes longer; the entry gets another size. *)
LEMMA ChainGrows ==
    ASSUME MediumFits, NEW o \in UpdateBuf("fat"), NEW n \in 1 .. MaxClusts, Writes(o, "len", n), UNCHANGED data
    PROVE  /\ MediumFits' /\ View("dir")' = View("dir") /\ View("fat")' = [len |-> n]
  <1>1. "none" \notin Sects /\ WindowFits(Sects, "none", AllVals) /\ "fat" \in Sects /\ "dir" \in Sects
    BY DEF MediumFits, Sects
  <1> DEFINE b == Rewritten("fat", "len", n)
  <1>2. b = [len |-> n] /\ b \in FatVals /\ b \in AllVals
    BY DEF MediumFits, FatVals, AllVals, Rewritten
  <1>3. /\ WindowFits(Sects, "none", AllVals)' /\ View("fat")' = b /\ \A t \in Sects \ {"fat"} : View(t)' = View(t)
        /\ \/ \A t \in Sects : disk'[t] = View(t)
           \/ disk' = disk /\ \A t \in Sects \ {"fat"} : disk[t] = View(t)
    BY <1>1, <1>2, WritesFits
  <1> HIDE DEF b
  <1>4. View("dir")' = View("dir")  BY <1>1, <1>3
  <1> QED BY <1>1, <1>2, <1>3, <1>4 DEF MediumFits

LEMMA SizeChanges ==
    ASSUME MediumFits, NEW o \in UpdateBuf("dir"), NEW n \in 0 .. MaxOff, Writes(o, "size", n), UNCHANGED data
    PROVE  /\ MediumFits' /\ View("fat")' = View("fat") /\ View("dir").size' = n
  <1>1. "none" \notin Sects /\ WindowFits(Sects, "none", AllVals) /\ "fat" \in Sects /\ "dir" \in Sects
    BY DEF MediumFits, Sects
  <1> DEFINE b == Rewritten("dir", "size", n)
  <1>2. b = [size |-> n] /\ b.size = n /\ b \in DirVals /\ b \in AllVals
    BY DEF MediumFits, DirVals, AllVals, Rewritten
  <1>3. /\ WindowFits(Sects, "none", AllVals)' /\ View("dir")' = b /\ \A t \in Sects \ {"dir"} : View(t)' = View(t)
        /\ \/ \A t \in Sects : disk'[t] = View(t)
           \/ disk' = disk /\ \A t \in Sects \ {"dir"} : disk[t] = View(t)
    BY <1>1, <1>2, WritesFits
  <1> HIDE DEF b
  <1>4. View("fat")' = View("fat")  BY <1>1, <1>3
  <1> QED BY <1>1, <1>2, <1>3, <1>4 DEF MediumFits

(* A step that leaves a handle with a size that is right keeps them all so. *)
LEMMA SizesMove ==
    ASSUME NEW h \in Handles, NEW f, hs \in [Handles -> HandleSet], hs' = [hs EXCEPT ![h] = f],
           SizesOk, View("dir")' = View("dir"), f.open => SizeOk(f, View("dir").size),
           pc' \notin {"touch", "flush"},
           call'.op = "write" => call'.h = h /\ f.mod
    PROVE  SizesOk'
  <1>1. ASSUME NEW g \in Handles, hs'[g].open PROVE SizeOk(hs'[g], View("dir")'.size)
    <2>1. CASE g = h  BY <1>1, <2>1 DEF SizeOk
    <2>2. CASE g # h  BY <1>1, <2>2 DEF SizesOk, SizeOk
    <2> QED BY <2>1, <2>2
  <1>2. call'.op = "write" => Handle'.mod  BY DEF Handle
  <1> QED BY <1>1, <1>2 DEF SizesOk

LEMMA SeekEndsSizes ==
    ASSUME NEW c \in CallSet, NEW f \in HandleSet, NEW e, SeekEnds(c, f, e), c.h \in Handles,
           hs \in [Handles -> HandleSet], SizesOk, View("dir")' = View("dir"), f.open => SizeOk(f, View("dir").size),
           c.op = "write" => f.mod
    PROVE  SizesOk'
  <1> DEFINE b == f.hurt \/ e = "IO" \/ (e = "FULL" /\ c.op \in {"open", "seek"})
             g == [f EXCEPT !.hurt = b]
  <1>2. /\ hs' = [hs EXCEPT ![c.h] = IF c.op = "open" /\ e # "NONE" THEN NoHandle ELSE g]
        /\ AfterSeek(c.op, e) => Returns(c.op, e)
        /\ ~AfterSeek(c.op, e) =>
              /\ pc' = "chunk" /\ UNCHANGED res
              /\ call' = [c EXCEPT !.len = IF e = "NONE" THEN c.len ELSE 0,
                                   !.ssect = NoSect, !.off = 0, !.left = 0]
    BY DEF SeekEnds
  <1>3. g \in HandleSet /\ Alike(g, f)
    <2>1. b \in BOOLEAN  BY HandleIs
    <2> HIDE DEF b
    <2>2. g = [f EXCEPT !.hurt = b]  OBVIOUS
    <2> HIDE DEF g
    <2> QED BY <2>1, <2>2, HurtIs
  <1> HIDE DEF g, b
  <1>4. (f.open => SizeOk(f, View("dir").size)) /\ (g.open => SizeOk(g, View("dir").size))  BY <1>3 DEF SizeOk, Alike
  <1>5. CASE AfterSeek(c.op, e)
    <2> DEFINE k == IF c.op = "open" /\ e # "NONE" THEN NoHandle ELSE g
    <2>1. k.open => SizeOk(k, View("dir").size)  BY <1>4, ClosedIs
    <2>2. pc' = "idle" /\ call'.op # "write"  BY <1>2, <1>5 DEF Returns, NoCall
    <2>3. hs' = [hs EXCEPT ![c.h] = k]  BY <1>2
    <2> HIDE DEF k
    <2> QED BY <2>1, <2>2, <2>3, SizesMove
  <1>6. CASE ~AfterSeek(c.op, e)
    <2>1. ~(c.op = "open" /\ e # "NONE")  BY <1>6 DEF AfterSeek
    <2>2. hs' = [hs EXCEPT ![c.h] = g]  BY <1>2, <2>1
    <2>3. call'.op = c.op /\ call'.h = c.h /\ pc' = "chunk"  BY <1>2, <1>6 DEF CallSet
    <2>4. call'.op = "write" => call'.h = c.h /\ g.mod  BY <1>3, <2>3 DEF Alike
    <2> QED BY <1>4, <2>2, <2>3, <2>4, SizesMove
  <1> QED BY <1>5, <1>6

LEMMA SeekBeginsSizes ==
    ASSUME NEW c \in CallSet, NEW f \in HandleSet, NEW off, SeekBegins(c, f, off), c.h \in Handles,
           hs \in [Handles -> HandleSet], SizesOk, View("dir")' = View("dir"), f.open => SizeOk(f, View("dir").size),
           c.op = "write" => f.mod
    PROVE  SizesOk'
  <1>1. CASE off < 0 \/ off > MaxOff
    <2>1. SeekEnds(c, f, "EOF")  BY <1>1 DEF SeekBegins
    <2> QED BY <2>1, SeekEndsSizes
  <1>2. CASE ~(off < 0 \/ off > MaxOff)
    <2> DEFINE back == Clust(off) < Clust(f.offset)
               g    == IF back THEN Backtrack(f) ELSE f
               l    == Clust(off) - Clust(g.offset)
    <2>1. /\ hs' = [hs EXCEPT ![c.h] = g]
          /\ call' = [c EXCEPT !.ssect = f.sect, !.off = off, !.left = l]
          /\ pc' = "follow" /\ UNCHANGED res
      BY <1>2 DEF SeekBegins, Clust
    <2>2. Alike(g, f)
      <3>1. SectAt(1, 0) \in Spots  BY SectorOf, Constants DEF Spots
      <3>2. back => g = Backtrack(f)  OBVIOUS
      <3>3. ~back => g = f  OBVIOUS
      <3> HIDE DEF g, back
      <3> QED BY <3>1, <3>2, <3>3, TurnedBack DEF Alike
    <2> HIDE DEF g, l, back
    <2>3. call'.op = c.op /\ call'.h = c.h  BY <2>1 DEF CallSet
    <2>4. g.open => SizeOk(g, View("dir").size)  BY <2>2 DEF SizeOk, Alike
    <2>5. call'.op = "write" => call'.h = c.h /\ g.mod  BY <2>2, <2>3 DEF Alike
    <2> QED BY <2>1, <2>4, <2>5, SizesMove
  <1> QED BY <1>1, <1>2

(* The handle of the running call has a size that is right. *)
LEMMA CallSize ==
    ASSUME Handling, SizesOk, pc # "idle"
    PROVE  /\ hs \in [Handles -> HandleSet] /\ call.h \in Handles /\ call \in CallSet
           /\ Handle \in HandleSet /\ Handle = hs[call.h] /\ call.op \in Ops
           /\ Handle.open => SizeOk(Handle, View("dir").size)
           /\ call.op = "write" => Handle.mod
           /\ pc \in {"touch", "flush"} => data[Handle.sect] = Handle.buf
           /\ pc = "flush" => Handle.late \/ Handle.size = View("dir").size
  <1>1. /\ hs \in [Handles -> HandleSet] /\ call.h \in Handles /\ call \in CallSet
        /\ Handle \in HandleSet /\ Handle = hs[call.h] /\ call.op \in Ops
    BY RunningCall
  <1> QED BY <1>1 DEF SizesOk

LEMMA EndsWell ==
    ASSUME Handling, SizesOk, pc # "idle", NEW e, SeekEnds(call, Handle, e), View("dir")' = View("dir")
    PROVE  SizesOk'
  BY CallSize, SeekEndsSizes

LEMMA FindKeeps ==
    ASSUME IInv, Find
    PROVE  MediumFits' /\ ViewsStay /\ SizesOk'
  <1>1. pc = "find" /\ UNCHANGED data /\ MediumFits /\ Handling /\ SizesOk  BY DEF Find, IInv
  <1>2. /\ hs \in [Handles -> HandleSet] /\ call.h \in Handles /\ call \in CallSet
        /\ CallOk(pc, call, Handle)
    BY <1>1, RunningCall
  <1>3. PICK o \in UpdateBuf("dir") :
          \/ Fails(o)
          \/ /\ o.ok /\ Took(o)
             /\ LET f == OpenSize([NoHandle EXCEPT !.open = TRUE, !.flags = call.flags], o.win.buf.size)
                IN  SeekBegins(call, f, IF "APPEND" \in f.flags THEN f.size ELSE 0)
    BY DEF Find
  <1>4. MediumFits' /\ ViewsStay
    <2>1. Took(o)  BY <1>3 DEF Fails
    <2> QED BY <1>1, <2>1, LookFits
  <1>5. View("dir")' = View("dir")  BY <1>4 DEF ViewsStay
  <1>6. CASE Fails(o)
    <2>1. SeekEnds(call, Handle, "IO")  BY <1>6 DEF Fails
    <2> QED BY <1>1, <1>4, <1>5, <2>1, EndsWell
  <1>7. CASE ~Fails(o)
    <2> DEFINE f == OpenSize([NoHandle EXCEPT !.open = TRUE, !.flags = call.flags], o.win.buf.size)
               off == IF "APPEND" \in f.flags THEN f.size ELSE 0
    <2>1. o.ok /\ SeekBegins(call, f, off)  BY <1>3, <1>7
    <2>2. o.win.buf.size \in 0 .. MaxOff /\ o.win.buf.size = View("dir").size  BY <1>1, <2>1, EntryShown
    <2>3. call.flags \in SUBSET AllFlags  BY <1>2, CallIs
    <2>4. f = OpenSize(Blank(call.flags), o.win.buf.size)  BY DEF Blank
    <2> HIDE DEF f, off
    <2>5. /\ f \in HandleSet /\ f.flags = call.flags
          /\ ~f.late /\ (~f.mod => f.size = View("dir").size) /\ ("TRUNC" \notin f.flags => f.size = View("dir").size)
      BY <2>2, <2>3, <2>4, OpenedIs
    <2>6. SizeOk(f, View("dir").size)
      <3>1. View("dir").size \in 0 .. MaxOff  BY <1>1, EntryShown
      <3> QED BY <2>5, <3>1, Constants DEF SizeOk
    <2>7. call.op # "write"  BY <1>1, <1>2 DEF CallOk
    <2>8. SizesOk'
      BY <1>1, <1>2, <1>5, <2>1, <2>5, <2>6, <2>7, SeekBeginsSizes
    <2> QED BY <1>4, <2>8
  <1> QED BY <1>6, <1>7

(* The handle goes to its next cluster: its size is what it was. *)
LEMMA SteppedSizes ==
    ASSUME Handling, SizesOk, pc # "idle", hs' = [hs EXCEPT ![call.h].clust = @ + 1],
           call' = [call EXCEPT !.left = @ - 1], pc' = "follow", View("dir")' = View("dir")
    PROVE  SizesOk'
  <1> DEFINE k == Handle.clust + 1
             f == [Handle EXCEPT !.clust = k]
  <1>1. /\ hs \in [Handles -> HandleSet] /\ call.h \in Handles /\ call \in CallSet
        /\ Handle \in HandleSet /\ Handle = hs[call.h]
        /\ Handle.open => SizeOk(Handle, View("dir").size)
        /\ call.op = "write" => Handle.mod
    BY CallSize
  <1>2. hs' = [hs EXCEPT ![call.h] = f]  BY <1>1
  <1>3. /\ f.open = Handle.open /\ f.size = Handle.size /\ f.mod = Handle.mod
        /\ f.late = Handle.late /\ f.flags = Handle.flags
    BY <1>1 DEF HandleSet
  <1> HIDE DEF f
  <1>4. f.open => SizeOk(f, View("dir").size)  BY <1>1, <1>3 DEF SizeOk
  <1>5. call'.op = call.op /\ call'.h = call.h  BY <1>1 DEF CallSet
  <1>6. call'.op = "write" => call'.h = call.h /\ f.mod  BY <1>1, <1>3, <1>5
  <1> QED BY <1>1, <1>2, <1>4, <1>6, SizesMove

(* Nothing changes but the place of the call. *)
LEMMA SameSizes ==
    ASSUME Handling, SizesOk, pc # "idle", UNCHANGED <<hs, call>>, View("dir")' = View("dir"),
           pc' \notin {"touch", "flush"}
    PROVE  SizesOk'
  <1>1. /\ hs \in [Handles -> HandleSet] /\ call.h \in Handles /\ Handle = hs[call.h]
        /\ Handle.open => SizeOk(Handle, View("dir").size)
        /\ call.op = "write" => Handle.mod
    BY CallSize
  <1>2. hs' = [hs EXCEPT ![call.h] = Handle]  BY <1>1
  <1>3. call'.op = "write" => call'.h = call.h /\ Handle.mod  BY <1>1
  <1> QED BY <1>1, <1>2, <1>3, SizesMove

LEMMA FollowKeeps ==
    ASSUME IInv, Follow
    PROVE  MediumFits' /\ ViewsStay /\ SizesOk'
  <1>1. pc = "follow" /\ MediumFits /\ Handling /\ SizesOk  BY DEF Follow, IInv
  <1>3. PICK o \in UpdateBuf("fat") :
          \/ Fails(o)
          \/ /\ o.ok /\ Took(o)
             /\ UNCHANGED <<data, res>>
             /\ IF Handle.clust < o.win.buf.len
                THEN /\ hs' = [hs EXCEPT ![call.h].clust = @ + 1]
                     /\ call' = [call EXCEPT !.left = @ - 1] /\ UNCHANGED pc
                ELSE pc' = "stretch" /\ UNCHANGED <<hs, call>>
    BY DEF Follow
  <1>4. MediumFits' /\ ViewsStay
    <2>1. Took(o) /\ UNCHANGED data  BY <1>3 DEF Fails
    <2> QED BY <1>1, <2>1, LookFits
  <1>5. View("dir")' = View("dir")  BY <1>4 DEF ViewsStay
  <1>6. CASE Fails(o)
    <2>1. SeekEnds(call, Handle, "IO")  BY <1>6 DEF Fails
    <2> QED BY <1>1, <1>4, <1>5, <2>1, EndsWell
  <1>7. CASE ~Fails(o) /\ Handle.clust < o.win.buf.len
    BY <1>1, <1>3, <1>4, <1>5, <1>7, SteppedSizes
  <1>8. CASE ~Fails(o) /\ ~(Handle.clust < o.win.buf.len)
    BY <1>1, <1>3, <1>4, <1>5, <1>8, SameSizes
  <1> QED BY <1>6, <1>7, <1>8

LEMMA StretchKeeps ==
    ASSUME IInv, Stretch
    PROVE  MediumFits' /\ View("dir")' = View("dir") /\ SizesOk'
  <1>1. pc = "stretch" /\ MediumFits /\ Handling /\ SizesOk  BY DEF Stretch, IInv
  <1>2. CASE UNCHANGED Metadata /\ UNCHANGED data /\ SeekEnds(call, Handle, "FULL")
    <2>1. data' \in [Sectors -> Buffers] /\ UNCHANGED <<disk, win>>  BY <1>1, <1>2 DEF MediumFits, Metadata
    <2>2. MediumFits' /\ View("dir")' = View("dir")  BY <1>1, <2>1, MediumStays DEF ViewsStay
    <2> QED BY <1>1, <1>2, <2>2, EndsWell
  <1>3. ASSUME NEW o \in UpdateBuf("fat"), Fails(o) PROVE MediumFits' /\ View("dir")' = View("dir") /\ SizesOk'
    <2>1. SeekEnds(call, Handle, "IO") /\ Took(o) /\ UNCHANGED data  BY <1>3 DEF Fails
    <2>2. MediumFits' /\ View("dir")' = View("dir")  BY <1>1, <1>3, <2>1, LookFits DEF ViewsStay
    <2> QED BY <1>1, <2>1, <2>2, EndsWell
  <1>4. ASSUME NEW o \in UpdateBuf("fat"), Handle.clust < MaxClusts,
               Writes(o, "len", Handle.clust + 1),
               pc' = "stretchSync", UNCHANGED <<data, hs, call, res>>
        PROVE  MediumFits' /\ View("dir")' = View("dir") /\ SizesOk'
    <2>1. Handle.clust + 1 \in 1 .. MaxClusts
      <3>1. Handle.clust \in 1 .. MaxClusts  BY <1>1, CallSize, HandleIs
      <3> QED BY <1>4, <3>1, Constants
    <2>2. MediumFits' /\ View("dir")' = View("dir")  BY <1>1, <1>4, <2>1, ChainGrows
    <2> QED BY <1>1, <1>4, <2>2, SameSizes
  <1> QED BY <1>2, <1>3, <1>4 DEF Stretch

LEMMA StretchSyncKeeps ==
    ASSUME IInv, StretchSync
    PROVE  MediumFits' /\ ViewsStay /\ SizesOk'
  <1>1. pc = "stretchSync" /\ MediumFits /\ Handling /\ SizesOk  BY DEF StretchSync, IInv
  <1>3. PICK o \in SyncBuf :
         \/ Fails(o)
         \/ /\ o.ok /\ Took(o)
            /\ hs' = [hs EXCEPT ![call.h].clust = @ + 1]
            /\ call' = [call EXCEPT !.left = @ - 1]
            /\ pc' = "follow" /\ UNCHANGED <<data, res>>
    BY DEF StretchSync
  <1>4. MediumFits' /\ ViewsStay
    <2>1. Took(o) /\ UNCHANGED data  BY <1>3 DEF Fails
    <2> QED BY <1>1, <2>1, LookFits
  <1>5. View("dir")' = View("dir")  BY <1>4 DEF ViewsStay
  <1>6. CASE Fails(o)
    <2>1. SeekEnds(call, Handle, "IO")  BY <1>6 DEF Fails
    <2> QED BY <1>1, <1>4, <1>5, <2>1, EndsWell
  <1>7. CASE ~Fails(o)
    BY <1>1, <1>3, <1>4, <1>5, <1>7, SteppedSizes
  <1> QED BY <1>6, <1>7

LEMMA ArriveKeeps ==
    ASSUME IInv, Arrive
    PROVE  MediumFits' /\ ViewsStay /\ SizesOk'
  <1> DEFINE f == [Handle EXCEPT !.sect = SectAt(Handle.clust, call.off), !.offset = call.off]
  <1>1. pc = "follow" /\ UNCHANGED <<disk, win, data>> /\ MediumFits /\ Handling /\ SizesOk
    BY DEF Arrive, IInv, Metadata
  <1>2. MediumFits' /\ ViewsStay /\ View("dir")' = View("dir")
    <2>1. data' \in [Sectors -> Buffers]  BY <1>1 DEF MediumFits
    <2> QED BY <1>1, <2>1, MediumStays DEF ViewsStay
  <1>3. /\ hs \in [Handles -> HandleSet] /\ call.h \in Handles /\ call \in CallSet
        /\ Handle \in HandleSet /\ Handle = hs[call.h]
        /\ Handle.open => SizeOk(Handle, View("dir").size)
        /\ call.op = "write" => Handle.mod
    BY <1>1, CallSize
  <1>4. f \in HandleSet /\ Alike(f, Handle)
    <2>1. call.off \in 0 .. MaxOff /\ Handle.clust \in 1 .. MaxClusts  BY <1>3, CallIs, HandleIs
    <2>2. SectAt(Handle.clust, call.off) \in Spots  BY <2>1, SectorOf, Constants DEF Spots
    <2>3. f = Moved(Handle, SectAt(Handle.clust, call.off), call.off)  BY DEF Moved
    <2> HIDE DEF f
    <2> QED BY <1>3, <2>1, <2>2, <2>3, PlaceIs
  <1>5. IF f.sect = call.ssect
        THEN SeekEnds(call, f, "NONE")
        ELSE hs' = [hs EXCEPT ![call.h] = f] /\ pc' = FirstTransfer(f) /\ UNCHANGED <<call, res>>
    BY DEF Arrive, SameSector
  <1> HIDE DEF f
  <1>6. (f.open => SizeOk(f, View("dir").size)) /\ (call.op = "write" => f.mod)
    BY <1>3, <1>4 DEF SizeOk, Alike
  <1>7. CASE f.sect = call.ssect
    <2>1. SeekEnds(call, f, "NONE")  BY <1>5, <1>7
    <2> QED BY <1>1, <1>2, <1>3, <1>4, <1>6, <2>1, SeekEndsSizes
  <1>8. CASE f.sect # call.ssect
    <2>1. hs' = [hs EXCEPT ![call.h] = f] /\ pc' \notin {"touch", "flush"} /\ UNCHANGED call
      BY <1>5, <1>8 DEF FirstTransfer
    <2>2. call'.op = "write" => call'.h = call.h /\ f.mod  BY <1>6, <2>1
    <2> QED BY <1>1, <1>2, <1>3, <1>6, <2>1, <2>2, SizesMove
  <1> QED BY <1>7, <1>8

LEMMA BackKeeps ==
    ASSUME IInv, Back
    PROVE  MediumFits' /\ ViewsStay /\ SizesOk'
  <1>1. pc = "back" /\ MediumFits /\ Handling /\ SizesOk /\ UNCHANGED <<disk, win>>
    BY DEF Back, IInv, PutFails, Faulted, Metadata
  <1>2. /\ hs \in [Handles -> HandleSet] /\ call.h \in Handles /\ call \in CallSet
        /\ Handle \in HandleSet /\ Handle = hs[call.h]
        /\ Handle.open => SizeOk(Handle, View("dir").size)
        /\ call.op = "write" => Handle.mod
    BY <1>1, CallSize
  <1>3. call.ssect \in Sectors
    <2>1. CallOk(pc, call, Handle)  BY <1>1, RunningCall
    <2> QED BY <1>1, <2>1 DEF CallOk, Seeking
  <1>4. data' \in [Sectors -> Buffers]
    <2>1. data' = data \/ data' = Stored(call.ssect)  BY DEF Back, PutFails
    <2>2. data \in [Sectors -> Buffers]  BY <1>1 DEF MediumFits
    <2> QED BY <1>1, <1>3, <2>1, <2>2, StoredIs
  <1>5. MediumFits' /\ ViewsStay /\ View("dir")' = View("dir")  BY <1>1, <1>4, MediumStays DEF ViewsStay
  <1>6. CASE PutFails(call.ssect)
    <2>1. SeekEnds(call, Handle, "IO")  BY <1>6 DEF PutFails
    <2> QED BY <1>1, <1>5, <2>1, EndsWell
  <1>7. CASE hs' = [hs EXCEPT ![call.h].dirty = FALSE] /\ pc' = "fill" /\ UNCHANGED <<call, res>>
    <2> DEFINE f == [Handle EXCEPT !.dirty = FALSE]
    <2>1. hs' = [hs EXCEPT ![call.h] = f]  BY <1>2, <1>7
    <2>2. /\ f.open = Handle.open /\ f.size = Handle.size /\ f.mod = Handle.mod
          /\ f.late = Handle.late /\ f.flags = Handle.flags
      BY <1>2 DEF HandleSet
    <2> HIDE DEF f
    <2>3. (f.open => SizeOk(f, View("dir").size)) /\ (call.op = "write" => f.mod)
      BY <1>2, <2>2 DEF SizeOk
    <2>4. call'.op = "write" => call'.h = call.h /\ f.mod  BY <1>7, <2>3
    <2>5. pc' \notin {"touch", "flush"}  BY <1>7
    <2> QED BY <1>1, <1>2, <1>5, <2>1, <2>3, <2>4, <2>5, SizesMove
  <1> QED BY <1>6, <1>7 DEF Back

LEMMA FillKeeps ==
    ASSUME IInv, Fill
    PROVE  MediumFits' /\ ViewsStay /\ SizesOk'
  <1>1. pc = "fill" /\ MediumFits /\ Handling /\ SizesOk /\ UNCHANGED <<disk, win, data>>
    BY DEF Fill, IInv, Faulted, Metadata
  <1>2. /\ hs \in [Handles -> HandleSet] /\ call.h \in Handles /\ call \in CallSet
        /\ Handle \in HandleSet /\ Handle = hs[call.h]
        /\ Handle.open => SizeOk(Handle, View("dir").size)
        /\ call.op = "write" => Handle.mod
    BY <1>1, CallSize
  <1>3. data \in [Sectors -> Buffers]  BY <1>1 DEF MediumFits
  <1>4. MediumFits' /\ ViewsStay /\ View("dir")' = View("dir")  BY <1>1, <1>3, MediumStays DEF ViewsStay
  <1>5. CASE SeekEnds(call, Handle, "IO")
    BY <1>1, <1>4, <1>5, EndsWell
  <1>6. CASE SeekEnds(call, [Handle EXCEPT !.buf = data[Handle.sect], !.at = Handle.sect], "NONE")
    <2> DEFINE f == Loaded(Handle, data[Handle.sect], Handle.sect)
    <2>1. SeekEnds(call, f, "NONE") /\ f = Loaded(Handle, data[Handle.sect], Handle.sect)  BY <1>6 DEF Loaded
    <2>2. data[Handle.sect] \in Buffers /\ Handle.sect \in Spots
      <3>1. CallOk(pc, call, Handle)  BY <1>1, RunningCall
      <3>2. Handle.sect \in Sectors  BY <1>1, <3>1 DEF CallOk
      <3> QED BY <1>3, <3>2 DEF Spots
    <2> HIDE DEF f
    <2>3. /\ f \in HandleSet /\ f.open = Handle.open /\ f.size = Handle.size /\ f.mod = Handle.mod
          /\ f.late = Handle.late /\ f.flags = Handle.flags
      BY <1>2, <2>1, <2>2, LoadedIs
    <2>4. (f.open => SizeOk(f, View("dir").size)) /\ (call.op = "write" => f.mod)
      BY <1>2, <2>3 DEF SizeOk
    <2>5. SizesOk'  BY <1>1, <1>2, <1>4, <2>1, <2>3, <2>4, SeekEndsSizes
    <2> QED BY <1>4, <2>5
  <1> QED BY <1>5, <1>6 DEF Fill

(* Steps that touch neither the window nor the medium. *)
LEMMA MediumIsSame ==
    ASSUME MediumFits, UNCHANGED <<disk, win, data>>
    PROVE  MediumFits' /\ ViewsStay /\ View("dir")' = View("dir") /\ View("fat")' = View("fat")
  <1>1. data' \in [Sectors -> Buffers]  BY DEF MediumFits
  <1> QED BY <1>1, MediumStays DEF ViewsStay

LEMMA ReadChunkKeeps ==
    ASSUME IInv, ReadChunk
    PROVE  MediumFits' /\ ViewsStay /\ SizesOk'
  <1>1. /\ pc = "chunk" /\ call.op = "read" /\ MediumFits /\ Handling /\ SizesOk
        /\ UNCHANGED <<disk, win, data>>
    BY DEF ReadChunk, IInv, Metadata
  <1>2. MediumFits' /\ ViewsStay /\ View("dir")' = View("dir")  BY <1>1, MediumIsSame
  <1>3. /\ hs \in [Handles -> HandleSet] /\ call.h \in Handles /\ call \in CallSet
        /\ Handle \in HandleSet /\ Handle = hs[call.h]
        /\ Handle.open => SizeOk(Handle, View("dir").size)
    BY <1>1, CallSize
  <1>4. CASE call.len > 0 /\ Handle.offset < Handle.size
    <2> DEFINE n == call.len - Cnt
               d == [call EXCEPT !.len = n]
    <2>1. SeekBegins(d, Handle, Handle.offset + Cnt)  BY <1>1, <1>4 DEF ReadChunk
    <2>2. n \in 0 .. MaxLen
      <3>1. call.len \in 0 .. MaxLen /\ call.len \in Nat /\ Handle.offset \in Nat /\ Handle.size \in Nat
        BY <1>1, AtChunk
      <3>2. Cnt \in 1 .. call.len  BY <1>4, <3>1, ChunkBounds DEF Cnt, Idx
      <3> QED BY <3>1, <3>2, Constants
    <2>3. d = [call EXCEPT !.len = n]  OBVIOUS
    <2> HIDE DEF d, n
    <2>4. SameCall(d, call)  BY <1>3, <2>2, <2>3, LessLeft
    <2>5. d \in CallSet /\ d.h = call.h /\ d.op = "read"  BY <1>1, <2>4 DEF SameCall
    <2>6. SizesOk'  BY <1>1, <1>2, <1>3, <2>1, <2>5, SeekBeginsSizes
    <2> QED BY <1>2, <2>6
  <1>5. CASE ~(call.len > 0 /\ Handle.offset < Handle.size)
    <2>1. Returns(call.op, "NONE") /\ UNCHANGED hs  BY <1>1, <1>5 DEF ReadChunk
    <2>2. hs' = [hs EXCEPT ![call.h] = Handle]  BY <1>3, <2>1
    <2>3. pc' = "idle" /\ call'.op # "write"  BY <2>1 DEF Returns, NoCall
    <2> QED BY <1>1, <1>2, <1>3, <2>2, <2>3, SizesMove
  <1> QED BY <1>4, <1>5

LEMMA WriteChunkKeeps ==
    ASSUME IInv, WriteChunk
    PROVE  MediumFits' /\ ViewsStay /\ SizesOk'
  <1>1. /\ pc = "chunk" /\ call.op = "write" /\ MediumFits /\ Handling /\ SizesOk
        /\ UNCHANGED <<disk, win, data>>
    BY DEF WriteChunk, IInv, Metadata
  <1>2. MediumFits' /\ ViewsStay /\ View("dir")' = View("dir")  BY <1>1, MediumIsSame
  <1>3. /\ hs \in [Handles -> HandleSet] /\ call.h \in Handles /\ call \in CallSet
        /\ Handle \in HandleSet /\ Handle = hs[call.h]
        /\ Handle.open => SizeOk(Handle, View("dir").size)
        /\ Handle.mod
    BY <1>1, CallSize
  <1>4. call.len \in 0 .. MaxLen /\ call.len \in Nat /\ Handle.offset \in Nat /\ Handle.size \in Nat
        /\ call.val \in Vals /\ Ready(Handle) /\ Handle.offset \in 0 .. MaxOff /\ Handle.size \in 0 .. MaxOff
    BY <1>1, AtChunk
  <1>5. CASE call.len > 0
    <2> DEFINE m == Min2(call.len, SectSize - Idx)
               n == call.len - m
               d == [call EXCEPT !.len = n]
               f == Written(Handle, PutBytes(Handle, m))
    <2>1. SeekBegins(d, f, Handle.offset + m)  BY <1>1, <1>5 DEF WriteChunk, Written
    <2>2. n \in 0 .. MaxLen
      <3>1. m \in 1 .. call.len  BY <1>4, <1>5, ChunkBounds DEF Idx
      <3> HIDE DEF m
      <3> QED BY <1>4, <3>1, Constants
    <2>3. d = [call EXCEPT !.len = n]  OBVIOUS
    <2>4. PutBytes(Handle, m) \in Buffers /\ f = Written(Handle, PutBytes(Handle, m)) /\ Handle \in HandleSet
      BY <1>3, <1>4, PutBytesIs
    <2> HIDE DEF d, n, f, m
    <2>5. SameCall(d, call)  BY <1>3, <2>2, <2>3, LessLeft
    <2>6. d \in CallSet /\ d.h = call.h  BY <2>5 DEF SameCall
    <2>7. /\ f \in HandleSet /\ f.open = Handle.open /\ f.size = Handle.size /\ f.mod = Handle.mod
          /\ f.late = Handle.late /\ f.flags = Handle.flags
      BY <2>4, WrittenIs
    <2>8. (f.open => SizeOk(f, View("dir").size)) /\ f.mod  BY <1>3, <2>7 DEF SizeOk
    <2>9. SizesOk'  BY <1>1, <1>2, <1>3, <2>1, <2>6, <2>7, <2>8, SeekBeginsSizes
    <2> QED BY <1>2, <2>9
  <1>6. CASE ~(call.len > 0)
    <2> DEFINE n == SizeAfter(Handle)
               f == [Handle EXCEPT !.size = n]
    <2>1. hs' = [hs EXCEPT ![call.h] = f] /\ Returns(call.op, "NONE")  BY <1>1, <1>3, <1>6 DEF WriteChunk
    <2>2. n \in 0 .. MaxOff /\ n >= Handle.size  BY <1>4 DEF SizeAfter
    <2>3. f = [Handle EXCEPT !.size = n] /\ Handle \in HandleSet  BY <1>3
    <2> HIDE DEF f, n
    <2>4. f \in HandleSet /\ Held(f, Handle) /\ f.size = n /\ f.mod = Handle.mod /\ f.late = Handle.late
      <3>1. n \in 0 .. MaxOff  BY <2>2
      <3> QED BY <2>3, <3>1, SizedIs
    <2>5. SizeOk(f, View("dir").size)
      <3>1. SizeOk(Handle, View("dir").size)  BY <1>3, <1>4 DEF Ready
      <3>2. View("dir").size \in Nat /\ n \in Nat  BY <1>1, <2>2, EntryShown, Constants
      <3> QED BY <1>3, <1>4, <2>2, <2>4, <3>1, <3>2 DEF SizeOk, Held
    <2>6. pc' = "idle" /\ call'.op # "write"  BY <2>1 DEF Returns, NoCall
    <2> QED BY <1>1, <1>2, <1>3, <2>1, <2>5, <2>6, SizesMove
  <1> QED BY <1>5, <1>6

(* The call returns, and handles are as they were. *)
LEMMA ReturnKeeps ==
    ASSUME Handling, SizesOk, pc # "idle", NEW op, NEW e, Returns(op, e), UNCHANGED hs, View("dir")' = View("dir")
    PROVE  SizesOk'
  <1>1. /\ hs \in [Handles -> HandleSet] /\ call.h \in Handles /\ Handle = hs[call.h]
        /\ Handle.open => SizeOk(Handle, View("dir").size)
    BY CallSize
  <1>2. hs' = [hs EXCEPT ![call.h] = Handle]  BY <1>1
  <1>3. pc' = "idle" /\ call'.op # "write"  BY DEF Returns, NoCall
  <1> QED BY <1>1, <1>2, <1>3, SizesMove

LEMMA PutKeeps ==
    ASSUME IInv, Put
    PROVE  MediumFits' /\ ViewsStay /\ SizesOk'
  <1>1. pc = "put" /\ pc \in Closing /\ MediumFits /\ Handling /\ SizesOk /\ UNCHANGED <<disk, win>>
    BY DEF Put, IInv, Faulted, Metadata, Closing
  <1>2. /\ hs \in [Handles -> HandleSet] /\ call.h \in Handles /\ call.op \in {"sync", "close"}
        /\ Handle \in HandleSet /\ Handle = hs[call.h] /\ Ready(Handle)
    BY <1>1, AtClosing
  <1>3. SizeOk(Handle, View("dir").size)  BY <1>1, <1>2, CallSize DEF Ready
  <1>4. /\ Stored(Handle.sect) \in [Sectors -> Buffers] /\ Stored(Handle.sect)[Handle.sect] = Handle.buf
        /\ data \in [Sectors -> Buffers]
    BY <1>1, <1>2, StoredIs DEF Ready, MediumFits
  <1>5. data' \in [Sectors -> Buffers]  BY <1>4 DEF Put
  <1>6. MediumFits' /\ ViewsStay /\ View("dir")' = View("dir")  BY <1>1, <1>5, MediumStays DEF ViewsStay
  <1>7. CASE Returns(call.op, "IO") /\ UNCHANGED hs
    BY <1>1, <1>6, <1>7, ReturnKeeps
  <1>8. CASE /\ data' = Stored(Handle.sect)
             /\ pc' = IF Handle.acc \/ Handle.mod THEN "touch" ELSE "flush"
             /\ UNCHANGED <<hs, call, res>>
    <2>1. \A g \in Handles : hs'[g].open => SizeOk(hs'[g], View("dir")'.size)
      BY <1>1, <1>6, <1>8 DEF SizesOk
    <2>2. Handle' = Handle  BY <1>8 DEF Handle
    <2>3. pc' = "flush" => Handle'.late \/ Handle'.size = View("dir")'.size
      BY <1>3, <1>6, <1>8, <2>2 DEF SizeOk
    <2>4. data'[Handle'.sect] = Handle'.buf  BY <1>4, <1>8, <2>2
    <2>5. call'.op # "write"  BY <1>2, <1>8
    <2> QED BY <1>6, <2>1, <2>3, <2>4, <2>5 DEF SizesOk
  <1> QED BY <1>7, <1>8 DEF Put

(* The entry gets the size of a handle that changed the file; handles that *)
(* others have open are late.  A size becomes smaller only if the handle   *)
(* is late itself, or truncates.                                           *)
LEMMA TouchKeeps ==
    ASSUME IInv, Touch
    PROVE  /\ MediumFits' /\ View("fat")' = View("fat") /\ SizesOk'
           /\ View("dir")'.size < View("dir").size => Handle.late \/ "TRUNC" \in Handle.flags
  <1>1. pc = "touch" /\ pc \in Closing /\ MediumFits /\ Handling /\ SizesOk
    BY DEF Touch, IInv, Closing
  <1>2. /\ hs \in [Handles -> HandleSet] /\ call.h \in Handles /\ call.op \in {"sync", "close"}
        /\ Handle \in HandleSet /\ Handle = hs[call.h] /\ Ready(Handle)
    BY <1>1, AtClosing
  <1>3. /\ SizeOk(Handle, View("dir").size) /\ data[Handle.sect] = Handle.buf
        /\ Handle.size \in 0 .. MaxOff /\ Handle.mod \in BOOLEAN
        /\ View("dir").size \in 0 .. MaxOff
    BY <1>1, <1>2, CallSize, HandleIs, EntryShown DEF Ready
  <1>4. ASSUME NEW o \in UpdateBuf("dir"), SyncFails(o)
        PROVE  /\ MediumFits' /\ View("fat")' = View("fat") /\ SizesOk'
               /\ ~(View("dir")'.size < View("dir").size)
    <2>1. Returns(call.op, "IO") /\ UNCHANGED <<data, hs>> /\ Took(o)  BY <1>4 DEF SyncFails
    <2>2. MediumFits' /\ View("fat")' = View("fat") /\ View("dir")' = View("dir")
      BY <1>1, <2>1, LookFits DEF ViewsStay
    <2>3. ~(View("dir")'.size < View("dir").size)  BY <1>3, <2>2, Constants
    <2> QED BY <1>1, <2>1, <2>2, <2>3, ReturnKeeps
  <1>5. ASSUME NEW o \in UpdateBuf("dir"),
               Writes(o, "size", IF Handle.mod THEN Handle.size ELSE o.win.buf.size),
               hs' = [g \in Handles |->
                        IF g # call.h /\ hs[g].open /\ Handle.mod
                        THEN [hs[g] EXCEPT !.late = TRUE] ELSE hs[g]],
               pc' = "flush", UNCHANGED <<data, call, res>>
        PROVE  /\ MediumFits' /\ View("fat")' = View("fat") /\ SizesOk'
               /\ View("dir")'.size < View("dir").size => Handle.late \/ "TRUNC" \in Handle.flags
    <2> DEFINE n == IF Handle.mod THEN Handle.size ELSE o.win.buf.size
    <2>1. o.win.buf.size = View("dir").size  BY <1>1, <1>5, EntryShown DEF Writes
    <2>2. n \in 0 .. MaxOff /\ Writes(o, "size", n)  BY <1>3, <1>5, <2>1
    <2>3. (Handle.mod => n = Handle.size) /\ (~Handle.mod => n = View("dir").size)  BY <2>1
    <2> HIDE DEF n
    <2>4. /\ MediumFits' /\ View("fat")' = View("fat") /\ View("dir").size' = n
      BY <1>1, <1>5, <2>2, SizeChanges
    <2>5. hs'[call.h] = Handle /\ Handle' = Handle  BY <1>2, <1>5 DEF Handle
    <2>6. n < View("dir").size => Handle.late \/ "TRUNC" \in Handle.flags
      BY <1>3, <2>2, <2>3, Constants DEF SizeOk
    <2>7. Handle.late \/ Handle.size = n  BY <1>3, <2>3 DEF SizeOk
    <2>8. SizeOk(Handle, n)
      <3>1. \A x \in 0 .. MaxOff : x >= x  BY Constants
      <3> QED BY <1>3, <2>3, <3>1 DEF SizeOk
    <2>9. ASSUME NEW g \in Handles, hs'[g].open PROVE SizeOk(hs'[g], n)
      <3>1. CASE g = call.h  BY <2>5, <2>8, <3>1
      <3>2. CASE g # call.h /\ hs[g].open /\ Handle.mod
        <4>1. hs'[g] = [hs[g] EXCEPT !.late = TRUE] /\ hs[g] \in HandleSet  BY <1>2, <1>5, <3>2
        <4>2. hs'[g].late  BY <4>1, LateIs
        <4> QED BY <4>2 DEF SizeOk
      <3>3. CASE g # call.h /\ ~(hs[g].open /\ Handle.mod)
        <4>1. hs'[g] = hs[g]  BY <1>5, <3>3
        <4>2. n = View("dir").size  BY <1>5, <2>3, <2>9, <3>3, <4>1
        <4> QED BY <1>1, <2>9, <4>1, <4>2 DEF SizesOk
      <3> QED BY <3>1, <3>2, <3>3
    <2>10. SizesOk'
      BY <1>2, <1>3, <1>5, <2>4, <2>5, <2>7, <2>9 DEF SizesOk
    <2> QED BY <2>4, <2>6, <2>10
  <1> QED BY <1>4, <1>5 DEF Touch

LEMMA FlushKeeps ==
    ASSUME IInv, Flush
    PROVE  MediumFits' /\ ViewsStay /\ SizesOk'
  <1>1. pc = "flush" /\ pc \in Closing /\ MediumFits /\ Handling /\ SizesOk
    BY DEF Flush, IInv, Closing
  <1>2. /\ hs \in [Handles -> HandleSet] /\ call.h \in Handles
        /\ Handle \in HandleSet /\ Handle = hs[call.h] /\ Ready(Handle)
    BY <1>1, AtClosing
  <1>3. /\ SizeOk(Handle, View("dir").size) /\ (Handle.late \/ Handle.size = View("dir").size)
        /\ Handle.size \in 0 .. MaxOff /\ View("dir").size \in 0 .. MaxOff
    BY <1>1, <1>2, CallSize, HandleIs, EntryShown DEF Ready
  <1>4. ASSUME NEW o \in SyncBuf, SyncFails(o) PROVE MediumFits' /\ ViewsStay /\ SizesOk'
    <2>1. Returns(call.op, "IO") /\ UNCHANGED <<data, hs>> /\ Took(o)  BY <1>4 DEF SyncFails
    <2>2. MediumFits' /\ ViewsStay /\ View("dir")' = View("dir")
      BY <1>1, <2>1, LookFits DEF ViewsStay
    <2> QED BY <1>1, <2>1, <2>2, ReturnKeeps
  <1>5. ASSUME NEW o \in SyncBuf, Took(o), Returns(call.op, "NONE"), UNCHANGED data,
               hs' = [hs EXCEPT ![call.h] =
                        IF call.op = "close" THEN NoHandle
                        ELSE [@ EXCEPT !.acc = FALSE, !.mod = FALSE]]
        PROVE  MediumFits' /\ ViewsStay /\ SizesOk'
    <2>1. MediumFits' /\ ViewsStay /\ View("dir")' = View("dir")
      BY <1>1, <1>5, LookFits DEF ViewsStay
    <2>2. pc' = "idle" /\ call'.op # "write"  BY <1>5 DEF Returns, NoCall
    <2>3. CASE call.op = "close"
      <3>1. hs' = [hs EXCEPT ![call.h] = NoHandle] /\ ~NoHandle.open  BY <1>5, <2>3, ClosedIs
      <3> QED BY <1>1, <1>2, <2>1, <2>2, <3>1, SizesMove
    <2>4. CASE call.op # "close"
      <3> DEFINE f == Marked(Handle, FALSE, FALSE)
      <3>1. hs' = [hs EXCEPT ![call.h] = f] /\ f = Marked(Handle, FALSE, FALSE)  BY <1>2, <1>5, <2>4 DEF Marked
      <3> HIDE DEF f
      <3>2. f \in HandleSet /\ Held(f, Handle) /\ f.size = Handle.size /\ f.late = Handle.late
        BY <1>2, <3>1, CleanIs
      <3>3. SizeOk(f, View("dir").size)
        BY <1>3, <3>2, Constants DEF SizeOk, Held
      <3> QED BY <1>1, <1>2, <2>1, <2>2, <3>1, <3>3, SizesMove
    <2> QED BY <2>3, <2>4
  <1> QED BY <1>4, <1>5 DEF Flush

(* Calls begin, and power is lost. *)
LEMMA BeginOpenKeeps ==
    ASSUME IInv, pc = "idle", NEW h \in Handles, NEW fl, BeginOpen(h, fl)
    PROVE  MediumFits' /\ ViewsStay /\ SizesOk'
  <1>1. MediumFits /\ Handling /\ SizesOk /\ hs \in [Handles -> HandleSet]
    BY AllRest DEF IInv
  <1>2. ~hs[h].open /\ pc' = "find" /\ UNCHANGED <<hs, disk, win, data>>
    BY DEF BeginOpen, Begins, Metadata
  <1>3. call'.op # "write"  BY DEF BeginOpen, Begins, NoCall
  <1>4. MediumFits' /\ ViewsStay /\ View("dir")' = View("dir")  BY <1>1, <1>2, MediumIsSame
  <1>5. hs' = [hs EXCEPT ![h] = hs[h]]  BY <1>1, <1>2
  <1> QED BY <1>1, <1>2, <1>3, <1>4, <1>5, SizesMove

LEMMA BeginTransferKeeps ==
    ASSUME IInv, pc = "idle", NEW h \in Handles, NEW op \in {"read", "write"}, NEW n, NEW v, BeginTransfer(op, h, n, v)
    PROVE  MediumFits' /\ ViewsStay /\ SizesOk'
  <1> DEFINE m == hs[h].mod \/ op = "write"
             f == Marked(hs[h], TRUE, m)
  <1>1. MediumFits /\ Handling /\ SizesOk /\ hs \in [Handles -> HandleSet] /\ hs[h] \in HandleSet
    BY AllRest DEF IInv
  <1>2. hs[h].open /\ pc' = "chunk" /\ UNCHANGED <<disk, win, data>>
    BY DEF BeginTransfer, Begins, Metadata
  <1>3. call'.op = op /\ call'.h = h  BY DEF BeginTransfer, Begins, NoCall
  <1>4. MediumFits' /\ ViewsStay /\ View("dir")' = View("dir")  BY <1>1, <1>2, MediumIsSame
  <1>5. hs' = [hs EXCEPT ![h] = f]  BY <1>1 DEF BeginTransfer, Marked
  <1>6. (op = "write" => m) /\ (hs[h].mod => m)  OBVIOUS
  <1>7. m \in BOOLEAN  OBVIOUS
  <1>8. f = Marked(hs[h], TRUE, m)  OBVIOUS
  <1> HIDE DEF f, m
  <1>9. f \in HandleSet /\ Held(f, hs[h]) /\ f.size = hs[h].size /\ f.late = hs[h].late
    BY <1>1, <1>8, <1>7, TouchedIs
  <1>10. hs[h].mod \in BOOLEAN /\ f.mod \in BOOLEAN  BY <1>1, <1>9 DEF HandleSet
  <1>11. m => f.mod
    <2>1. SUFFICES ASSUME m PROVE f.mod  OBVIOUS
    <2>2. f = Marked(hs[h], TRUE, TRUE)  BY <1>6, <1>8, <2>1
    <2> QED BY <1>1, <2>2, MarkedIs
  <1>12. SizeOk(f, View("dir").size) /\ (op = "write" => f.mod)
    <2>1. SizeOk(hs[h], View("dir").size)  BY <1>1, <1>2 DEF SizesOk
    <2> QED BY <1>6, <1>9, <1>10, <1>11, <2>1 DEF SizeOk, Held
  <1> QED BY <1>1, <1>2, <1>3, <1>4, <1>5, <1>9, <1>12, SizesMove

LEMMA BeginSyncKeeps ==
    ASSUME IInv, pc = "idle", NEW h \in Handles, NEW op \in {"sync", "close"}, BeginSync(op, h)
    PROVE  MediumFits' /\ ViewsStay /\ SizesOk'
  <1>1. MediumFits /\ Handling /\ SizesOk /\ hs \in [Handles -> HandleSet]
    BY AllRest DEF IInv
  <1>2. hs[h].open /\ pc' = "put" /\ UNCHANGED <<hs, disk, win, data>>
    BY DEF BeginSync, Begins, Metadata
  <1>3. call'.op # "write"  BY DEF BeginSync, Begins, NoCall
  <1>4. MediumFits' /\ ViewsStay /\ View("dir")' = View("dir")  BY <1>1, <1>2, MediumIsSame
  <1>5. hs' = [hs EXCEPT ![h] = hs[h]] /\ SizeOk(hs[h], View("dir").size)  BY <1>1, <1>2 DEF SizesOk
  <1> QED BY <1>1, <1>2, <1>3, <1>4, <1>5, SizesMove

LEMMA BeginSeekKeeps ==
    ASSUME IInv, NEW h \in Handles, NEW off, NEW w, BeginSeek(h, off, w)
    PROVE  MediumFits' /\ ViewsStay /\ SizesOk'
  <1> DEFINE c == [NoCall EXCEPT !.op = "seek", !.h = h]
             o == Base(hs[h], w) + off
  <1>1. MediumFits /\ Handling /\ SizesOk /\ hs \in [Handles -> HandleSet] /\ hs[h] \in HandleSet
    BY AllRest DEF IInv, BeginSeek
  <1>2. hs[h].open /\ UNCHANGED <<disk, win, data>> /\ SeekBegins(c, hs[h], o)
    BY DEF BeginSeek, Metadata
  <1>3. MediumFits' /\ ViewsStay /\ View("dir")' = View("dir")  BY <1>1, <1>2, MediumIsSame
  <1>4. c \in CallSet /\ c.op = "seek" /\ c.h = h
    <2>1. "seek" \in Ops  BY DEF Ops
    <2>2. c = Asks(NoCall, "seek", h)  BY DEF Asks
    <2> HIDE DEF c
    <2> QED BY <2>1, <2>2, NoCallIs, AsksIs
  <1>5. SizeOk(hs[h], View("dir").size)  BY <1>1, <1>2 DEF SizesOk
  <1> HIDE DEF c, o
  <1>6. SizesOk'  BY <1>1, <1>2, <1>3, <1>4, <1>5, SeekBeginsSizes
  <1> QED BY <1>3, <1>6

LEMMA CrashKeeps ==
    ASSUME IInv, Crash
    PROVE  MediumFits' /\ SizesOk'
  <1>1. MediumFits  BY DEF IInv
  <1>2. /\ win' = [sect |-> "none", buf |-> NoVal, dirty |-> FALSE] /\ disk' = disk /\ data' = data
        /\ hs' = [h \in Handles |-> NoHandle] /\ pc' = "idle" /\ call' = NoCall
    BY DEF Crash, NoVal
  <1>3. NoVal \in AllVals /\ "none" \notin Sects /\ "fat" \in Sects /\ "dir" \in Sects  BY DEF AllVals, Sects
  <1>4. WindowFits(Sects, "none", AllVals)' /\ View("fat")' = disk["fat"] /\ View("dir")' = disk["dir"]
    BY <1>1, <1>2, <1>3, LostPowerFits DEF MediumFits
  <1>5. MediumFits'  BY <1>1, <1>2, <1>4 DEF MediumFits
  <1>6. SizesOk'  BY <1>2, ClosedIs, NoCallIs DEF SizesOk
  <1> QED BY <1>5, <1>6
-----------------------------------------------------------------------------
LEMMA InitFits == Init => IInv
  <1> SUFFICES ASSUME Init PROVE IInv  OBVIOUS
  <1>1. PICK n \in 0 .. ClustSize, d \in Fresh : Closed(n, d)  BY DEF Init
  <1>2. /\ disk = [fat |-> [len |-> 1], dir |-> [size |-> n]] /\ data = d
        /\ win = [sect |-> "none", buf |-> NoVal, dirty |-> FALSE]
        /\ hs = [h \in Handles |-> NoHandle]
        /\ pc = "idle" /\ call = NoCall /\ res = NoRes
        /\ faults = 0 /\ lost = {} /\ spoilt = FALSE
    BY <1>1 DEF Closed, NoVal
  <1>3. MediumFits
    <2>1. n \in 0 .. MaxOff /\ 1 \in 1 .. MaxClusts  BY Constants
    <2>2. disk["fat"] \in FatVals /\ disk["dir"] \in DirVals  BY <1>2, <2>1 DEF FatVals, DirVals
    <2>3. disk \in [Sects -> AllVals]  BY <1>2, <2>2 DEF Sects, AllVals
    <2>4. WindowFits(Sects, "none", AllVals)  BY <1>2, <2>3 DEF WindowFits, AllVals, Sects
    <2>5. View("fat") = disk["fat"] /\ View("dir") = disk["dir"]  BY <1>2 DEF View
    <2>6. data \in [Sectors -> Buffers]  BY <1>2, FileAssumption
    <2> QED BY <2>2, <2>4, <2>5, <2>6 DEF MediumFits
  <1>4. Handling
    <2>1. HandlesFit  BY <1>2, ClosedIs DEF HandlesFit, Rests, Shut
    <2>2. CallOk(pc, call, Handle) /\ Track(spoilt, pc, call, Handle)
      BY <1>2, NoCallIs DEF CallOk, Track, TrackOk, Pcs, Seeking, Closing
    <2>3. spoilt \in BOOLEAN  BY <1>2, Zenon
    <2>4. res.err \in Errors /\ lost \subseteq Sectors /\ faults \in 0 .. MaxFaults
      BY <1>2, Constants DEF NoRes, Errors
    <2> QED BY <2>1, <2>2, <2>3, <2>4 DEF Handling, CallFits
  <1>5. SizesOk  BY <1>2, ClosedIs, NoCallIs DEF SizesOk
  <1> QED BY <1>3, <1>4, <1>5 DEF IInv

LEMMA LostFits ==
    ASSUME IInv, lost' = IF \E h \in Handles : hs'[h].open THEN lost \cup SharedNow' ELSE {}
    PROVE  lost' \subseteq Sectors
  <1>1. lost \subseteq Sectors  BY DEF IInv, Handling, CallFits
  <1>2. SharedNow' \subseteq Sectors  BY DEF SharedNow, Has
  <1> QED BY <1>1, <1>2

(* Steps of a running call, and the beginnings of calls.                   *)
LEMMA StepKeeps ==
    ASSUME IInv, Step, UNCHANGED spoilt, lost' \subseteq Sectors
    PROVE  IInv'
  <1>1. MediumFits /\ Handling  BY DEF IInv
  <1>2. CASE Find         BY <1>1, <1>2, FindFits, FindKeeps DEF IInv
  <1>3. CASE Follow       BY <1>1, <1>3, FollowFits, FollowKeeps DEF IInv
  <1>4. CASE Stretch      BY <1>1, <1>4, StretchFits, StretchKeeps DEF IInv
  <1>5. CASE StretchSync  BY <1>1, <1>5, StretchSyncFits, StretchSyncKeeps DEF IInv
  <1>6. CASE Arrive       BY <1>1, <1>6, ArriveFits, ArriveKeeps DEF IInv
  <1>7. CASE Back         BY <1>1, <1>7, BackFits, BackKeeps DEF IInv
  <1>8. CASE Fill         BY <1>1, <1>8, FillFits, FillKeeps DEF IInv
  <1>9. CASE ReadChunk    BY <1>1, <1>9, ReadChunkFits, ReadChunkKeeps DEF IInv
  <1>10. CASE WriteChunk  BY <1>1, <1>10, WriteChunkFits, WriteChunkKeeps DEF IInv
  <1>11. CASE Put         BY <1>1, <1>11, PutFits, PutKeeps DEF IInv
  <1>12. CASE Touch       BY <1>1, <1>12, TouchFits, TouchKeeps DEF IInv
  <1>13. CASE Flush       BY <1>1, <1>13, FlushFits, FlushKeeps DEF IInv
  <1> QED BY <1>2, <1>3, <1>4, <1>5, <1>6, <1>7, <1>8, <1>9, <1>10, <1>11, <1>12, <1>13 DEF Step

LEMMA BeginKeeps ==
    ASSUME IInv, Begin, lost' \subseteq Sectors
    PROVE  IInv' /\ ViewsStay
  <1>1. Handling  BY DEF IInv
  <1>2. PICK h \in Handles :
          \/ \E flags \in Flags : BeginOpen(h, flags)
          \/ \E op \in Uses \cap {"read", "write"}, n \in 1 .. MaxLen :
               \E v \in IF op = "write" THEN Vals ELSE {0} : BeginTransfer(op, h, n, v)
          \/ \E off \in Seeks, w \in {"START", "CURR", "END"} :
               "seek" \in Uses /\ BeginSeek(h, off, w)
          \/ \E op \in Uses \cap {"sync", "close"} : BeginSync(op, h)
    BY DEF Begin
  <1>3. ASSUME NEW fl \in Flags, BeginOpen(h, fl) PROVE IInv' /\ ViewsStay
    <2>1. pc = "idle"  BY <1>3 DEF BeginOpen, Begins
    <2> QED BY <1>1, <1>3, <2>1, BeginOpenFits, BeginOpenKeeps DEF IInv
  <1>4. ASSUME NEW op \in Uses \cap {"read", "write"}, NEW n \in 1 .. MaxLen,
               NEW v \in IF op = "write" THEN Vals ELSE {0}, BeginTransfer(op, h, n, v)
        PROVE  IInv' /\ ViewsStay
    <2>1. pc = "idle" /\ op \in {"read", "write"}  BY <1>4 DEF BeginTransfer, Begins
    <2>2. Handling'  BY <1>1, <1>4, <2>1, BeginTransferFits
    <2>3. MediumFits' /\ ViewsStay /\ SizesOk'  BY <1>4, <2>1, BeginTransferKeeps
    <2> QED BY <2>2, <2>3 DEF IInv
  <1>5. ASSUME NEW off \in Seeks, NEW w \in {"START", "CURR", "END"}, BeginSeek(h, off, w)
        PROVE  IInv' /\ ViewsStay
    BY <1>1, <1>5, BeginSeekFits, BeginSeekKeeps DEF IInv
  <1>6. ASSUME NEW op \in Uses \cap {"sync", "close"}, BeginSync(op, h)
        PROVE  IInv' /\ ViewsStay
    <2>1. pc = "idle" /\ op \in {"sync", "close"}  BY <1>6 DEF BeginSync, Begins
    <2>2. Handling'  BY <1>1, <1>6, <2>1, BeginSyncFits
    <2>3. MediumFits' /\ ViewsStay /\ SizesOk'  BY <1>6, <2>1, BeginSyncKeeps
    <2> QED BY <2>2, <2>3 DEF IInv
  <1> QED BY <1>2, <1>3, <1>4, <1>5, <1>6

LEMMA NextFits == IInv /\ [Next]_vars => IInv'
  <1> SUFFICES ASSUME IInv, [Next]_vars PROVE IInv'  OBVIOUS
  <1>1. CASE UNCHANGED vars
    BY <1>1 DEF vars, IInv, MediumFits, WindowFits, View, Handling, HandlesFit, Running, CallFits, Handle, SizesOk
  <1>2. CASE Next
    <2>1. lost' \subseteq Sectors  BY <1>2, LostFits DEF Next
    <2>2. CASE Begin  BY <2>1, <2>2, BeginKeeps
    <2>3. CASE Step /\ UNCHANGED spoilt  BY <2>1, <2>3, StepKeeps
    <2>4. CASE Crash  BY <2>1, <2>4, CrashFits, CrashKeeps DEF IInv
    <2> QED BY <1>2, <2>2, <2>3, <2>4 DEF Next
  <1> QED BY <1>1, <1>2

LEMMA Invariance == Spec => []IInv
  BY InitFits, NextFits, PTL DEF Spec

LEMMA FitsIsSound == IInv => HandlesSound
  <1> SUFFICES ASSUME IInv PROVE HandlesSound  OBVIOUS
  <1>1. MediumFits /\ HandlesFit /\ CallFits /\ CallOk(pc, call, Handle)  BY DEF IInv, Handling, CallFits
  <1>2. /\ disk.fat.len \in 1 .. MaxClusts /\ disk.dir.size \in 0 .. MaxOff
        /\ win.sect \in {"none", "fat", "dir"} /\ win.dirty \in BOOLEAN
        /\ data \in [Sectors -> Buffers]
    <2>1. disk.fat.len \in 1 .. MaxClusts /\ disk.dir.size \in 0 .. MaxOff  BY <1>1, EntryShown
    <2> QED BY <1>1, <2>1 DEF MediumFits, WindowFits, Sects
  <1>3. ASSUME NEW h \in Handles
        PROVE  /\ hs[h].flags \subseteq {"READ", "WRITE", "APPEND", "TRUNC"}
               /\ {hs[h].size, hs[h].offset} \subseteq 0 .. MaxOff
               /\ hs[h].clust \in 1 .. MaxClusts
               /\ {hs[h].sect, hs[h].at} \subseteq Sectors \cup {NoSect}
               /\ hs[h].buf \in Buffers
               /\ {hs[h].open, hs[h].dirty, hs[h].acc, hs[h].mod} \subseteq BOOLEAN
    <2>1. hs[h] \in HandleSet  BY <1>1 DEF HandlesFit
    <2> QED BY <2>1, HandleIs DEF AllFlags, Spots
  <1>4. /\ call.len \in 0 .. MaxLen /\ call.left \in 0 .. (MaxOff \div ClustSize)
        /\ call.ssect \in Sectors \cup {NoSect}
    <2>1. call \in CallSet  BY <1>1 DEF CallOk
    <2> QED BY <2>1, CallIs DEF Clust, Spots
  <1>5. res.err \in {"NONE", "IO", "FULL", "EOF"} /\ lost \subseteq Sectors /\ spoilt \in BOOLEAN
    BY <1>1 DEF CallFits, Errors
  <1>6. TypeOK  BY <1>2, <1>3, <1>4, <1>5 DEF TypeOK
  <1>7. PositionIsRight
    <2> SUFFICES ASSUME NEW h \in Handles, hs[h].open, call.h # h, ~hs[h].hurt PROVE Sane(hs[h])
      BY DEF PositionIsRight
    <2>1. Rests(hs[h])  BY <1>1 DEF HandlesFit, Running
    <2> QED BY <2>1, ClosedIs DEF Rests, Shut
  <1> QED BY <1>6, <1>7 DEF HandlesSound

(* The handles hold what fat_file_* can store in them, and one whose calls *)
(* all succeeded stands where its offset says, with that sector in its     *)
(* buffer, whatever clusters a seek went through, and also after a read or *)
(* a write that found the volume full.                                     *)
THEOREM FileIsSound == Spec => []HandlesSound
  BY Invariance, FitsIsSound, PTL
-----------------------------------------------------------------------------
(* No handle is closed, or the call of it has said so. *)
KeepsOpen == (\A h \in Handles : hs[h].open => hs'[h].open) \/ res'.op = "open" \/ res'.err # "NONE"

LEMMA StaysOpen ==
    ASSUME NEW h \in Handles, NEW f, hs \in [Handles -> HandleSet], hs' = [hs EXCEPT ![h] = f],
           hs[h].open => f.open
    PROVE  KeepsOpen
  BY DEF KeepsOpen

LEMMA SeekEndsOpen ==
    ASSUME NEW c, c.h \in Handles, NEW f \in HandleSet, NEW e, SeekEnds(c, f, e),
           hs \in [Handles -> HandleSet], hs[c.h].open => f.open
    PROVE  KeepsOpen
  <1> DEFINE b == f.hurt \/ e = "IO" \/ (e = "FULL" /\ c.op \in {"open", "seek"})
             g == [f EXCEPT !.hurt = b]
  <1>1. /\ hs' = [hs EXCEPT ![c.h] = IF c.op = "open" /\ e # "NONE" THEN NoHandle ELSE g]
        /\ AfterSeek(c.op, e) => Returns(c.op, e)
    BY DEF SeekEnds
  <1>2. g.open = f.open  BY DEF HandleSet
  <1> HIDE DEF g
  <1>3. CASE c.op = "open" /\ e # "NONE"
    <2>1. res'.op = "open"  BY <1>1, <1>3 DEF AfterSeek, Returns
    <2> QED BY <2>1 DEF KeepsOpen
  <1>4. CASE ~(c.op = "open" /\ e # "NONE")
    <2>1. hs' = [hs EXCEPT ![c.h] = g]  BY <1>1, <1>4
    <2> QED BY <1>2, <2>1, StaysOpen
  <1> QED BY <1>3, <1>4

LEMMA SeekBeginsOpen ==
    ASSUME NEW c, c.h \in Handles, NEW f \in HandleSet, NEW off, SeekBegins(c, f, off),
           hs \in [Handles -> HandleSet], hs[c.h].open => f.open
    PROVE  KeepsOpen
  <1>1. CASE off < 0 \/ off > MaxOff
    <2>1. SeekEnds(c, f, "EOF")  BY <1>1 DEF SeekBegins
    <2> QED BY <2>1, SeekEndsOpen
  <1>2. CASE ~(off < 0 \/ off > MaxOff)
    <2> DEFINE g == IF off \div ClustSize < f.offset \div ClustSize THEN Backtrack(f) ELSE f
    <2>1. hs' = [hs EXCEPT ![c.h] = g]  BY <1>2 DEF SeekBegins
    <2>2. g.open = f.open  BY DEF HandleSet, Backtrack
    <2> HIDE DEF g
    <2> QED BY <2>1, <2>2, StaysOpen
  <1> QED BY <1>1, <1>2

(* Only a flush closes a handle without an error... *)
LEMMA StepsStayOpen ==
    ASSUME IInv, Step, ~Flush
    PROVE  KeepsOpen
  <1>1. pc # "idle" /\ Handling
    BY DEF Step, IInv, Find, Follow, Stretch, StretchSync, Arrive, Back, Fill, ReadChunk, WriteChunk, Put, Touch
  <1>2. /\ hs \in [Handles -> HandleSet] /\ call.h \in Handles /\ call \in CallSet
        /\ Handle \in HandleSet /\ Handle = hs[call.h] /\ CallOk(pc, call, Handle)
    BY <1>1, RunningCall
  <1>3. ASSUME NEW e, SeekEnds(call, Handle, e) PROVE KeepsOpen
    BY <1>2, <1>3, SeekEndsOpen
  <1>4. ASSUME NEW o, Fails(o) PROVE KeepsOpen  BY <1>3, <1>4 DEF Fails
  <1>5. ASSUME UNCHANGED hs PROVE KeepsOpen  BY <1>5 DEF KeepsOpen
  <1>6. ASSUME hs' = [hs EXCEPT ![call.h].clust = @ + 1] PROVE KeepsOpen
    <2> DEFINE f == [Handle EXCEPT !.clust = @ + 1]
    <2>1. hs' = [hs EXCEPT ![call.h] = f]  BY <1>2, <1>6
    <2>2. f.open = Handle.open  BY <1>2 DEF HandleSet
    <2> HIDE DEF f
    <2> QED BY <1>2, <2>1, <2>2, StaysOpen
  <1>7. CASE Find
    <2>1. PICK o : \/ Fails(o)
                   \/ LET f == OpenSize([NoHandle EXCEPT !.open = TRUE, !.flags = call.flags], o.win.buf.size)
                      IN  o \in UpdateBuf("dir") /\ o.ok
                          /\ SeekBegins(call, f, IF "APPEND" \in f.flags THEN f.size ELSE 0)
      BY <1>7 DEF Find
    <2>2. CASE Fails(o)  BY <1>4, <2>2
    <2>3. CASE ~Fails(o)
      <3> DEFINE f == OpenSize([NoHandle EXCEPT !.open = TRUE, !.flags = call.flags], o.win.buf.size)
                 off == IF "APPEND" \in f.flags THEN f.size ELSE 0
      <3>1. SeekBegins(call, f, off) /\ o \in UpdateBuf("dir") /\ o.ok  BY <2>1, <2>3
      <3>2. o.win.buf.size \in 0 .. MaxOff  BY <3>1, EntryShown DEF IInv
      <3>3. call.flags \in SUBSET AllFlags  BY <1>2, CallIs
      <3>4. f = OpenSize(Blank(call.flags), o.win.buf.size)  BY DEF Blank
      <3> HIDE DEF f, off
      <3>5. f \in HandleSet /\ f.open  BY <3>2, <3>3, <3>4, OpenedIs
      <3> QED BY <1>2, <3>1, <3>5, SeekBeginsOpen
    <2> QED BY <2>2, <2>3
  <1>8. CASE Follow  BY <1>4, <1>5, <1>6, <1>8 DEF Follow
  <1>9. CASE Stretch  BY <1>3, <1>4, <1>5, <1>9 DEF Stretch
  <1>10. CASE StretchSync  BY <1>4, <1>6, <1>10 DEF StretchSync
  <1>11. CASE Arrive
    <2> DEFINE f == Moved(Handle, SectAt(Handle.clust, call.off), call.off)
    <2>1. SeekEnds(call, f, "NONE") \/ hs' = [hs EXCEPT ![call.h] = f]
      BY <1>11 DEF Arrive, Moved
    <2>2. f \in HandleSet /\ f.open = Handle.open
      <3>1. call.off \in 0 .. MaxOff /\ Handle.clust \in 1 .. MaxClusts  BY <1>2, CallIs, HandleIs
      <3>2. SectAt(Handle.clust, call.off) \in Spots  BY <3>1, SectorOf, Constants DEF Spots
      <3>3. f = Moved(Handle, SectAt(Handle.clust, call.off), call.off)  OBVIOUS
      <3> HIDE DEF f
      <3> QED BY <1>2, <3>1, <3>2, <3>3, PlaceIs DEF Alike
    <2> HIDE DEF f
    <2> QED BY <1>2, <2>1, <2>2, SeekEndsOpen, StaysOpen
  <1>12. CASE Back
    <2> DEFINE f == [Handle EXCEPT !.dirty = FALSE]
    <2>1. SeekEnds(call, Handle, "IO") \/ hs' = [hs EXCEPT ![call.h] = f]
      BY <1>2, <1>12 DEF Back, PutFails
    <2>2. f.open = Handle.open  BY <1>2 DEF HandleSet
    <2> HIDE DEF f
    <2> QED BY <1>2, <1>3, <2>1, <2>2, StaysOpen
  <1>13. CASE Fill
    <2> DEFINE f == Loaded(Handle, data[Handle.sect], Handle.sect)
    <2>1. SeekEnds(call, Handle, "IO") \/ SeekEnds(call, f, "NONE")  BY <1>13 DEF Fill, Loaded
    <2>2. f \in HandleSet /\ f.open = Handle.open
      <3>1. pc = "fill" /\ data \in [Sectors -> Buffers]  BY <1>13 DEF Fill, IInv, MediumFits
      <3>2. Handle.sect \in Sectors  BY <1>2, <3>1 DEF CallOk
      <3>3. data[Handle.sect] \in Buffers /\ Handle.sect \in Spots  BY <3>1, <3>2 DEF Spots
      <3>4. f = Loaded(Handle, data[Handle.sect], Handle.sect)  OBVIOUS
      <3> HIDE DEF f
      <3> QED BY <1>2, <3>3, <3>4, LoadedIs
    <2> HIDE DEF f
    <2> QED BY <1>2, <1>3, <2>1, <2>2, SeekEndsOpen
  <1>14. CASE ReadChunk
    <2> DEFINE d == [call EXCEPT !.len = @ - Cnt]
    <2>1. SeekBegins(d, Handle, Handle.offset + Cnt) \/ UNCHANGED hs  BY <1>14 DEF ReadChunk
    <2>2. d.h = call.h  BY <1>2 DEF CallSet
    <2> HIDE DEF d
    <2> QED BY <1>2, <1>5, <2>1, <2>2, SeekBeginsOpen
  <1>15. CASE WriteChunk
    <2> DEFINE n == Min2(call.len, SectSize - Idx)
               d == [call EXCEPT !.len = @ - n]
               f == Written(Handle, PutBytes(Handle, n))
               g == [Handle EXCEPT !.size = SizeAfter(Handle)]
    <2>1. SeekBegins(d, f, Handle.offset + n) \/ hs' = [hs EXCEPT ![call.h] = g]
      BY <1>2, <1>15 DEF WriteChunk, Written
    <2>2. d.h = call.h  BY <1>2 DEF CallSet
    <2>3. f \in HandleSet /\ f.open = Handle.open
      <3>1. pc = "chunk" /\ call.op = "write"  BY <1>15 DEF WriteChunk
      <3>2. call.val \in Vals  BY <1>2, <3>1 DEF CallOk
      <3>3. PutBytes(Handle, n) \in Buffers /\ f = Written(Handle, PutBytes(Handle, n))  BY <1>2, <3>2, PutBytesIs
      <3> HIDE DEF f, n
      <3>4. Handle \in HandleSet  BY <1>2
      <3> QED BY <3>3, <3>4, WrittenIs
    <2>4. g.open = Handle.open  BY <1>2 DEF HandleSet
    <2> HIDE DEF d, f, g, n
    <2> QED BY <1>2, <2>1, <2>2, <2>3, <2>4, SeekBeginsOpen, StaysOpen
  <1>16. CASE Put  BY <1>5, <1>16 DEF Put
  <1>17. CASE Touch
    <2>1. CASE UNCHANGED hs  BY <1>5, <2>1
    <2>2. CASE hs' = [g \in Handles |->
                        IF g # call.h /\ hs[g].open /\ Handle.mod
                        THEN [hs[g] EXCEPT !.late = TRUE] ELSE hs[g]]
      <3>1. \A g \in Handles : hs'[g].open = hs[g].open  BY <1>2, <2>2 DEF HandleSet
      <3> QED BY <3>1 DEF KeepsOpen
    <2> QED BY <1>17, <2>1, <2>2 DEF Touch, SyncFails
  <1> QED BY <1>7, <1>8, <1>9, <1>10, <1>11, <1>12, <1>13, <1>14, <1>15, <1>16, <1>17 DEF Step

LEMMA BeginsStayOpen ==
    ASSUME IInv, Begin
    PROVE  KeepsOpen
  <1>1. hs \in [Handles -> HandleSet]  BY DEF IInv, Handling, HandlesFit
  <1>2. ASSUME UNCHANGED hs PROVE KeepsOpen  BY <1>2 DEF KeepsOpen
  <1>3. ASSUME NEW h \in Handles, NEW op, NEW n, NEW v, BeginTransfer(op, h, n, v) PROVE KeepsOpen
    <2> DEFINE f == [hs[h] EXCEPT !.acc = TRUE, !.mod = @ \/ op = "write"]
    <2>1. hs' = [hs EXCEPT ![h] = f]  BY <1>1, <1>3 DEF BeginTransfer
    <2>2. f.open = hs[h].open  BY <1>1 DEF HandleSet
    <2> HIDE DEF f
    <2> QED BY <1>1, <2>1, <2>2, StaysOpen
  <1>4. ASSUME NEW h \in Handles, NEW off, NEW w, BeginSeek(h, off, w) PROVE KeepsOpen
    <2> DEFINE c == [NoCall EXCEPT !.op = "seek", !.h = h]
    <2>1. SeekBegins(c, hs[h], Base(hs[h], w) + off)  BY <1>4 DEF BeginSeek
    <2>2. c.h = h  BY DEF NoCall
    <2> HIDE DEF c
    <2> QED BY <1>1, <2>1, <2>2, SeekBeginsOpen
  <1> QED BY <1>2, <1>3, <1>4 DEF Begin, BeginOpen, BeginSync

(* ... and leaves what the close of it promises. *)
LEMMA CloseStep ==
    ASSUME IInv, [Next]_vars, NEW h \in Handles,
           hs[h].open, ~hs'[h].open, res'.op = "close", res'.err = "NONE"
    PROVE  /\ data'[hs[h].sect] = hs[h].buf
           /\ hs[h].late \/ disk'.dir.size = hs[h].size
           /\ ~win'.dirty
  <1>1. ~KeepsOpen  BY DEF KeepsOpen
  <1>2. Flush
    <2>1. ~UNCHANGED vars  BY DEF vars
    <2>2. ~Crash  BY DEF Crash
    <2>3. ~Begin  BY <1>1, BeginsStayOpen
    <2> QED BY <1>1, <2>1, <2>2, <2>3, StepsStayOpen DEF Next
  <1>3. pc = "flush" /\ pc \in Closing /\ MediumFits /\ Handling /\ SizesOk  BY <1>2 DEF IInv, Flush, Closing
  <1>4. /\ hs \in [Handles -> HandleSet] /\ call.h \in Handles /\ Handle = hs[call.h]
    BY <1>3, AtClosing
  <1>5. PICK o \in SyncBuf :
           \/ SyncFails(o)
           \/ /\ o.ok /\ Took(o) /\ UNCHANGED data
              /\ hs' = [hs EXCEPT ![call.h] =
                        IF call.op = "close" THEN NoHandle
                        ELSE [@ EXCEPT !.acc = FALSE, !.mod = FALSE]]
    BY <1>2 DEF Flush
  <1>6. ~SyncFails(o)  BY DEF SyncFails
  <1>7. h = call.h  BY <1>4, <1>5, <1>6
  <1>8. ~win'.dirty /\ disk'["dir"] = View("dir") /\ UNCHANGED data
    BY <1>3, <1>5, <1>6, LookFits
  <1>9. data[Handle.sect] = Handle.buf /\ (Handle.late \/ Handle.size = View("dir").size)
    BY <1>3 DEF SizesOk
  <1> QED BY <1>4, <1>7, <1>8, <1>9

(* When fat_file_close has succeeded, the medium has the bytes that were   *)
(* in the handle's buffer and, if no other handle rewrote the entry since, *)
(* the size the handle had; nothing waits in the window.                   *)
THEOREM ClosedIsDurable == Spec => CloseIsDurable
  <1>1. IInv /\ [Next]_vars =>
          [\A h \in Handles :
             (hs[h].open /\ ~hs'[h].open /\ res'.op = "close" /\ res'.err = "NONE")
             => /\ data'[hs[h].sect] = hs[h].buf
                /\ hs[h].late \/ disk'.dir.size = hs[h].size
                /\ ~win'.dirty]_vars
    BY CloseStep
  <1> QED BY <1>1, Invariance, PTL DEF Spec, CloseIsDurable

(* The size in the entry never shrinks, unless by a handle opened to       *)
(* truncate, by one that was open while another grew the file, or by a     *)
(* loss of power.                                                          *)
THEOREM SizeOnlyGrows == Spec => NoShrink
  <1>1. IInv /\ [Next]_vars =>
          [View("dir").size' < View("dir").size
           => res'.op = "mount" \/ Handle.late \/ "TRUNC" \in Handle.flags]_vars
    <2> SUFFICES ASSUME IInv, Next, View("dir").size' < View("dir").size
                 PROVE  res'.op = "mount" \/ Handle.late \/ "TRUNC" \in Handle.flags
      OBVIOUS
    <2>1. MediumFits /\ View("dir").size \in Nat  BY EntryShown, Constants DEF IInv
    <2>2. View("dir")' # View("dir")  BY <2>1
    <2>3. ~ViewsStay  BY <2>2 DEF ViewsStay
    <2>4. lost' \subseteq Sectors  BY LostFits DEF Next
    <2>5. ~Begin  BY <2>3, <2>4, BeginKeeps
    <2>6. CASE Crash  BY <2>6 DEF Crash
    <2>7. CASE Step
      <3>1. Touch
        BY <2>2, <2>3, <2>7, FindKeeps, FollowKeeps, StretchKeeps, StretchSyncKeeps, ArriveKeeps, BackKeeps,
           FillKeeps, ReadChunkKeeps, WriteChunkKeeps, PutKeeps, FlushKeeps DEF Step
      <3>2. View("dir")'.size < View("dir").size => Handle.late \/ "TRUNC" \in Handle.flags
        BY <3>1, TouchKeeps
      <3> QED BY <3>2
    <2> QED BY <2>5, <2>6, <2>7 DEF Next
  <1> QED BY <1>1, Invariance, PTL DEF Spec, NoShrink
-----------------------------------------------------------------------------
(* FatFile implements ByteFile.  What a step does is first said of the     *)
(* handles' buffers, then of the sectors they show, then of the bytes.     *)

(* A handle that callers can rely on, when the handles are H and r is the  *)
(* one that a call is running for; and the bytes of sector s that it, or   *)
(* else the medium D, shows.                                               *)
Live(H, r, h) == H[h].open /\ (~Astray(H[h]) \/ r = h)
Holders(H, r, s) == {h \in Handles : H[h].open /\ H[h].at = s /\ (~Astray(H[h]) \/ r = h)}
ShownBy(H, D, r, s) ==
    IF Holders(H, r, s) = {} THEN D[s] ELSE H[CHOOSE h \in Holders(H, r, s) : TRUE].buf

(* A clean buffer is the medium's, and of two of one sector none is dirty, *)
(* unless the sector is lost.                                              *)
Level(f, D, L) == f.open /\ f.at \in Sectors \ L => f.buf = D[f.at]
Apart(g, f, L) == g.open /\ f.open /\ g.at = f.at /\ g.at \in Sectors \ L => ~g.dirty
Coherent(H, D, L) ==
    /\ \A h \in Handles : H[h].dirty \/ Level(H[h], D, L)
    /\ \A g, h \in Handles : g # h => Apart(H[g], H[h], L)

LEMMA HolderIs ==
    ASSUME NEW H, NEW r, NEW s, NEW h
    PROVE  h \in Holders(H, r, s) <=> h \in Handles /\ Live(H, r, h) /\ H[h].at = s
  BY DEF Holders, Live

LEMMA ShownIs ==
    ASSUME NEW H, NEW D, NEW L, NEW r, NEW s \in Sectors, s \notin L, Coherent(H, D, L)
    PROVE  /\ \A h \in Handles : Live(H, r, h) /\ H[h].at = s => ShownBy(H, D, r, s) = H[h].buf
           /\ \/ \E h \in Handles : Live(H, r, h) /\ H[h].at = s
              \/ ShownBy(H, D, r, s) = D[s]
  <1> DEFINE hold == Holders(H, r, s)
             k == CHOOSE h \in hold : TRUE
  <1>1. CASE hold = {}
    <2>1. ShownBy(H, D, r, s) = D[s]  BY <1>1 DEF ShownBy
    <2>2. \A h \in Handles : ~(Live(H, r, h) /\ H[h].at = s)  BY <1>1, HolderIs
    <2> QED BY <2>1, <2>2
  <1>2. CASE hold # {}
    <2>1. k \in hold  BY <1>2
    <2>2. ShownBy(H, D, r, s) = H[k].buf  BY <1>2 DEF ShownBy
    <2> HIDE DEF k
    <2>3. k \in Handles /\ Live(H, r, k) /\ H[k].at = s  BY <2>1, HolderIs
    <2>4. ASSUME NEW h \in Handles, Live(H, r, h), H[h].at = s, h # k PROVE H[h].buf = H[k].buf
      <3>1. H[h].open /\ H[k].open  BY <2>3, <2>4 DEF Live
      <3>2. ~H[h].dirty /\ ~H[k].dirty  BY <2>3, <2>4, <3>1 DEF Coherent, Apart
      <3>3. H[h].buf = D[s] /\ H[k].buf = D[s]  BY <2>3, <2>4, <3>1, <3>2 DEF Coherent, Level
      <3> QED BY <3>3
    <2> QED BY <2>2, <2>3, <2>4
  <1> QED BY <1>1, <1>2

(* The handles of a step that is about handle h.                           *)
Twin(g, f) == /\ g.open = f.open /\ g.at = f.at /\ g.buf = f.buf /\ g.dirty = f.dirty
              /\ g.offset = f.offset /\ Astray(g) = Astray(f)
Twins(h) == \A k \in Handles \ {h} : Twin(hs'[k], hs[k]) /\ call.h # k /\ call'.h # k

LiveNow(h)  == Live(hs, call.h, h)
LiveThen(h) == Live(hs', call'.h, h)
Shows(s)    == ShownBy(hs, data, call.h, s)
ShowsThen(s) == ShownBy(hs', data', call'.h, s)
Whole       == Coherent(hs, data, lost)
WholeThen   == Coherent(hs', data', lost')
Kept        == Sectors \ (lost \cup lost')

LEMMA TwinsLive ==
    ASSUME NEW h \in Handles, Twins(h), NEW k \in Handles, k # h
    PROVE  /\ LiveThen(k) = LiveNow(k) /\ hs'[k].at = hs[k].at /\ hs'[k].buf = hs[k].buf
           /\ hs'[k].open = hs[k].open /\ hs'[k].dirty = hs[k].dirty /\ hs'[k].offset = hs[k].offset
  <1>1. Twin(hs'[k], hs[k]) /\ call.h # k /\ call'.h # k  BY DEF Twins
  <1> QED BY <1>1 DEF Twin, LiveThen, LiveNow, Live

(* h has the sector as the medium has it, or not at all, before and after. *)
LEMMA LevelShows ==
    ASSUME NEW h \in Handles, Twins(h), Whole, WholeThen, NEW s \in Kept,
           data'[s] = data[s],
           hs[h].open /\ hs[h].at = s => hs[h].buf = data[s],
           hs'[h].open /\ hs'[h].at = s => hs'[h].buf = data[s]
    PROVE  ShowsThen(s) = Shows(s)
  <1>1. s \in Sectors /\ s \notin lost /\ s \notin lost'  BY DEF Kept
  <1>2. /\ \A k \in Handles : LiveNow(k) /\ hs[k].at = s => Shows(s) = hs[k].buf
        /\ (\E k \in Handles : LiveNow(k) /\ hs[k].at = s) \/ Shows(s) = data[s]
    BY <1>1, ShownIs DEF Whole, Shows, LiveNow
  <1>3. /\ \A k \in Handles : LiveThen(k) /\ hs'[k].at = s => ShowsThen(s) = hs'[k].buf
        /\ (\E k \in Handles : LiveThen(k) /\ hs'[k].at = s) \/ ShowsThen(s) = data'[s]
    BY <1>1, ShownIs DEF WholeThen, ShowsThen, LiveThen
  <1>4. (LiveNow(h) => hs[h].open) /\ (LiveThen(h) => hs'[h].open)  BY DEF LiveNow, LiveThen, Live
  <1>5. CASE \E k \in Handles \ {h} : LiveNow(k) /\ hs[k].at = s
    <2>1. PICK k \in Handles \ {h} : LiveNow(k) /\ hs[k].at = s  BY <1>5
    <2>2. LiveThen(k) /\ hs'[k].at = s /\ hs'[k].buf = hs[k].buf  BY <2>1, TwinsLive
    <2> QED BY <1>2, <1>3, <2>1, <2>2
  <1>6. CASE \A k \in Handles \ {h} : ~(LiveNow(k) /\ hs[k].at = s)
    <2>1. Shows(s) = data[s]  BY <1>2, <1>4, <1>6
    <2>2. \A k \in Handles \ {h} : ~(LiveThen(k) /\ hs'[k].at = s)  BY <1>6, TwinsLive
    <2>3. ShowsThen(s) = data'[s]  BY <1>3, <1>4, <2>2
    <2> QED BY <2>1, <2>3
  <1> QED BY <1>5, <1>6

(* h has it, before and after.                                             *)
LEMMA SameShows ==
    ASSUME NEW h \in Handles, Whole, WholeThen, NEW s \in Kept,
           LiveNow(h), LiveThen(h), hs[h].at = s, hs'[h].at = s
    PROVE  Shows(s) = hs[h].buf /\ ShowsThen(s) = hs'[h].buf
  <1>1. s \in Sectors /\ s \notin lost /\ s \notin lost'  BY DEF Kept
  <1> QED BY <1>1, ShownIs DEF Whole, WholeThen, Shows, ShowsThen, LiveNow, LiveThen

(* h had it and can no longer be relied on: what the medium has is shown.  *)
LEMMA DropShows ==
    ASSUME NEW h \in Handles, Twins(h), Whole, WholeThen, NEW s \in Kept,
           LiveNow(h), hs[h].at = s, ~LiveThen(h), data'[s] \in {data[s], hs[h].buf}
    PROVE  Shows(s) = hs[h].buf /\ ShowsThen(s) = data'[s]
  <1>1. s \in Sectors /\ s \notin lost /\ s \notin lost'  BY DEF Kept
  <1>2. Shows(s) = hs[h].buf  BY <1>1, ShownIs DEF Whole, Shows, LiveNow
  <1>3. /\ \A k \in Handles : LiveThen(k) /\ hs'[k].at = s => ShowsThen(s) = hs'[k].buf
        /\ (\E k \in Handles : LiveThen(k) /\ hs'[k].at = s) \/ ShowsThen(s) = data'[s]
    BY <1>1, ShownIs DEF WholeThen, ShowsThen, LiveThen
  <1>4. ASSUME NEW k \in Handles, LiveThen(k), hs'[k].at = s PROVE hs'[k].buf = data'[s]
    <2>1. k # h  BY <1>4
    <2>2. LiveNow(k) /\ hs[k].at = s /\ hs'[k].buf = hs[k].buf  BY <1>4, <2>1, TwinsLive
    <2>3. hs[k].open /\ hs[h].open  BY <2>2 DEF LiveNow, Live
    <2>4. ~hs[k].dirty /\ ~hs[h].dirty  BY <1>1, <2>1, <2>2, <2>3 DEF Whole, Coherent, Apart
    <2>5. hs[k].buf = data[s] /\ hs[h].buf = data[s]  BY <1>1, <2>2, <2>3, <2>4 DEF Whole, Coherent, Level
    <2> QED BY <2>2, <2>5
  <1> QED BY <1>2, <1>3, <1>4
-----------------------------------------------------------------------------
(* Bytes and the sectors they are in. *)
LEMMA ByteIs ==
    ASSUME NEW i \in Bytes
    PROVE  i \in Nat /\ i \div SectSize \in Sectors /\ i % SectSize \in 0 .. (SectSize - 1)
  <1>1. i \in Nat /\ i < MaxClusts * ClustSize /\ MaxClusts * ClustSize \in Nat
    <2>1. MaxClusts * ClustSize \in Nat  BY Constants
    <2> QED BY <2>1 DEF Bytes
  <1>2. i % SectSize \in 0 .. (SectSize - 1)  BY <1>1, Constants
  <1>3. MaxClusts * ClustSects \in Nat /\ (MaxClusts * ClustSects) * SectSize = MaxClusts * ClustSize
    BY Constants DEF ClustSize
  <1>4. i \div SectSize < MaxClusts * ClustSects  BY <1>1, <1>3, Division, Constants
  <1>5. i \div SectSize \in Nat  BY <1>1, Division, Constants
  <1> QED BY <1>1, <1>2, <1>3, <1>4, <1>5 DEF Sectors

LEMMA SectorHasByte ==
    ASSUME NEW s \in Sectors
    PROVE  s \in {i \div SectSize : i \in Bytes}
  <1> DEFINE i == s * SectSize
             m == MaxClusts * ClustSects
  <1>1. m \in Nat /\ s \in Nat /\ s < m
    <2>1. m \in Nat  BY Constants
    <2> QED BY <2>1 DEF Sectors
  <1>2. m * SectSize = MaxClusts * ClustSize /\ MaxClusts * ClustSize \in Nat
    BY Constants DEF ClustSize
  <1>3. i \in Nat /\ i < m * SectSize
    <2> HIDE DEF m
    <2>1. m - (s + 1) \in Nat  BY <1>1
    <2>2. (m - (s + 1)) * SectSize \in Nat /\ i \in Nat  BY <1>1, <2>1, Constants
    <2>3. (m - (s + 1)) * SectSize = m * SectSize - (i + SectSize)  BY <1>1, Constants
    <2>4. m * SectSize \in Nat  BY <1>1, Constants
    <2> DEFINE x == m * SectSize
               y == (m - (s + 1)) * SectSize
    <2>5. x \in Nat /\ y \in Nat /\ y = x - (i + SectSize)  BY <2>2, <2>3, <2>4
    <2> HIDE DEF i, x, y
    <2>6. i < x  BY <2>2, <2>5, Constants
    <2> QED BY <2>2, <2>6 DEF x
  <1>4. i \in Bytes
    <2> HIDE DEF i
    <2> QED BY <1>2, <1>3 DEF Bytes
  <1>5. i \div SectSize = s
    <2>1. s * SectSize <= i /\ i < (s + 1) * SectSize
      <3>1. (s + 1) * SectSize = i + SectSize  BY <1>1, Constants
      <3> HIDE DEF i
      <3> QED BY <1>3, <3>1, Constants
    <2> HIDE DEF i
    <2> QED BY <1>1, <1>3, <2>1, Division, Constants
  <1> QED BY <1>4, <1>5

(* A handle's place is where its offset says.                              *)
LEMMA SectAtIs ==
    ASSUME NEW o \in Nat
    PROVE  SectAt(Clust(o) + 1, o) = o \div SectSize
  <1> DEFINE q == o \div SectSize
             c == q \div ClustSects
  <1>1. q \in Nat  BY Constants, Division
  <1>2. c \in Nat /\ q = c * ClustSects + (q % ClustSects)
    <2> HIDE DEF q
    <2>1. q \div ClustSects \in Nat  BY <1>1, Constants, Division
    <2>2. q = ClustSects * (q \div ClustSects) + (q % ClustSects)  BY <1>1, Constants
    <2>3. ClustSects * (q \div ClustSects) = (q \div ClustSects) * ClustSects  BY <2>1, Constants
    <2> QED BY <2>1, <2>2, <2>3
  <1>3. c = Clust(o)
    <2>1. \A s \in Nat : c < s <=> q < s * ClustSects  BY <1>1, Constants, Division
    <2>2. \A s \in Nat : q < s * ClustSects <=> o < (s * ClustSects) * SectSize
      <3> TAKE s \in Nat
      <3>1. s * ClustSects \in Nat  BY Constants
      <3> QED BY <3>1, Constants, Division
    <2>3. \A s \in Nat : (s * ClustSects) * SectSize = s * ClustSize  BY Constants DEF ClustSize
    <2>4. \A s \in Nat : Clust(o) < s <=> o < s * ClustSize  BY Constants, Division DEF Clust
    <2>5. \A s \in Nat : c < s <=> Clust(o) < s  BY <2>1, <2>2, <2>3, <2>4
    <2>6. Clust(o) \in Nat  BY ClustIs
    <2> HIDE DEF c
    <2>7. c + 1 \in Nat /\ Clust(o) + 1 \in Nat  BY <1>2, <2>6
    <2>8. Clust(o) < c + 1 /\ c < Clust(o) + 1  BY <1>2, <2>5, <2>6, <2>7
    <2> QED BY <1>2, <2>6, <2>8
  <1>4. ((Clust(o) + 1) - 1) * ClustSects = c * ClustSects
    <2>1. (Clust(o) + 1) - 1 = c  BY <1>2, <1>3
    <2> QED BY <2>1
  <1>5. SectAt(Clust(o) + 1, o) = ((Clust(o) + 1) - 1) * ClustSects + (q % ClustSects)  BY DEF SectAt
  <1>6. c * ClustSects + (q % ClustSects) = q  BY <1>2, Zenon
  <1> HIDE DEF c, q
  <1>7. SectAt(Clust(o) + 1, o) = q  BY <1>4, <1>5, <1>6, Zenon
  <1> QED BY <1>7 DEF q

(* The bytes from offset o on, as far as its sector goes.                  *)
LEMMA RunIs ==
    ASSUME NEW o \in Nat, NEW n \in Nat, n > 0, n <= SectSize - (o % SectSize), NEW i \in Nat
    PROVE  /\ i \in o .. (o + n - 1) => i \div SectSize = o \div SectSize
           /\ i \div SectSize = o \div SectSize =>
                (i \in o .. (o + n - 1) <=> o % SectSize <= i % SectSize /\ i % SectSize < (o % SectSize) + n)
  <1> DEFINE q == o \div SectSize
             x == q * SectSize
             r == o % SectSize
             p == i \div SectSize
  <1>1. q \in Nat /\ x \in Nat /\ r \in 0 .. (SectSize - 1) /\ o = x + r /\ (q + 1) * SectSize = x + SectSize
    <2>1. q \in Nat /\ r \in 0 .. (SectSize - 1) /\ o = SectSize * q + r  BY Constants, Division
    <2> HIDE DEF q, r
    <2>2. SectSize * q = x /\ x \in Nat /\ (q + 1) * SectSize = x + SectSize  BY <2>1, Constants
    <2> QED BY <2>1, <2>2
  <1>2. i \div SectSize = q <=> x <= i /\ i < x + SectSize
    <2>1. i \div SectSize = q <=> q * SectSize <= i /\ i < (q + 1) * SectSize
      <3> HIDE DEF q
      <3> QED BY <1>1, Constants, Division
    <2> QED BY <1>1, <2>1
  <1>3. i \div SectSize = q => i = x + (i % SectSize)
    <2>1. i = SectSize * (i \div SectSize) + (i % SectSize)  BY Constants
    <2>2. SectSize * q = x  BY <1>1, Constants
    <2> HIDE DEF q, x
    <2> QED BY <2>1, <2>2
  <1>4. i % SectSize \in Int /\ SectSize \in Nat  BY Constants
  <1> DEFINE k == i % SectSize
             d == i \div SectSize
  <1>5. k \in Int /\ (d = q <=> x <= i /\ i < x + SectSize) /\ (d = q => i = x + k)  BY <1>2, <1>3, <1>4
  <1>6. n <= SectSize - r  OBVIOUS
  <1> HIDE DEF q, x, r, k, d
  <1>7. (i \in o .. (o + n - 1) => d = q) /\ (d = q => (i \in o .. (o + n - 1) <=> r <= k /\ k < r + n))
    BY <1>1, <1>4, <1>5, <1>6
  <1> QED BY <1>7 DEF q, r, k, d
-----------------------------------------------------------------------------
(* The mapping of FatFile, sector by sector. *)
BufOf(S, H, D, s) == IF S = {} THEN D[s] ELSE H[CHOOSE h \in S : TRUE].buf

LEMMA SeenIs ==
    ASSUME NEW i \in Bytes
    PROVE  Seen(i) = Shows(i \div SectSize)[i % SectSize] /\ Seen(i)' = ShowsThen(i \div SectSize)[i % SectSize]
  <1> DEFINE s == i \div SectSize
             N == {h \in Handles : Holds(h, s)}
             T == {h \in Handles : Holds(h, s)'}
  <1>1. \A h \in Handles : Holds(h, s) <=> h \in Holders(hs, call.h, s)  BY DEF Holds, Has, Holders
  <1>2. N = Holders(hs, call.h, s)  BY <1>1 DEF Holders
  <1>3. Seen(i) = BufOf(N, hs, data, s)[i % SectSize]  BY Zenon DEF Seen, BufOf
  <1>4. \A h \in Handles : Holds(h, s)' <=> h \in Holders(hs', call'.h, s)  BY DEF Holds, Has, Holders, Astray, Sane
  <1>5. T = Holders(hs', call'.h, s)  BY <1>4 DEF Holders
  <1>6. Seen(i)' = BufOf(T, hs', data', s)[i % SectSize]  BY Zenon DEF Seen, BufOf
  <1>7. Shows(s) = BufOf(Holders(hs, call.h, s), hs, data, s)  BY Zenon DEF Shows, ShownBy, BufOf
  <1>8. ShowsThen(s) = BufOf(Holders(hs', call'.h, s), hs', data', s)  BY Zenon DEF ShowsThen, ShownBy, BufOf
  <1> HIDE DEF N, T, s
  <1> QED BY <1>2, <1>3, <1>5, <1>6, <1>7, <1>8 DEF s

PosNow  == [h \in Handles |-> IF LiveNow(h) THEN hs[h].offset ELSE NoSect]
PosThen == [h \in Handles |-> IF LiveThen(h) THEN hs'[h].offset ELSE NoSect]

LEMMA PosIs ==
    /\ [h \in Handles |-> IF hs[h].open /\ (~Astray(hs[h]) \/ call.h = h) THEN hs[h].offset ELSE NoSect] = PosNow
    /\ [h \in Handles |-> IF hs[h].open /\ (~Astray(hs[h]) \/ call.h = h) THEN hs[h].offset ELSE NoSect]' = PosThen
  BY DEF PosNow, PosThen, LiveNow, LiveThen, Live, Astray, Sane

LEMMA OthersStay ==
    ASSUME NEW h \in Handles, Twins(h)
    PROVE  \A g \in Handles \ {h} : PosThen[g] = PosNow[g]
  BY TwinsLive DEF PosNow, PosThen

KeptSame == \A s \in Kept : ShowsThen(s) = Shows(s) /\ data'[s] = data[s]

LEMMA MovesIf ==
    ASSUME NEW h \in Handles, Twins(h), KeptSame
    PROVE  File!Moves
  <1>1. \A g \in Handles \ {h} : PosThen[g] = PosNow[g]  BY OthersStay
  <1>2. ASSUME NEW i \in Bytes, i \div SectSize \notin lost \cup lost'
        PROVE  Seen(i)' = Seen(i) /\ (data[i \div SectSize][i % SectSize])' = data[i \div SectSize][i % SectSize]
    <2>1. i \div SectSize \in Kept  BY <1>2, ByteIs DEF Kept
    <2> QED BY <1>2, <2>1, SeenIs DEF KeptSame
  <1> QED BY <1>1, <1>2, PosIs DEF File!Moves, File!Same, File!Sector

LEMMA SettlesIf ==
    ASSUME NEW h \in Handles, Twins(h), NEW t \in Sectors, \A s \in Kept : ShowsThen(s) = Shows(s),
           \A s \in Kept : data'[s] = IF s = t THEN Shows(s) ELSE data[s]
    PROVE  File!Settles
  <1>1. \A g \in Handles \ {h} : PosThen[g] = PosNow[g]  BY OthersStay
  <1>2. ASSUME NEW i \in Bytes, i \div SectSize \notin lost \cup lost'
        PROVE  /\ Seen(i)' = Seen(i)
               /\ (data[i \div SectSize][i % SectSize])' =
                    IF i \div SectSize = t THEN Seen(i) ELSE data[i \div SectSize][i % SectSize]
    <2>1. i \div SectSize \in Kept  BY <1>2, ByteIs DEF Kept
    <2> QED BY <1>2, <2>1, SeenIs
  <1>3. t \in {i \div SectSize : i \in Bytes}  BY SectorHasByte
  <1>4. \E s \in {i \div SectSize : i \in Bytes} : \A i \in Bytes :
           i \div SectSize \notin lost \cup lost' =>
             (data[i \div SectSize][i % SectSize])' =
                IF i \div SectSize = s THEN Seen(i) ELSE data[i \div SectSize][i % SectSize]
    BY <1>2, <1>3
  <1>5. \A i \in Bytes : i \div SectSize \notin lost \cup lost' => Seen(i)' = Seen(i)  BY <1>2
  <1> QED BY <1>1, <1>4, <1>5, PosIs DEF File!Settles, File!Same, File!Sector

LEMMA FailsIf ==
    ASSUME NEW h \in Handles, Twins(h), ~LiveThen(h), NEW t \in Sectors,
           \A s \in Kept : s # t => ShowsThen(s) = Shows(s) /\ data'[s] = data[s],
           t \in Kept => ShowsThen(t) = data'[t] /\ data'[t] \in {data[t], Shows(t)}
    PROVE  File!Fails
  <1>1. PosThen = [PosNow EXCEPT ![h] = NoSect]
    <2>1. \A g \in Handles \ {h} : PosThen[g] = PosNow[g]  BY OthersStay
    <2>2. PosThen[h] = NoSect  BY DEF PosThen
    <2>3. DOMAIN PosThen = Handles /\ DOMAIN PosNow = Handles  BY DEF PosThen, PosNow
    <2>4. PosThen = [g \in Handles |-> PosThen[g]]  BY DEF PosThen
    <2> QED BY <2>1, <2>2, <2>3, <2>4
  <1>2. ASSUME NEW i \in Bytes, i \div SectSize \notin lost \cup lost'
        PROVE  /\ Seen(i)' = IF i \div SectSize = t THEN (data[i \div SectSize][i % SectSize])' ELSE Seen(i)
               /\ (data[i \div SectSize][i % SectSize])' # data[i \div SectSize][i % SectSize] =>
                    i \div SectSize = t /\ (data[i \div SectSize][i % SectSize])' = Seen(i)
    <2>1. i \div SectSize \in Kept  BY <1>2, ByteIs DEF Kept
    <2> QED BY <1>2, <2>1, SeenIs
  <1>3. t \in {i \div SectSize : i \in Bytes}  BY SectorHasByte
  <1>4. \E g \in Handles, s \in {i \div SectSize : i \in Bytes} :
           /\ PosThen = [PosNow EXCEPT ![g] = NoSect]
           /\ \A i \in Bytes : i \div SectSize \notin lost \cup lost' =>
                /\ Seen(i)' = IF i \div SectSize = s THEN (data[i \div SectSize][i % SectSize])' ELSE Seen(i)
                /\ (data[i \div SectSize][i % SectSize])' # data[i \div SectSize][i % SectSize] =>
                     i \div SectSize = s /\ (data[i \div SectSize][i % SectSize])' = Seen(i)
    BY <1>1, <1>2, <1>3
  <1> QED BY <1>4, PosIs DEF File!Fails, File!Sector

LEMMA ByteOf ==
    ASSUME NEW i \in Nat, i \div SectSize \in Sectors
    PROVE  i \in Bytes
  <1> DEFINE m == MaxClusts * ClustSects
             p == i \div SectSize
  <1>1. m \in Nat  BY Constants
  <1>2. p \in Nat /\ p < m
    <2> HIDE DEF p
    <2> QED BY <1>1 DEF Sectors, p
  <1>3. m * SectSize = MaxClusts * ClustSize /\ MaxClusts * ClustSize \in Nat  BY Constants DEF ClustSize
  <1>4. i < m * SectSize
    <2> HIDE DEF m
    <2> QED BY <1>1, <1>2, Division, Constants DEF p
  <1> QED BY <1>3, <1>4 DEF Bytes

(* n bytes of sector t, from offset o on, are replaced by v. *)
LEMMA WritesIf ==
    ASSUME NEW h \in Handles, Twins(h), LiveNow(h), LiveThen(h), NEW o \in Nat, hs[h].offset = o, hs'[h].offset = o,
           NEW n \in Nat, n > 0, n <= SectSize - (o % SectSize), NEW v, NEW t \in Sectors, t = o \div SectSize,
           \A s \in Kept : s # t => ShowsThen(s) = Shows(s),
           t \in Kept => \A k \in 0 .. (SectSize - 1) :
              ShowsThen(t)[k] = IF o % SectSize <= k /\ k < (o % SectSize) + n THEN v ELSE Shows(t)[k],
           \A s \in Kept : data'[s] = data[s]
    PROVE  File!Writes
  <1>1. PosThen = PosNow /\ PosNow[h] = o /\ o # NoSect
    <2>1. \A g \in Handles \ {h} : PosThen[g] = PosNow[g]  BY OthersStay
    <2>2. PosThen[h] = o /\ PosNow[h] = o  BY DEF PosThen, PosNow
    <2>3. PosThen = [g \in Handles |-> PosThen[g]] /\ PosNow = [g \in Handles |-> PosNow[g]]  BY DEF PosThen, PosNow
    <2>4. o # NoSect  BY DEF NoSect
    <2> QED BY <2>1, <2>2, <2>3, <2>4
  <1>2. ASSUME NEW i \in Bytes, i \div SectSize \notin lost \cup lost'
        PROVE  (data[i \div SectSize][i % SectSize])' = data[i \div SectSize][i % SectSize]
    <2>1. i \div SectSize \in Kept  BY <1>2, ByteIs DEF Kept
    <2> QED BY <2>1
  <1> DEFINE m == IF t \in Kept THEN n ELSE 1
             run == o .. (o + m - 1)
  <1>3. m \in 1 .. SectSize /\ m \in Nat /\ m > 0 /\ m <= SectSize - (o % SectSize)
    <2>1. o % SectSize \in 0 .. (SectSize - 1) /\ SectSize \in Nat  BY Constants
    <2> QED BY <2>1
  <1>4. ASSUME NEW i \in run PROVE i \in Bytes /\ i \div SectSize = t
    <2>1. i \in Nat  OBVIOUS
    <2> HIDE DEF m
    <2>2. i \div SectSize = t  BY <1>3, <2>1, RunIs
    <2> QED BY <2>1, <2>2, ByteOf
  <1>5. ASSUME NEW i \in run, NEW j \in run PROVE Seen(i)' = Seen(j)'
    <2>1. CASE t \in Kept
      <3>1. ASSUME NEW k \in run PROVE Seen(k)' = v
        <4>1. k \in Bytes /\ k \div SectSize = t /\ k \in Nat  BY <1>4, ByteIs, <3>1
        <4>2. o % SectSize <= k % SectSize /\ k % SectSize < (o % SectSize) + n  BY <2>1, <4>1, RunIs
        <4>3. k % SectSize \in 0 .. (SectSize - 1)  BY <4>1, ByteIs
        <4> QED BY <2>1, <4>1, <4>2, <4>3, SeenIs
      <3> HIDE DEF run
      <3> QED BY <3>1
    <2>2. CASE t \notin Kept  BY <2>2
    <2> QED BY <2>1, <2>2
  <1>6. ASSUME NEW i \in Bytes \ run, i \div SectSize \notin lost \cup lost' PROVE Seen(i)' = Seen(i)
    <2>1. i \in Nat /\ i \div SectSize \in Kept  BY <1>6, ByteIs DEF Kept
    <2>2. CASE i \div SectSize # t  BY <2>1, <2>2, SeenIs
    <2>3. CASE i \div SectSize = t
      <3>1. t \in Kept /\ run = o .. (o + n - 1)  BY <2>1, <2>3
      <3> HIDE DEF run, m
      <3>2. ~(o % SectSize <= i % SectSize /\ i % SectSize < (o % SectSize) + n)  BY <2>1, <2>3, <3>1, RunIs
      <3>3. i % SectSize \in 0 .. (SectSize - 1)  BY ByteIs
      <3> QED BY <2>3, <3>1, <3>2, <3>3, SeenIs
    <2> QED BY <2>2, <2>3
  <1> HIDE DEF m
  <1>7. \E g \in Handles, k \in 1 .. SectSize :
           /\ PosNow[g] # NoSect /\ PosThen = PosNow
           /\ \A i, j \in PosNow[g] .. (PosNow[g] + k - 1) :
                i \div SectSize = j \div SectSize /\ i \in Bytes /\ j \in Bytes /\ Seen(i)' = Seen(j)'
           /\ \A i \in Bytes \ (PosNow[g] .. (PosNow[g] + k - 1)) :
                i \div SectSize \notin lost \cup lost' => Seen(i)' = Seen(i)
    BY <1>1, <1>3, <1>4, <1>5, <1>6
  <1>8. \A i \in Bytes : i \div SectSize \notin lost \cup lost' =>
          (data[i \div SectSize][i % SectSize])' = data[i \div SectSize][i % SectSize]
    BY <1>2
  <1> QED BY <1>7, <1>8, PosIs DEF File!Writes, File!Same, File!Sector

(* With no handle that can be relied on, the medium is what is seen. *)
LEMMA LastShows ==
    ASSUME \A h \in Handles : hs'[h].offset # NoSect,
           \A h \in Handles : PosThen[h] = NoSect
    PROVE  [i \in Bytes |-> Seen(i)]' = [i \in Bytes |-> data[i \div SectSize][i % SectSize]]'
  <1>1. \A h \in Handles : ~LiveThen(h)  BY DEF PosThen
  <1>2. ASSUME NEW s PROVE ShowsThen(s) = data'[s]
    <2>1. Holders(hs', call'.h, s) = {}
      <3>1. \A h : h \notin Holders(hs', call'.h, s)  BY <1>1, HolderIs DEF LiveThen
      <3> QED BY <3>1
    <2> QED BY <2>1 DEF ShowsThen, ShownBy
  <1>3. \A i \in Bytes : Seen(i)' = (data[i \div SectSize][i % SectSize])'  BY <1>2, SeenIs
  <1> QED BY <1>3
-----------------------------------------------------------------------------
(* What a step can do to handle h. *)
PutBack(h) == [data EXCEPT ![hs[h].at] = hs[h].buf]

(* It keeps its buffer, which may have been written back... *)
Remains(h) == /\ hs[h].open /\ hs'[h].open /\ hs'[h].at = hs[h].at /\ hs'[h].buf = hs[h].buf
              /\ LiveNow(h) /\ data' \in {data, PutBack(h)}
              /\ hs'[h].dirty \/ ~hs[h].dirty \/ data' = PutBack(h)

(* ... or has before and after what the medium has, or nothing at all...   *)
Levels(h) == data' = data /\ Level(hs[h], data, lost) /\ Level(hs'[h], data, lost)

(* ... or some bytes of its buffer are changed at its offset. *)
Put1(b, a, r, n, v) == \A k \in 0 .. (SectSize - 1) : b[k] = IF r <= k /\ k < r + n THEN v ELSE a[k]
Changes(h) ==
    /\ data' = data /\ LiveNow(h) /\ LiveThen(h) /\ hs'[h].dirty
    /\ hs'[h].at = hs[h].at /\ hs[h].at = hs[h].offset \div SectSize /\ hs[h].at \in Sectors
    /\ hs[h].offset \in Nat /\ hs'[h].offset = hs[h].offset
    /\ \E n \in Nat, v \in Vals : /\ n > 0 /\ n <= SectSize - (hs[h].offset % SectSize)
                        /\ Put1(hs'[h].buf, hs[h].buf, hs[h].offset % SectSize, n, v)

Handled(h) == Twins(h) /\ (Remains(h) \/ Levels(h) \/ Changes(h))

(* What two handles share, one of them for writing, is lost.               *)
Writers   == \A h \in Handles : hs[h].dirty => "WRITE" \in hs[h].flags
Accounted == SharedNow \subseteq lost

LEMMA ApartIs ==
    ASSUME Writers, Accounted, NEW g \in Handles, NEW h \in Handles, g # h
    PROVE  Apart(hs[g], hs[h], lost)
  <1> SUFFICES ASSUME hs[g].open, hs[h].open, hs[g].at = hs[h].at, hs[g].at \in Sectors \ lost, hs[g].dirty
               PROVE  FALSE
    BY DEF Apart
  <1>1. "WRITE" \in hs[g].flags  BY DEF Writers
  <1>2. hs[g].at \in SharedNow  BY <1>1 DEF SharedNow, Has
  <1> QED BY <1>2 DEF Accounted

LEMMA ApartThen ==
    ASSUME Writers', Accounted', NEW g \in Handles, NEW h \in Handles, g # h
    PROVE  Apart(hs'[g], hs'[h], lost')
  <1> SUFFICES ASSUME hs'[g].open, hs'[h].open, hs'[g].at = hs'[h].at, hs'[g].at \in Sectors \ lost', hs'[g].dirty
               PROVE  FALSE
    BY DEF Apart
  <1>1. "WRITE" \in hs'[g].flags  BY DEF Writers
  <1>2. hs'[g].at \in SharedNow'  BY <1>1 DEF SharedNow, Has
  <1> QED BY <1>2 DEF Accounted

LEMMA StaysWhole ==
    ASSUME Whole, NEW h \in Handles, Handled(h), Writers', Accounted', data \in [Sectors -> Buffers],
           \A k \in Handles : hs'[k].open => lost \subseteq lost'
    PROVE  WholeThen
  <1>1. ASSUME NEW k \in Handles, ~hs'[k].dirty, hs'[k].open, hs'[k].at \in Sectors, hs'[k].at \notin lost'
        PROVE  hs'[k].buf = data'[hs'[k].at]
    <2>1. hs'[k].at \notin lost  BY <1>1
    <2>2. Twins(h)  BY DEF Handled
    <2>3. CASE k = h
      <3>1. CASE Remains(h)
        <4>1. CASE data' = PutBack(h)
          <5>1. data'[hs[h].at] = hs[h].buf  BY <1>1, <2>3, <3>1, <4>1 DEF PutBack, Remains
          <5> QED BY <2>3, <3>1, <5>1 DEF Remains
        <4>2. CASE data' # PutBack(h)
          <5>1. data' = data /\ ~hs[h].dirty  BY <1>1, <2>3, <3>1, <4>2 DEF Remains
          <5> QED BY <1>1, <2>1, <2>3, <3>1, <5>1 DEF Remains, Whole, Coherent, Level
        <4> QED BY <4>1, <4>2
      <3>2. CASE Levels(h)  BY <1>1, <2>1, <2>3, <3>2 DEF Levels, Level
      <3>3. CASE Changes(h)  BY <1>1, <2>3, <3>3 DEF Changes
      <3> QED BY <3>1, <3>2, <3>3 DEF Handled
    <2>4. CASE k # h
      <3>1. /\ hs'[k].at = hs[k].at /\ hs'[k].buf = hs[k].buf /\ hs[k].open /\ ~hs[k].dirty
        BY <1>1, <2>2, <2>4, TwinsLive
      <3>2. hs[k].buf = data[hs[k].at]  BY <1>1, <2>1, <3>1 DEF Whole, Coherent, Level
      <3>3. data'[hs[k].at] = data[hs[k].at]
        <4>1. CASE data' = data  BY <4>1
        <4>2. CASE data' # data
          <5>1. data' = PutBack(h) /\ hs[h].open  BY <4>2 DEF Handled, Remains, Levels, Changes
          <5>2. CASE hs[h].at # hs[k].at  BY <5>1, <5>2 DEF PutBack
          <5>3. CASE hs[h].at = hs[k].at
            <6>1. ~hs[h].dirty  BY <1>1, <2>1, <2>4, <3>1, <5>1, <5>3 DEF Whole, Coherent, Apart
            <6>2. hs[h].buf = data[hs[h].at]  BY <1>1, <2>1, <3>1, <5>1, <5>3, <6>1 DEF Whole, Coherent, Level
            <6> QED BY <1>1, <3>1, <5>1, <5>3, <6>2 DEF PutBack
          <5> QED BY <5>2, <5>3
        <4> QED BY <4>1, <4>2
      <3> QED BY <3>1, <3>2, <3>3
    <2> QED BY <2>3, <2>4
  <1>2. \A k \in Handles : hs'[k].dirty \/ Level(hs'[k], data', lost')  BY <1>1 DEF Level
  <1> QED BY <1>2, ApartThen DEF WholeThen, Coherent

(* Each of them is a step of the array of bytes. *)
LEMMA HandledMaps ==
    ASSUME Whole, WholeThen, NEW h \in Handles, Handled(h), data \in [Sectors -> Buffers]
    PROVE  File!Moves \/ File!Writes \/ File!Settles \/ File!Fails
  <1>1. Twins(h)  BY DEF Handled
  <1>2. \A s \in Kept : s \in Sectors /\ s \notin lost /\ s \notin lost'  BY DEF Kept
  <1>3. CASE Levels(h)
    <2>1. KeptSame
      <3> SUFFICES ASSUME NEW s \in Kept PROVE ShowsThen(s) = Shows(s) /\ data'[s] = data[s]  BY DEF KeptSame
      <3>1. data'[s] = data[s]  BY <1>3 DEF Levels
      <3>2. hs[h].open /\ hs[h].at = s => hs[h].buf = data[s]  BY <1>2, <1>3 DEF Levels, Level
      <3>3. hs'[h].open /\ hs'[h].at = s => hs'[h].buf = data[s]  BY <1>2, <1>3 DEF Levels, Level
      <3> QED BY <1>1, <3>1, <3>2, <3>3, LevelShows
    <2> QED BY <1>1, <2>1, MovesIf
  <1>4. CASE Remains(h)
    <2> DEFINE t == hs[h].at
    <2>1. /\ LiveNow(h) /\ hs[h].open /\ hs'[h].at = t /\ hs'[h].buf = hs[h].buf /\ data' \in {data, PutBack(h)}
      BY <1>4 DEF Remains
    <2>2. ASSUME NEW s \in Sectors, s # t PROVE data'[s] = data[s]  BY <2>1, <2>2 DEF PutBack
    <2>3. ASSUME NEW s \in Kept, s # t PROVE ShowsThen(s) = Shows(s)
      BY <1>1, <1>2, <2>1, <2>2, <2>3, LevelShows
    <2>4. CASE LiveThen(h)
      <3>1. ASSUME NEW s \in Kept, s = t PROVE ShowsThen(s) = Shows(s) /\ Shows(s) = hs[h].buf
        BY <2>1, <2>4, <3>1, SameShows
      <3>2. CASE data' = data
        <4>1. KeptSame  BY <2>3, <3>1, <3>2 DEF KeptSame
        <4> QED BY <1>1, <4>1, MovesIf
      <3>3. CASE data' # data
        <4>1. data' = PutBack(h)  BY <2>1, <3>3
        <4>2. t \in Sectors  BY <3>3, <4>1 DEF PutBack
        <4>3. data'[t] = hs[h].buf  BY <4>1, <4>2 DEF PutBack
        <4>4. \A s \in Kept : data'[s] = IF s = t THEN Shows(s) ELSE data[s]  BY <1>2, <2>2, <3>1, <4>3
        <4>5. \A s \in Kept : ShowsThen(s) = Shows(s)  BY <2>3, <3>1
        <4> HIDE DEF t
        <4> QED BY <1>1, <4>2, <4>4, <4>5, SettlesIf
      <3> QED BY <3>2, <3>3
    <2>5. CASE ~LiveThen(h)
      <3>1. CASE t \in Sectors
        <4>1. t \in Kept => ShowsThen(t) = data'[t] /\ data'[t] \in {data[t], Shows(t)}
          <5> SUFFICES ASSUME t \in Kept PROVE ShowsThen(t) = data'[t] /\ data'[t] \in {data[t], Shows(t)}
            OBVIOUS
          <5>1. data'[t] \in {data[t], hs[h].buf}  BY <2>1, <3>1 DEF PutBack
          <5>2. Shows(t) = hs[h].buf /\ ShowsThen(t) = data'[t]  BY <1>1, <2>1, <2>5, <5>1, DropShows
          <5> QED BY <5>1, <5>2
        <4>2. \A s \in Kept : s # t => ShowsThen(s) = Shows(s) /\ data'[s] = data[s]  BY <1>2, <2>2, <2>3
        <4> HIDE DEF t
        <4> QED BY <1>1, <2>5, <3>1, <4>1, <4>2, FailsIf
      <3>2. CASE t \notin Sectors
        <4>1. KeptSame  BY <1>2, <2>2, <2>3, <3>2 DEF KeptSame
        <4> QED BY <1>1, <4>1, MovesIf
      <3> QED BY <3>1, <3>2
    <2> QED BY <2>4, <2>5
  <1>5. CASE Changes(h)
    <2> DEFINE t == hs[h].at
               o == hs[h].offset
    <2>1. /\ data' = data /\ LiveNow(h) /\ LiveThen(h) /\ hs'[h].at = t /\ t = o \div SectSize /\ t \in Sectors
          /\ o \in Nat /\ hs'[h].offset = o
      BY <1>5 DEF Changes
    <2>2. PICK n \in Nat, v \in Vals : n > 0 /\ n <= SectSize - (o % SectSize)
                              /\ Put1(hs'[h].buf, hs[h].buf, o % SectSize, n, v)
      BY <1>5 DEF Changes
    <2>3. \A s \in Kept : s # t => ShowsThen(s) = Shows(s)  BY <1>1, <2>1, LevelShows
    <2>4. t \in Kept => Shows(t) = hs[h].buf /\ ShowsThen(t) = hs'[h].buf  BY <2>1, SameShows
    <2>5. \A s \in Kept : data'[s] = data[s]  BY <2>1
    <2>6. t \in Kept => \A k \in 0 .. (SectSize - 1) :
             ShowsThen(t)[k] = IF o % SectSize <= k /\ k < (o % SectSize) + n THEN v ELSE Shows(t)[k]
      BY <2>2, <2>4 DEF Put1
    <2>7. hs[h].offset = o  OBVIOUS
    <2> HIDE DEF t, o
    <2>8. File!Writes  BY <1>1, <2>1, <2>2, <2>3, <2>5, <2>6, <2>7, WritesIf
    <2> QED BY <2>8
  <1> QED BY <1>3, <1>4, <1>5 DEF Handled
-----------------------------------------------------------------------------
(* The handle of a step keeps its buffer, or was no more than looked for.  *)
Little(h, f) ==
    /\ \A k \in Handles \ {h} : hs'[k] = hs[k]
    /\ call'.h \in {h, "none"}
    /\ \/ hs'[h] = NoHandle /\ f.at = NoSect
       \/ hs'[h].open = f.open /\ hs'[h].at = f.at /\ hs'[h].buf = f.buf /\ hs'[h].dirty = f.dirty

LEMMA AloneTwins ==
    ASSUME NEW h \in Handles, \A k \in Handles \ {h} : hs'[k] = hs[k],
           call.h \in {h, "none"}, call'.h \in {h, "none"}
    PROVE  Twins(h)
  <1> SUFFICES ASSUME NEW k \in Handles \ {h} PROVE Twin(hs'[k], hs[k]) /\ call.h # k /\ call'.h # k
    BY DEF Twins
  <1>1. call.h # k /\ call'.h # k  BY Constants
  <1>2. hs'[k] = hs[k]  OBVIOUS
  <1> QED BY <1>1, <1>2 DEF Twin

LEMMA LittleHandled ==
    ASSUME NEW h \in Handles, NEW f, Little(h, f), f.open = hs[h].open, f.at = hs[h].at, f.buf = hs[h].buf,
           f.dirty = hs[h].dirty, data' = data, call.h \in {h, "none"},
           hs[h].at = NoSect \/ LiveNow(h)
    PROVE  Handled(h)
  <1>1. Twins(h)  BY AloneTwins DEF Little
  <1>2. CASE hs[h].at = NoSect
    <2>1. hs'[h].at = NoSect  BY <1>2, ClosedIs DEF Little
    <2>2. Levels(h)  BY <1>2, <2>1, Constants DEF Levels, Level
    <2> QED BY <1>1, <2>2 DEF Handled
  <1>3. CASE hs[h].at # NoSect
    <2>1. LiveNow(h) /\ hs[h].open  BY <1>3 DEF LiveNow, Live
    <2>2. hs'[h].open /\ hs'[h].at = hs[h].at /\ hs'[h].buf = hs[h].buf /\ hs'[h].dirty = hs[h].dirty
      BY <1>3, <2>1 DEF Little
    <2>3. Remains(h)  BY <2>1, <2>2 DEF Remains
    <2> QED BY <1>1, <2>3 DEF Handled
  <1> QED BY <1>2, <1>3

LEMMA SeekEndsLittle ==
    ASSUME NEW c \in CallSet, c.h \in Handles, NEW f \in HandleSet, NEW e, SeekEnds(c, f, e),
           hs \in [Handles -> HandleSet], c.op = "open" => f.at = NoSect
    PROVE  /\ Little(c.h, f)
           /\ c.op = "write" => call'.h = c.h /\ hs'[c.h].offset = f.offset
  <1> DEFINE b == f.hurt \/ e = "IO" \/ (e = "FULL" /\ c.op \in {"open", "seek"})
             g == [f EXCEPT !.hurt = b]
             n == IF e = "NONE" THEN c.len ELSE 0
             d == [c EXCEPT !.len = n, !.ssect = NoSect, !.off = 0, !.left = 0]
  <1>1. /\ hs' = [hs EXCEPT ![c.h] = IF c.op = "open" /\ e # "NONE" THEN NoHandle ELSE g]
        /\ IF AfterSeek(c.op, e) THEN Returns(c.op, e) ELSE call' = d
    BY DEF SeekEnds
  <1>2. g.open = f.open /\ g.at = f.at /\ g.buf = f.buf /\ g.dirty = f.dirty /\ g.offset = f.offset
    BY DEF HandleSet
  <1>3. d.h = c.h
    <2> HIDE DEF n
    <2> QED BY DEF CallSet
  <1>4. c.op = "write" => ~AfterSeek(c.op, e)  BY DEF AfterSeek
  <1>5. Returns(c.op, e) => call'.h = "none"  BY NoCallIs DEF Returns
  <1> HIDE DEF g, d
  <1>6. call'.h \in {c.h, "none"} /\ (c.op = "write" => call'.h = c.h)  BY <1>1, <1>3, <1>4, <1>5
  <1>7. \A k \in Handles \ {c.h} : hs'[k] = hs[k]  BY <1>1
  <1>8. hs'[c.h] = IF c.op = "open" /\ e # "NONE" THEN NoHandle ELSE g  BY <1>1
  <1> QED BY <1>2, <1>6, <1>7, <1>8 DEF Little

LEMMA SeekBeginsLittle ==
    ASSUME NEW c \in CallSet, c.h \in Handles, NEW f \in HandleSet, NEW off \in Int, SeekBegins(c, f, off),
           hs \in [Handles -> HandleSet], c.op = "open" => f.at = NoSect
    PROVE  /\ Little(c.h, f)
           /\ c.op = "write" /\ off >= f.offset => call'.h = c.h /\ hs'[c.h].offset = f.offset
  <1>1. CASE off < 0 \/ off > MaxOff
    <2>1. SeekEnds(c, f, "EOF")  BY <1>1 DEF SeekBegins
    <2> QED BY <2>1, SeekEndsLittle
  <1>2. CASE ~(off < 0 \/ off > MaxOff)
    <2> DEFINE back == off \div ClustSize < f.offset \div ClustSize
               g == IF back THEN Backtrack(f) ELSE f
               l == (off \div ClustSize) - (g.offset \div ClustSize)
               d == [c EXCEPT !.ssect = f.sect, !.off = off, !.left = l]
    <2>1. hs' = [hs EXCEPT ![c.h] = g] /\ call' = d  BY <1>2 DEF SeekBegins
    <2>2. g.open = f.open /\ g.at = f.at /\ g.buf = f.buf /\ g.dirty = f.dirty
      BY DEF HandleSet, Backtrack
    <2>3. d.h = c.h
      <3> HIDE DEF l
      <3> QED BY DEF CallSet
    <2>4. off >= f.offset => g.offset = f.offset
      <3>1. off >= f.offset => ~back
        <4>1. f.offset \in Nat /\ off \in Nat  BY <1>2, HandleIs, Constants
        <4>2. off >= f.offset => Clust(f.offset) <= Clust(off)  BY <4>1, ClustIs
        <4>3. Clust(f.offset) \in Nat /\ Clust(off) \in Nat  BY <4>1, ClustIs
        <4> QED BY <4>2, <4>3 DEF Clust
      <3> QED BY <3>1
    <2> HIDE DEF g, d
    <2>5. hs'[c.h] = g /\ call'.h = c.h /\ \A k \in Handles \ {c.h} : hs'[k] = hs[k]  BY <2>1, <2>3
    <2> QED BY <2>2, <2>4, <2>5 DEF Little
  <1> QED BY <1>1, <1>2

LEMMA WritersAre == IInv => Writers
  <1> SUFFICES ASSUME IInv, NEW h \in Handles, hs[h].dirty PROVE "WRITE" \in hs[h].flags  BY DEF Writers
  <1>1. Handling  BY DEF IInv
  <1>2. CASE ~Running(h)
    <2>1. Rests(hs[h])  BY <1>1, <1>2 DEF Handling, HandlesFit
    <2> QED BY <2>1, ClosedIs DEF Rests, Shut, Ready
  <1>3. CASE Running(h)
    <2>1. pc # "idle" /\ Handle = hs[h]  BY <1>3 DEF Running, Handle
    <2>2. CallOk(pc, call, Handle)  BY <1>1, <2>1, RunningCall
    <2>3. CASE pc = "find"  BY <2>1, <2>2, <2>3, ClosedIs DEF CallOk, Shut
    <2>4. CASE pc \in Seeking  BY <2>1, <2>2, <2>4 DEF CallOk, Young, Ready
    <2>5. CASE pc \in {"chunk"} \cup Closing  BY <2>1, <2>2, <2>5 DEF CallOk, Ready
    <2> QED BY <2>1, <2>2, <2>3, <2>4, <2>5 DEF CallOk, Pcs
  <1> QED BY <1>2, <1>3
-----------------------------------------------------------------------------
(* The steps of a running call that did not begin astray. *)
LEMMA AtStep ==
    ASSUME IInv, ~spoilt, pc # "idle"
    PROVE  /\ hs \in [Handles -> HandleSet] /\ data \in [Sectors -> Buffers]
           /\ call.h \in Handles /\ call \in CallSet
           /\ Handle \in HandleSet /\ Handle = hs[call.h] /\ CallOk(pc, call, Handle) /\ TrackOk(pc, call, Handle)
           /\ Handle.open => LiveNow(call.h)
  <1>1. Handling /\ data \in [Sectors -> Buffers]  BY DEF IInv, MediumFits
  <1>2. /\ hs \in [Handles -> HandleSet]
        /\ call.h \in Handles /\ call \in CallSet /\ Handle \in HandleSet /\ Handle = hs[call.h]
        /\ CallOk(pc, call, Handle) /\ Track(spoilt, pc, call, Handle)
    BY <1>1, RunningCall
  <1>3. Handle.open => LiveNow(call.h)  BY <1>2 DEF LiveNow, Live
  <1> QED BY <1>1, <1>2, <1>3 DEF Track

(* A step that leaves the handle and the medium, or changes its place.     *)
LEMMA StepLittle ==
    ASSUME IInv, ~spoilt, pc # "idle", NEW f, Little(call.h, f), UNCHANGED data,
           f.open = Handle.open, f.at = Handle.at, f.buf = Handle.buf, f.dirty = Handle.dirty
    PROVE  Handled(call.h)
  <1>1. /\ call.h \in Handles /\ Handle = hs[call.h] /\ CallOk(pc, call, Handle)
        /\ Handle.open => LiveNow(call.h)
    BY AtStep
  <1>2. Handle.at = NoSect \/ Handle.open
    <2>1. CASE pc = "find"  BY <1>1, <2>1, ClosedIs DEF CallOk, Shut
    <2>2. CASE pc \in Seeking  BY <1>1, <2>2 DEF CallOk, Young, Ready
    <2>3. CASE pc \in {"chunk"} \cup Closing  BY <1>1, <2>3 DEF CallOk, Ready
    <2> QED BY <1>1, <2>1, <2>2, <2>3 DEF CallOk, Pcs
  <1> QED BY <1>1, <1>2, LittleHandled

LEMMA SeekEndsHandled ==
    ASSUME IInv, ~spoilt, pc \in {"find"} \cup Seeking, NEW f \in HandleSet, NEW e, SeekEnds(call, f, e), UNCHANGED data,
           f.open = Handle.open, f.at = Handle.at, f.buf = Handle.buf, f.dirty = Handle.dirty
    PROVE  Handled(call.h)
  <1>1. pc # "idle"  BY DEF Seeking
  <1>2. /\ hs \in [Handles -> HandleSet] /\ call.h \in Handles /\ call \in CallSet
        /\ Handle = hs[call.h] /\ CallOk(pc, call, Handle)
    BY <1>1, AtStep
  <1>3. call.op = "open" => f.at = NoSect
    <2>1. CASE pc = "find"  BY <1>2, <2>1, ClosedIs DEF CallOk, Shut
    <2>2. CASE pc \in Seeking  BY <1>2, <2>2 DEF CallOk, Young
    <2> QED BY <2>1, <2>2
  <1>4. Little(call.h, f)  BY <1>2, <1>3, SeekEndsLittle
  <1> QED BY <1>1, <1>4, StepLittle

LEMMA UnmovedHandled ==
    ASSUME IInv, ~spoilt, pc # "idle", UNCHANGED <<hs, data>>, call' = call \/ call' = NoCall
    PROVE  Handled(call.h)
  <1>1. Little(call.h, Handle)  BY AtStep, NoCallIs DEF Little
  <1> QED BY <1>1, StepLittle

LEMMA NextClustHandled ==
    ASSUME IInv, ~spoilt, pc # "idle", UNCHANGED data, hs' = [hs EXCEPT ![call.h].clust = @ + 1],
           call' = [call EXCEPT !.left = @ - 1]
    PROVE  Handled(call.h)
  <1> DEFINE n == Handle.clust + 1
             f == [Handle EXCEPT !.clust = n]
             l == call.left - 1
  <1>1. /\ hs \in [Handles -> HandleSet] /\ call.h \in Handles /\ call \in CallSet
        /\ Handle \in HandleSet /\ Handle = hs[call.h]
    BY AtStep
  <1>2. hs' = [hs EXCEPT ![call.h] = f]  BY <1>1
  <1>3. call' = [call EXCEPT !.left = l]  OBVIOUS
  <1> HIDE DEF n, l
  <1>4. f.open = Handle.open /\ f.at = Handle.at /\ f.buf = Handle.buf /\ f.dirty = Handle.dirty
    BY <1>1 DEF HandleSet
  <1>5. call'.h = call.h  BY <1>1, <1>3 DEF CallSet
  <1> HIDE DEF f
  <1>6. Little(call.h, f)  BY <1>1, <1>2, <1>5 DEF Little
  <1> QED BY <1>4, <1>6, StepLittle

LEMMA FindHandled ==
    ASSUME IInv, ~spoilt, Find
    PROVE  Handled(call.h)
  <1>1. pc = "find" /\ pc # "idle" /\ UNCHANGED data  BY DEF Find
  <1>2. /\ hs \in [Handles -> HandleSet] /\ call.h \in Handles /\ call \in CallSet
        /\ Handle \in HandleSet /\ Handle = hs[call.h] /\ CallOk(pc, call, Handle)
    BY <1>1, AtStep
  <1>3. call.op = "open" /\ Handle = NoHandle /\ call.flags \in SUBSET AllFlags
    BY <1>1, <1>2, CallIs DEF CallOk, Shut
  <1>4. PICK o \in UpdateBuf("dir") :
           \/ Fails(o)
           \/ LET f == OpenSize([NoHandle EXCEPT !.open = TRUE, !.flags = call.flags], o.win.buf.size)
              IN  o.ok /\ SeekBegins(call, f, IF "APPEND" \in f.flags THEN f.size ELSE 0)
    BY DEF Find
  <1>5. CASE Fails(o)
    <2>1. SeekEnds(call, Handle, "IO")  BY <1>5 DEF Fails
    <2> QED BY <1>1, <1>2, <2>1, SeekEndsHandled
  <1>6. CASE ~Fails(o)
    <2> DEFINE f == OpenSize([NoHandle EXCEPT !.open = TRUE, !.flags = call.flags], o.win.buf.size)
               off == IF "APPEND" \in f.flags THEN f.size ELSE 0
    <2>1. SeekBegins(call, f, off) /\ o.ok  BY <1>4, <1>6
    <2>2. o.win.buf.size \in 0 .. MaxOff  BY <2>1, EntryShown DEF IInv
    <2>3. f = OpenSize(Blank(call.flags), o.win.buf.size)  BY DEF Blank
    <2> HIDE DEF f
    <2>4. f \in HandleSet /\ f.at = NoSect  BY <1>3, <2>2, <2>3, OpenedIs
    <2>5. off \in Int  BY <2>4, HandleIs, Constants
    <2> HIDE DEF off
    <2>6. Little(call.h, f)  BY <1>2, <2>1, <2>4, <2>5, SeekBeginsLittle
    <2>7. hs'[call.h].at = NoSect /\ hs[call.h].at = NoSect  BY <1>2, <1>3, <2>4, <2>6, ClosedIs DEF Little
    <2>8. Levels(call.h)  BY <1>1, <2>7, Constants DEF Levels, Level
    <2>9. Twins(call.h)  BY <1>2, <2>6, AloneTwins DEF Little
    <2> QED BY <2>8, <2>9 DEF Handled
  <1> QED BY <1>5, <1>6

LEMMA FollowHandled ==
    ASSUME IInv, ~spoilt, Follow
    PROVE  Handled(call.h)
  <1>1. pc = "follow" /\ pc \in Seeking /\ pc # "idle"  BY DEF Follow, Seeking
  <1>2. Handle \in HandleSet  BY <1>1, AtStep
  <1>3. PICK o \in UpdateBuf("fat") :
           \/ Fails(o)
           \/ /\ o.ok /\ UNCHANGED <<data, res>>
              /\ IF Handle.clust < o.win.buf.len
                 THEN /\ hs' = [hs EXCEPT ![call.h].clust = @ + 1]
                      /\ call' = [call EXCEPT !.left = @ - 1]
                 ELSE UNCHANGED <<hs, call>>
    BY DEF Follow
  <1>4. CASE Fails(o)
    <2>1. SeekEnds(call, Handle, "IO") /\ UNCHANGED data  BY <1>4 DEF Fails
    <2> QED BY <1>1, <1>2, <2>1, SeekEndsHandled
  <1>5. CASE ~Fails(o) /\ Handle.clust < o.win.buf.len  BY <1>1, <1>3, <1>5, NextClustHandled
  <1>6. CASE ~Fails(o) /\ ~(Handle.clust < o.win.buf.len)  BY <1>1, <1>3, <1>6, UnmovedHandled
  <1> QED BY <1>4, <1>5, <1>6

LEMMA StretchHandled ==
    ASSUME IInv, ~spoilt, Stretch \/ StretchSync
    PROVE  Handled(call.h)
  <1>1. pc \in Seeking /\ pc # "idle"  BY DEF Stretch, StretchSync, Seeking
  <1>2. Handle \in HandleSet  BY <1>1, AtStep
  <1>3. ASSUME NEW e, SeekEnds(call, Handle, e), UNCHANGED data PROVE Handled(call.h)
    BY <1>1, <1>2, <1>3, SeekEndsHandled
  <1>4. ASSUME NEW o, Fails(o) PROVE Handled(call.h)  BY <1>3, <1>4 DEF Fails
  <1>5. CASE Stretch  BY <1>1, <1>3, <1>4, <1>5, UnmovedHandled DEF Stretch
  <1>6. CASE StretchSync  BY <1>1, <1>4, <1>6, NextClustHandled DEF StretchSync
  <1> QED BY <1>5, <1>6

LEMMA ArriveHandled ==
    ASSUME IInv, ~spoilt, Arrive
    PROVE  Handled(call.h)
  <1> DEFINE f == Moved(Handle, SectAt(Handle.clust, call.off), call.off)
  <1>1. pc = "follow" /\ pc \in Seeking /\ pc # "idle" /\ UNCHANGED data  BY DEF Arrive, Seeking
  <1>2. /\ hs \in [Handles -> HandleSet] /\ call.h \in Handles /\ call \in CallSet
        /\ Handle \in HandleSet /\ Handle = hs[call.h]
    BY <1>1, AtStep
  <1>3. SeekEnds(call, f, "NONE") \/ (hs' = [hs EXCEPT ![call.h] = f] /\ UNCHANGED call)  BY DEF Arrive, Moved
  <1>4. f \in HandleSet /\ Alike(f, Handle)
    <2>1. call.off \in 0 .. MaxOff /\ Handle.clust \in 1 .. MaxClusts  BY <1>2, CallIs, HandleIs
    <2>2. SectAt(Handle.clust, call.off) \in Spots  BY <2>1, SectorOf, Constants DEF Spots
    <2> DEFINE s == SectAt(Handle.clust, call.off)
               o == call.off
    <2>3. s \in Spots /\ o \in 0 .. MaxOff /\ f = Moved(Handle, s, o)  BY <2>1, <2>2
    <2>4. Handle \in HandleSet  BY <1>2
    <2> HIDE DEF f, s, o
    <2> QED BY <2>3, <2>4, PlaceIs
  <1> HIDE DEF f
  <1>5. CASE SeekEnds(call, f, "NONE")  BY <1>1, <1>4, <1>5, SeekEndsHandled DEF Alike
  <1>6. CASE hs' = [hs EXCEPT ![call.h] = f] /\ UNCHANGED call
    <2>1. Little(call.h, f)  BY <1>2, <1>6 DEF Little
    <2> QED BY <1>1, <1>4, <2>1, StepLittle DEF Alike
  <1> QED BY <1>3, <1>5, <1>6

LEMMA BackHandled ==
    ASSUME IInv, ~spoilt, Back
    PROVE  Handled(call.h)
  <1> DEFINE h == call.h
  <1>1. pc = "back" /\ pc \in Seeking /\ pc # "idle"  BY DEF Back, Seeking
  <1>2. /\ hs \in [Handles -> HandleSet] /\ h \in Handles /\ call \in CallSet
        /\ Handle \in HandleSet /\ Handle = hs[h] /\ CallOk(pc, call, Handle) /\ TrackOk(pc, call, Handle)
        /\ Handle.open => LiveNow(h)
    BY <1>1, AtStep
  <1>3. Handle.open /\ LiveNow(h) /\ call.op # "open" /\ Handle.at = call.ssect
    BY <1>1, <1>2 DEF CallOk, Ready, TrackOk, BufferOk
  <1>4. Stored(call.ssect) = PutBack(h)  BY <1>2, <1>3 DEF Stored, PutBack
  <1>5. CASE PutFails(call.ssect)
    <2>1. SeekEnds(call, Handle, "IO") /\ data' \in {data, PutBack(h)}  BY <1>4, <1>5 DEF PutFails
    <2>2. Little(h, Handle)  BY <1>2, <1>3, <2>1, SeekEndsLittle
    <2>3. Twins(h)  BY <1>2, <2>2, AloneTwins DEF Little
    <2>4. Handle.at # NoSect  BY <1>1, <1>2, <1>3, Constants DEF CallOk, Ready
    <2>5. Remains(h)  BY <1>2, <1>3, <2>1, <2>2, <2>4 DEF Remains, Little
    <2> QED BY <2>3, <2>5 DEF Handled
  <1>6. CASE ~PutFails(call.ssect)
    <2> DEFINE f == [Handle EXCEPT !.dirty = FALSE]
    <2>1. data' = PutBack(h) /\ hs' = [hs EXCEPT ![h] = f] /\ UNCHANGED call
      BY <1>2, <1>4, <1>6 DEF Back
    <2>2. f.open = Handle.open /\ f.at = Handle.at /\ f.buf = Handle.buf  BY <1>2 DEF HandleSet
    <2> HIDE DEF f
    <2>3. \A k \in Handles \ {h} : hs'[k] = hs[k]  BY <1>2, <2>1
    <2>4. Twins(h)  BY <1>2, <2>1, <2>3, AloneTwins
    <2>5. Remains(h)  BY <1>2, <1>3, <2>1, <2>2 DEF Remains
    <2> QED BY <2>4, <2>5 DEF Handled
  <1> QED BY <1>5, <1>6

LEMMA SeekDoneIs ==
    ASSUME NEW c \in CallSet, c.h \in Handles, NEW f \in HandleSet, SeekEnds(c, f, "NONE"), hs \in [Handles -> HandleSet]
    PROVE  /\ hs'[c.h].buf = f.buf /\ hs'[c.h].at = f.at /\ call'.h \in {c.h, "none"}
           /\ \A k \in Handles \ {c.h} : hs'[k] = hs[k]
  <1> DEFINE g == [f EXCEPT !.hurt = f.hurt]
             d == [c EXCEPT !.len = c.len, !.ssect = NoSect, !.off = 0, !.left = 0]
  <1>1. hs' = [hs EXCEPT ![c.h] = g] /\ (Returns(c.op, "NONE") \/ call' = d)
    BY DEF SeekEnds, HandleSet
  <1>2. g.buf = f.buf /\ g.at = f.at  BY DEF HandleSet
  <1>3. d.h = c.h  BY DEF CallSet
  <1> HIDE DEF g, d
  <1> QED BY <1>1, <1>2, <1>3, NoCallIs DEF Returns

LEMMA FillHandled ==
    ASSUME IInv, ~spoilt, Whole, Fill
    PROVE  Handled(call.h)
  <1> DEFINE h == call.h
             f == Loaded(Handle, data[Handle.sect], Handle.sect)
  <1>1. pc = "fill" /\ pc \in Seeking /\ pc # "idle" /\ UNCHANGED data  BY DEF Fill, Seeking
  <1>2. /\ hs \in [Handles -> HandleSet] /\ h \in Handles /\ call \in CallSet /\ data \in [Sectors -> Buffers]
        /\ Handle \in HandleSet /\ Handle = hs[h] /\ CallOk(pc, call, Handle) /\ TrackOk(pc, call, Handle)
    BY <1>1, AtStep
  <1>3. SeekEnds(call, Handle, "IO") \/ SeekEnds(call, f, "NONE")  BY DEF Fill, Loaded
  <1>4. CASE SeekEnds(call, Handle, "IO")  BY <1>1, <1>2, <1>4, SeekEndsHandled
  <1>5. CASE SeekEnds(call, f, "NONE")
    <2>1. Handle.sect \in Sectors /\ ~Handle.dirty  BY <1>1, <1>2 DEF CallOk, TrackOk
    <2>2. f \in HandleSet /\ f.buf = data[Handle.sect] /\ f.at = Handle.sect
      <3> DEFINE b == data[Handle.sect]
                 s == Handle.sect
      <3>1. b \in Buffers /\ s \in Spots /\ f = Loaded(Handle, b, s)  BY <1>2, <2>1 DEF Spots
      <3>2. Handle \in HandleSet  BY <1>2
      <3> HIDE DEF f, b, s
      <3>3. f \in HandleSet /\ f.buf = b /\ f.at = s  BY <3>1, <3>2, LoadedIs
      <3> QED BY <3>3 DEF b, s
    <2>3. Level(hs[h], data, lost)  BY <1>2, <2>1 DEF Whole, Coherent
    <2> HIDE DEF f
    <2>4. /\ hs'[h].buf = f.buf /\ hs'[h].at = f.at /\ call'.h \in {h, "none"}
          /\ \A k \in Handles \ {h} : hs'[k] = hs[k]
      BY <1>2, <1>5, <2>2, SeekDoneIs
    <2>5. Twins(h)  BY <1>2, <2>4, AloneTwins
    <2>6. Levels(h)  BY <1>1, <2>2, <2>3, <2>4 DEF Levels, Level
    <2> QED BY <2>5, <2>6 DEF Handled
  <1> QED BY <1>3, <1>4, <1>5

LEMMA ReadChunkHandled ==
    ASSUME IInv, ~spoilt, ReadChunk
    PROVE  Handled(call.h)
  <1>1. pc = "chunk" /\ call.op = "read" /\ UNCHANGED data /\ pc # "idle" /\ Handling  BY DEF ReadChunk, IInv
  <1>2. /\ hs \in [Handles -> HandleSet] /\ call.h \in Handles /\ call \in CallSet
        /\ Handle \in HandleSet /\ Handle = hs[call.h]
        /\ call.len \in 0 .. MaxLen
        /\ call.len \in Nat /\ Handle.offset \in Nat /\ Handle.size \in Nat
    BY <1>1, AtChunk
  <1>3. CASE call.len > 0 /\ Handle.offset < Handle.size
    <2> DEFINE n == call.len - Cnt
               d == [call EXCEPT !.len = n]
               off == Handle.offset + Cnt
    <2>1. SeekBegins(d, Handle, off)  BY <1>1, <1>3 DEF ReadChunk
    <2>2. Cnt \in 1 .. call.len
      <3>1. /\ Cnt \in 1 .. call.len /\ Cnt <= SectSize - Idx /\ Idx \in 0 .. (SectSize - 1)
        BY <1>2, <1>3, ChunkBounds DEF Cnt, Idx
      <3> QED BY <3>1
    <2>3. n \in 0 .. MaxLen /\ off \in Int  BY <1>2, <2>2, Constants
    <2> HIDE DEF n, off
    <2>4. SameCall(d, call)
      <3>1. d = [call EXCEPT !.len = n] /\ call \in CallSet  BY <1>2
      <3> HIDE DEF d
      <3> QED BY <2>3, <3>1, LessLeft
    <2> HIDE DEF d
    <2>5. d \in CallSet /\ d.h = call.h /\ d.op # "open"  BY <1>1, <2>4 DEF SameCall
    <2>6. Little(call.h, Handle)  BY <1>2, <2>1, <2>3, <2>5, SeekBeginsLittle
    <2> QED BY <1>1, <2>6, StepLittle
  <1>4. CASE ~(call.len > 0 /\ Handle.offset < Handle.size)
    <2>1. Returns(call.op, "NONE") /\ UNCHANGED hs  BY <1>1, <1>4 DEF ReadChunk
    <2> QED BY <1>1, <2>1, UnmovedHandled DEF Returns
  <1> QED BY <1>3, <1>4

LEMMA PutBytesAre ==
    ASSUME NEW f \in HandleSet, NEW n \in Nat
    PROVE  Put1(PutBytes(f, n), f.buf, f.offset % SectSize, n, call.val)
  <1>1. DOMAIN f.buf = 0 .. (SectSize - 1)
    <2>1. f.buf \in Buffers  BY HandleIs
    <2> QED BY <2>1 DEF Buffers
  <1> QED BY <1>1, Zenon DEF PutBytes, Put1

LEMMA WriteChunkHandled ==
    ASSUME IInv, ~spoilt, WriteChunk
    PROVE  Handled(call.h)
  <1> DEFINE h == call.h
  <1>1. pc = "chunk" /\ call.op = "write" /\ UNCHANGED data /\ pc # "idle" /\ Handling  BY DEF WriteChunk, IInv
  <1>2. /\ hs \in [Handles -> HandleSet] /\ h \in Handles /\ call \in CallSet
        /\ Handle \in HandleSet /\ Handle = hs[h] /\ Ready(Handle) /\ call.val \in Vals
        /\ ChunkOk(call, Handle) /\ call.len \in 0 .. MaxLen
        /\ call.len \in Nat /\ Handle.offset \in Nat
    BY <1>1, AtChunk
  <1>3. CASE call.len > 0
    <2> DEFINE n == Min2(call.len, SectSize - Idx)
               l == call.len - n
               d == [call EXCEPT !.len = l]
               b == PutBytes(Handle, n)
               f == Written(Handle, b)
               off == Handle.offset + n
    <2>1. SeekBegins(d, f, off)  BY <1>1, <1>3 DEF WriteChunk, Written
    <2>2. n \in 1 .. call.len /\ n <= SectSize - (Handle.offset % SectSize)
      <3>1. /\ n \in 1 .. call.len /\ n <= SectSize - Idx
        BY <1>2, <1>3, ChunkBounds DEF Idx
      <3> QED BY <3>1 DEF Idx
    <2> HIDE DEF n
    <2>3. l \in 0 .. MaxLen /\ off \in Int /\ off >= Handle.offset /\ n \in Nat /\ n > 0  BY <1>2, <2>2, Constants
    <2> HIDE DEF l, off
    <2>4. SameCall(d, call)
      <3>1. d = [call EXCEPT !.len = l] /\ call \in CallSet  BY <1>2
      <3> HIDE DEF d
      <3> QED BY <2>3, <3>1, LessLeft
    <2> HIDE DEF d
    <2>5. d \in CallSet /\ d.h = h /\ d.op = "write"  BY <1>1, <2>4 DEF SameCall
    <2>6. Put1(b, Handle.buf, Handle.offset % SectSize, n, call.val)  BY <1>2, <2>3, PutBytesAre
    <2>7. b \in Buffers  BY <1>2, PutBytesIs
    <2> HIDE DEF b
    <2>8. /\ f \in HandleSet /\ f.offset = Handle.offset /\ f.buf = b /\ f.at = Handle.at /\ f.open = Handle.open /\ f.dirty
      <3>1. Handle \in HandleSet /\ f = Written(Handle, b)  BY <1>2
      <3> HIDE DEF f
      <3> QED BY <2>7, <3>1, WrittenIs DEF Placed
    <2> HIDE DEF f
    <2>9. Little(h, f) /\ call'.h = h /\ hs'[h].offset = f.offset
      BY <1>2, <2>1, <2>3, <2>5, <2>8, SeekBeginsLittle
    <2>10. Handle.open /\ Handle.at \in Sectors /\ Handle.at # NoSect  BY <1>2, Constants DEF Ready
    <2>11. hs'[h].open /\ hs'[h].at = Handle.at /\ hs'[h].buf = b /\ hs'[h].dirty
      BY <2>8, <2>9, <2>10 DEF Little
    <2>12. Handle.at = Handle.offset \div SectSize
      <3>1. Sane(Handle)
        <4>1. call.len # 0  BY <1>2, <1>3
        <4> QED BY <1>2, <4>1 DEF ChunkOk
      <3>2. Handle.at = SectAt(Clust(Handle.offset) + 1, Handle.offset)  BY <3>1 DEF Sane, Clust
      <3> QED BY <1>2, <3>2, SectAtIs
    <2>13. LiveNow(h) /\ LiveThen(h)  BY <1>2, <2>9, <2>10, <2>11 DEF LiveNow, LiveThen, Live
    <2>14. Changes(h)
      <3>1. /\ data' = data /\ LiveNow(h) /\ LiveThen(h) /\ hs'[h].dirty
            /\ hs'[h].at = hs[h].at /\ hs[h].at = hs[h].offset \div SectSize /\ hs[h].at \in Sectors
            /\ hs[h].offset \in Nat /\ hs'[h].offset = hs[h].offset
        BY <1>1, <1>2, <2>8, <2>9, <2>10, <2>11, <2>12, <2>13
      <3>2. /\ n \in Nat /\ call.val \in Vals /\ n > 0 /\ n <= SectSize - (hs[h].offset % SectSize)
            /\ Put1(hs'[h].buf, hs[h].buf, hs[h].offset % SectSize, n, call.val)
        BY <1>2, <2>2, <2>3, <2>6, <2>11
      <3> QED BY <3>1, <3>2 DEF Changes
    <2>15. Twins(h)  BY <1>2, <2>9, AloneTwins DEF Little
    <2> QED BY <2>14, <2>15 DEF Handled
  <1>4. CASE ~(call.len > 0)
    <2> DEFINE n == SizeAfter(Handle)
               f == [Handle EXCEPT !.size = n]
    <2>1. hs' = [hs EXCEPT ![h] = f] /\ Returns(call.op, "NONE")  BY <1>1, <1>2, <1>4 DEF WriteChunk
    <2> HIDE DEF n
    <2>2. f.open = Handle.open /\ f.at = Handle.at /\ f.buf = Handle.buf /\ f.dirty = Handle.dirty
      BY <1>2 DEF HandleSet
    <2>3. call'.h = "none"  BY <2>1, NoCallIs DEF Returns
    <2> HIDE DEF f
    <2>4. Little(h, f)  BY <1>2, <2>1, <2>3 DEF Little
    <2> QED BY <1>1, <2>2, <2>4, StepLittle
  <1> QED BY <1>3, <1>4

LEMMA PutHandled ==
    ASSUME IInv, ~spoilt, Put
    PROVE  Handled(call.h)
  <1> DEFINE h == call.h
  <1>1. pc = "put" /\ pc \in Closing /\ pc # "idle" /\ UNCHANGED hs  BY DEF Put, Closing
  <1>2. /\ hs \in [Handles -> HandleSet] /\ h \in Handles
        /\ Handle = hs[h] /\ CallOk(pc, call, Handle) /\ TrackOk(pc, call, Handle)
        /\ Handle.open => LiveNow(h)
    BY <1>1, AtStep
  <1>3. Handle.open /\ LiveNow(h) /\ Handle.at = Handle.sect
    BY <1>1, <1>2 DEF CallOk, Ready, TrackOk, Sane
  <1>4. Stored(Handle.sect) = PutBack(h)  BY <1>2, <1>3 DEF Stored, PutBack
  <1>5. data' \in {data, PutBack(h)} /\ (call' = NoCall \/ call' = call)  BY <1>4 DEF Put, Returns
  <1>7. Twins(h)  BY <1>1, <1>2, <1>5, AloneTwins, NoCallIs
  <1>8. Remains(h)  BY <1>1, <1>2, <1>3, <1>5 DEF Remains
  <1> QED BY <1>7, <1>8 DEF Handled

LEMMA TouchHandled ==
    ASSUME IInv, ~spoilt, Touch
    PROVE  Handled(call.h)
  <1> DEFINE h == call.h
  <1>1. pc = "touch" /\ pc \in Closing /\ pc # "idle" /\ UNCHANGED data  BY DEF Touch, SyncFails, Closing
  <1>2. /\ hs \in [Handles -> HandleSet] /\ h \in Handles
        /\ Handle = hs[h] /\ CallOk(pc, call, Handle) /\ (Handle.open => LiveNow(h))
    BY <1>1, AtStep
  <1>3. CASE UNCHANGED hs /\ call' = NoCall  BY <1>1, <1>3, UnmovedHandled
  <1>4. CASE /\ hs' = [g \in Handles |->
                        IF g # call.h /\ hs[g].open /\ Handle.mod
                        THEN [hs[g] EXCEPT !.late = TRUE] ELSE hs[g]]
             /\ call' = call
    <2>1. ASSUME NEW k \in Handles \ {h} PROVE Twin(hs'[k], hs[k])
      <3>1. hs[k] \in HandleSet  BY <1>2
      <3>2. CASE hs'[k] = hs[k]  BY <3>2 DEF Twin
      <3>3. CASE hs'[k] = [hs[k] EXCEPT !.late = TRUE]
        <4>1. Held(hs'[k], hs[k])  BY <3>1, <3>3, LateIs
        <4> QED BY <4>1 DEF Held, Placed, Twin, Astray, Sane
      <3> QED BY <1>4, <3>2, <3>3
    <2>2. hs'[h] = hs[h]  BY <1>2, <1>4
    <2>3. Twins(h)  BY <1>2, <1>4, <2>1, Constants DEF Twins
    <2>4. Handle.open  BY <1>1, <1>2 DEF CallOk, Ready
    <2>5. Remains(h)  BY <1>1, <1>2, <2>2, <2>4 DEF Remains
    <2> QED BY <2>3, <2>5 DEF Handled
  <1> QED BY <1>3, <1>4 DEF Touch, SyncFails, Returns

LEMMA FlushHandled ==
    ASSUME IInv, ~spoilt, Flush
    PROVE  Handled(call.h)
  <1> DEFINE h == call.h
  <1>1. pc = "flush" /\ pc \in Closing /\ pc # "idle" /\ UNCHANGED data  BY DEF Flush, SyncFails, Closing
  <1>2. /\ hs \in [Handles -> HandleSet] /\ h \in Handles
        /\ Handle \in HandleSet /\ Handle = hs[h] /\ TrackOk(pc, call, Handle)
    BY <1>1, AtStep
  <1>3. call' = NoCall /\ call'.h = "none"  BY NoCallIs DEF Flush, SyncFails, Returns
  <1>4. CASE UNCHANGED hs  BY <1>1, <1>3, <1>4, UnmovedHandled
  <1>5. CASE hs' = [hs EXCEPT ![h] = NoHandle]
    <2>1. Handle.buf = data[Handle.at]  BY <1>1, <1>2 DEF IInv, SizesOk, TrackOk, Sane
    <2>2. Levels(h)  BY <1>1, <1>2, <1>5, <2>1, ClosedIs DEF Levels, Level
    <2>3. Twins(h)  BY <1>2, <1>3, <1>5, AloneTwins
    <2> QED BY <2>2, <2>3 DEF Handled
  <1>6. CASE hs' = [hs EXCEPT ![h] = Marked(Handle, FALSE, FALSE)]
    <2>1. Held(Marked(Handle, FALSE, FALSE), Handle)  BY <1>2, CleanIs
    <2>2. Little(h, Handle)  BY <1>2, <1>3, <1>6, <2>1 DEF Little, Held
    <2> QED BY <1>1, <2>2, StepLittle
  <1> QED BY <1>2, <1>4, <1>5, <1>6 DEF Flush, SyncFails, Marked
-----------------------------------------------------------------------------
(* A call begins with a handle that is not astray. *)
LEMMA BeginHandled ==
    ASSUME IInv, Begin, ~spoilt'
    PROVE  ~spoilt /\ \E h \in Handles : Handled(h)
  <1> DEFINE starts == pc = "idle" /\ ~spoilt /\ UNCHANGED data
  <1>1. starts
    <2>1. ASSUME NEW h, NEW fl, BeginOpen(h, fl) PROVE starts  BY <2>1 DEF BeginOpen, Begins
    <2>2. ASSUME NEW h, NEW op, NEW n, NEW v, BeginTransfer(op, h, n, v) PROVE starts
      BY <2>2 DEF BeginTransfer, Begins
    <2>3. ASSUME NEW h, NEW off, NEW w, BeginSeek(h, off, w) PROVE starts  BY <2>3 DEF BeginSeek
    <2>4. ASSUME NEW h, NEW op, BeginSync(op, h) PROVE starts  BY <2>4 DEF BeginSync, Begins
    <2> HIDE DEF starts
    <2> QED BY <2>1, <2>2, <2>3, <2>4 DEF Begin
  <1>2. /\ hs \in [Handles -> HandleSet] /\ \A h \in Handles : Rests(hs[h])
        /\ call.h = "none" /\ NoCall \in CallSet
    <2>1. HandlesFit /\ call = NoCall  BY <1>1 DEF IInv, Handling, CallFits, CallOk
    <2> QED BY <1>1, <2>1, NoCallIs DEF HandlesFit, Running
  <1>3. ASSUME NEW h \in Handles, hs[h].open, spoilt' = Astray(hs[h]), NEW f, Little(h, f), f.open = hs[h].open,
               f.at = hs[h].at, f.buf = hs[h].buf, f.dirty = hs[h].dirty
        PROVE  Handled(h)
    <2>1. LiveNow(h)  BY <1>3 DEF LiveNow, Live
    <2> QED BY <1>1, <1>2, <1>3, <2>1, LittleHandled
  <1>4. ASSUME NEW h \in Handles, NEW op \in Ops PROVE Asks(NoCall, op, h) \in CallSet /\ Asks(NoCall, op, h).h = h
                                                      /\ Asks(NoCall, op, h).op = op
    BY <1>2, AsksIs
  <1>5. ASSUME NEW h \in Handles, NEW fl \in Flags, BeginOpen(h, fl) PROVE Handled(h)
    <2>1. ~hs[h].open /\ UNCHANGED hs /\ call' = Opens(NoCall, h, fl)  BY <1>5 DEF BeginOpen, Begins, Opens
    <2>2. fl \in SUBSET AllFlags  BY FileAssumption DEF AllFlags
    <2>3. call'.h = h  BY <1>2, <2>1, <2>2, OpensIs
    <2>4. Twins(h)  BY <1>2, <2>1, <2>3, AloneTwins
    <2>5. Levels(h)  BY <1>1, <2>1 DEF Levels, Level
    <2> QED BY <2>4, <2>5 DEF Handled
  <1>6. ASSUME NEW h \in Handles, NEW op \in {"read", "write"}, NEW n \in 1 .. MaxLen, NEW v \in Vals \cup {0},
               BeginTransfer(op, h, n, v)
        PROVE  Handled(h)
    <2> DEFINE c == Copies(NoCall, op, h, n, v)
    <2>1. hs[h].open /\ hs' = [hs EXCEPT ![h] = Marked(hs[h], TRUE, hs[h].mod \/ op = "write")] /\ Begins(c)
      BY <1>2, <1>6 DEF BeginTransfer, Marked, Copies
    <2>2. c.h = h
      <3>1. n \in 0 .. MaxLen /\ op \in Ops  BY Constants DEF Ops
      <3> QED BY <1>2, <3>1, CopiesIs
    <2> HIDE DEF c
    <2>3. hs[h] \in HandleSet /\ (hs[h].mod \/ op = "write") \in BOOLEAN  BY <1>2
    <2>4. Held(Marked(hs[h], TRUE, hs[h].mod \/ op = "write"), hs[h])  BY <2>3, TouchedIs
    <2>5. spoilt' = Astray(hs[h]) /\ call'.h = h  BY <2>1, <2>2 DEF Begins
    <2>6. Little(h, hs[h])  BY <1>2, <2>1, <2>4, <2>5 DEF Little, Held
    <2> QED BY <1>3, <2>1, <2>5, <2>6
  <1>7. ASSUME NEW h \in Handles, NEW op \in {"sync", "close"}, BeginSync(op, h) PROVE Handled(h)
    <2>1. hs[h].open /\ UNCHANGED hs /\ Begins(Asks(NoCall, op, h))  BY <1>7 DEF BeginSync, Asks
    <2>2. Asks(NoCall, op, h).h = h  BY <1>4 DEF Ops
    <2>3. spoilt' = Astray(hs[h]) /\ call'.h = h  BY <2>1, <2>2 DEF Begins
    <2>4. Little(h, hs[h])  BY <2>1, <2>3 DEF Little
    <2> QED BY <1>3, <2>1, <2>3, <2>4
  <1>8. ASSUME NEW h \in Handles, NEW off \in Seeks, NEW w \in {"START", "CURR", "END"}, BeginSeek(h, off, w)
        PROVE  Handled(h)
    <2> DEFINE c == Asks(NoCall, "seek", h)
               to == Base(hs[h], w) + off
    <2>1. hs[h].open /\ spoilt' = Astray(hs[h]) /\ SeekBegins(c, hs[h], to)  BY <1>8 DEF BeginSeek, Asks
    <2>2. c \in CallSet /\ c.h = h /\ c.op = "seek"  BY <1>4 DEF Ops
    <2>3. to \in Int
      <3>1. hs[h] \in HandleSet  BY <1>2
      <3>2. Base(hs[h], w) \in Int  BY <3>1, HandleIs, Constants DEF Base
      <3> QED BY <3>2, FileAssumption
    <2> HIDE DEF c, to
    <2>4. Little(h, hs[h])  BY <1>2, <2>1, <2>2, <2>3, SeekBeginsLittle
    <2> QED BY <1>3, <2>1, <2>4
  <1>9. \E h \in Handles : Handled(h)
    <2>1. PICK h \in Handles :
          \/ \E flags \in Flags : BeginOpen(h, flags)
          \/ \E op \in Uses \cap {"read", "write"}, n \in 1 .. MaxLen :
               \E v \in IF op = "write" THEN Vals ELSE {0} : BeginTransfer(op, h, n, v)
          \/ \E off \in Seeks, w \in {"START", "CURR", "END"} :
               "seek" \in Uses /\ BeginSeek(h, off, w)
          \/ \E op \in Uses \cap {"sync", "close"} : BeginSync(op, h)
      BY DEF Begin
    <2> QED BY <1>5, <1>6, <1>7, <1>8, <2>1
  <1> QED BY <1>1, <1>9

LEMMA StepHandled ==
    ASSUME IInv, ~spoilt, Whole, Step
    PROVE  \E h \in Handles : Handled(h)
  <1>1. call.h \in Handles
    <2>1. pc # "idle"
      BY DEF Step, Find, Follow, Stretch, StretchSync, Arrive, Back, Fill, ReadChunk, WriteChunk, Put, Touch, Flush
    <2> QED BY <2>1, AtStep
  <1>2. Handled(call.h)
    BY FindHandled, FollowHandled, StretchHandled, ArriveHandled, BackHandled, FillHandled, ReadChunkHandled,
       WriteChunkHandled, PutHandled, TouchHandled, FlushHandled DEF Step
  <1> QED BY <1>1, <1>2

(* What is shared is accounted for, and the buffers fit together. *)
FileInv == IInv /\ Accounted /\ (~spoilt => Whole)

LEMMA LostGrows ==
    ASSUME Next
    PROVE  Accounted' /\ \A h \in Handles : hs'[h].open => lost \subseteq lost'
  <1>1. lost' = IF \E h \in Handles : hs'[h].open THEN lost \cup SharedNow' ELSE {}  BY DEF Next
  <1>2. CASE \E h \in Handles : hs'[h].open
    <2>1. lost' = lost \cup SharedNow'  BY <1>1, <1>2
    <2> QED BY <2>1 DEF Accounted
  <1>3. CASE \A h \in Handles : ~hs'[h].open
    <2>1. SharedNow' = {}  BY <1>3 DEF SharedNow, Has
    <2> QED BY <1>3, <2>1 DEF Accounted
  <1> QED BY <1>2, <1>3

LEMMA InitFile == Init => FileInv /\ File!Init
  <1> SUFFICES ASSUME Init PROVE FileInv /\ File!Init  OBVIOUS
  <1>1. IInv  BY InitFits
  <1>2. hs = [h \in Handles |-> NoHandle] /\ lost = {} /\ spoilt = FALSE  BY DEF Init, Closed
  <1>3. Accounted  BY <1>2, ClosedIs DEF Accounted, SharedNow, Has
  <1>4. Whole  BY <1>2, ClosedIs DEF Whole, Coherent, Level, Apart
  <1>5. \A s : Holders(hs, call.h, s) = {}  BY <1>2, ClosedIs DEF Holders
  <1>6. \A s : Shows(s) = data[s]  BY <1>5 DEF Shows, ShownBy
  <1>7. \A i \in Bytes : Seen(i) = data[i \div SectSize][i % SectSize]  BY <1>6, SeenIs
  <1>8. ASSUME NEW i \in Bytes PROVE data[i \div SectSize][i % SectSize] \in Nat
    <2>1. i \div SectSize \in Sectors /\ i % SectSize \in 0 .. (SectSize - 1)  BY ByteIs
    <2>2. data[i \div SectSize] \in Buffers  BY <1>1, <2>1 DEF IInv, MediumFits
    <2>3. data[i \div SectSize][i % SectSize] \in Vals  BY <2>1, <2>2 DEF Buffers
    <2> QED BY <2>3, Constants
  <1>9. PosNow = [h \in Handles |-> NoSect]  BY <1>2, ClosedIs DEF PosNow, LiveNow, Live
  <1>10. File!Init  BY <1>2, <1>7, <1>8, <1>9, PosIs DEF File!Init
  <1> QED BY <1>1, <1>3, <1>4, <1>10 DEF FileInv

LEMMA CrashMaps ==
    ASSUME IInv, Crash, ~spoilt'
    PROVE  WholeThen /\ File!Restarts
  <1>1. hs' = [h \in Handles |-> NoHandle] /\ data' = data  BY DEF Crash
  <1>2. WholeThen  BY <1>1, ClosedIs DEF WholeThen, Coherent, Level, Apart
  <1>3. PosThen = [h \in Handles |-> NoSect]  BY <1>1, ClosedIs DEF PosThen, LiveThen, Live
  <1>4. \A s : Holders(hs', call'.h, s) = {}  BY <1>1, ClosedIs DEF Holders
  <1>5. \A s : ShowsThen(s) = data'[s]  BY <1>4 DEF ShowsThen, ShownBy
  <1>6. \A i \in Bytes : Seen(i)' = (data[i \div SectSize][i % SectSize])'  BY <1>5, SeenIs
  <1>7. \A i \in Bytes : (data[i \div SectSize][i % SectSize])' = data[i \div SectSize][i % SectSize]  BY <1>1
  <1> QED BY <1>2, <1>3, <1>6, <1>7, PosIs DEF File!Restarts, File!Same, File!Sector

(* A step of the code is one of the array of bytes, or the last of which   *)
(* anything is promised.                                                   *)
LEMMA NextMaps ==
    ASSUME FileInv, IInv', Next
    PROVE  (~spoilt' => WholeThen) /\ File!Next
  <1>1. CASE spoilt'  BY <1>1 DEF File!Next
  <1>2. CASE ~spoilt'
    <2>1. Accounted' /\ \A h \in Handles : hs'[h].open => lost \subseteq lost'  BY LostGrows
    <2>2. Writers'
      <3>1. IInv' => Writers'  BY WritersAre, PTL
      <3> QED BY <3>1
    <2>3. data \in [Sectors -> Buffers]  BY DEF FileInv, IInv, MediumFits
    <2>4. ASSUME ~spoilt, NEW h \in Handles, Handled(h)
          PROVE  WholeThen /\ (File!Moves \/ File!Writes \/ File!Settles \/ File!Fails)
      <3>1. Whole  BY <2>4 DEF FileInv
      <3>2. WholeThen  BY <2>1, <2>2, <2>3, <2>4, <3>1, StaysWhole
      <3> QED BY <2>3, <2>4, <3>1, <3>2, HandledMaps
    <2>5. WholeThen /\ (File!Moves \/ File!Writes \/ File!Settles \/ File!Fails \/ File!Restarts)
      <3>1. CASE Begin
        <4>1. ~spoilt /\ \E h \in Handles : Handled(h)  BY <1>2, <3>1, BeginHandled DEF FileInv
        <4> QED BY <2>4, <4>1
      <3>2. CASE Step /\ UNCHANGED spoilt
        <4>1. ~spoilt /\ Whole  BY <1>2, <3>2 DEF FileInv
        <4>2. \E h \in Handles : Handled(h)  BY <3>2, <4>1, StepHandled DEF FileInv
        <4> QED BY <2>4, <4>1, <4>2
      <3>3. CASE Crash  BY <1>2, <3>3, CrashMaps DEF FileInv
      <3> QED BY <3>1, <3>2, <3>3 DEF Next
    <2>6. \A h \in Handles : hs'[h].offset # NoSect
      <3> TAKE h \in Handles
      <3>1. hs'[h] \in HandleSet  BY DEF IInv, Handling, HandlesFit
      <3> QED BY <3>1, HandleIs, Constants DEF NoSect
    <2>7. (\A h \in Handles : PosThen[h] = NoSect) =>
             [i \in Bytes |-> Seen(i)]' = [i \in Bytes |-> data[i \div SectSize][i % SectSize]]'
      BY <2>6, LastShows
    <2>8. File!Keep  BY <1>2, <2>5, <2>7, PosIs DEF File!Keep
    <2> QED BY <2>5, <2>8 DEF File!Next
  <1> QED BY <1>1, <1>2

LEMMA StepMaps == FileInv /\ [Next]_vars => FileInv' /\ [File!Next]_(File!vars)
  <1> SUFFICES ASSUME FileInv, [Next]_vars PROVE FileInv' /\ [File!Next]_(File!vars)  OBVIOUS
  <1>1. IInv'  BY NextFits DEF FileInv
  <1>2. CASE Next
    <2>1. Accounted'  BY <1>2, LostGrows
    <2>2. (~spoilt' => WholeThen) /\ File!Next  BY <1>1, <1>2, NextMaps
    <2>3. WholeThen <=> Whole'  BY DEF WholeThen, Whole, Coherent, Level, Apart
    <2> QED BY <1>1, <2>1, <2>2, <2>3 DEF FileInv
  <1>3. CASE UNCHANGED vars
    <2>1. Accounted' /\ (Whole' <=> Whole)
      BY <1>3 DEF vars, FileInv, Accounted, SharedNow, Has, Whole, Coherent, Level, Apart
    <2>2. FileInv'  BY <1>1, <1>3, <2>1 DEF FileInv, vars
    <2>3. UNCHANGED File!vars
      <3>1. \A i : Seen(i)' = Seen(i)  BY <1>3 DEF vars, Seen, Holds, Has, Astray, Sane
      <3>2. PosThen = PosNow  BY <1>3 DEF vars, PosThen, PosNow, LiveNow, LiveThen
      <3> QED BY <1>3, <3>1, <3>2, PosIs DEF vars, File!vars
    <2> QED BY <2>2, <2>3
  <1> QED BY <1>2, <1>3

(* Through a handle the file is an array of bytes: what is read is what    *)
(* was last written, buffers and seeks do not show, and a failed call      *)
(* takes back one sector at most.                                          *)
THEOREM FileIsBytes == Spec => ImplementsFile
  <1>1. Init => FileInv /\ File!Init  BY InitFile
  <1>2. FileInv /\ [Next]_vars => FileInv' /\ [File!Next]_(File!vars)  BY StepMaps
  <1> QED BY <1>1, <1>2, PTL DEF Spec, ImplementsFile, File!Spec
-----------------------------------------------------------------------------
(* Handles that are only read.  None has anything to write, and nobody     *)
(* asks for one that could.                                                *)
Changing == {"WRITE", "TRUNC"}
ReadOnly == \A fl \in Flags : fl \cap Changing = {}

Meek(f) == ~f.mod /\ ~f.late /\ f.flags \cap Changing = {}
Reading == call.flags \cap Changing = {} /\ \A h \in Handles : Meek(hs[h])

LEMMA MeekMoves ==
    ASSUME Reading, NEW h \in Handles, NEW f, Meek(f), hs \in [Handles -> HandleSet],
           hs' = [hs EXCEPT ![h] = f], call'.flags \cap Changing = {}
    PROVE  Reading'
  <1>1. \A k \in Handles : hs'[k] = f \/ hs'[k] = hs[k]  OBVIOUS
  <1> QED BY <1>1 DEF Reading, Meek

LEMMA ShutIsMeek == Meek(NoHandle) /\ NoCall.flags = {}
  BY DEF Meek, NoHandle, NoCall

LEMMA SeekEndsReading ==
    ASSUME Reading, NEW c \in CallSet, c.h \in Handles, c.flags \cap Changing = {}, NEW f \in HandleSet, Meek(f),
           NEW e, SeekEnds(c, f, e), hs \in [Handles -> HandleSet]
    PROVE  Reading'
  <1> DEFINE b == f.hurt \/ e = "IO" \/ (e = "FULL" /\ c.op \in {"open", "seek"})
             g == [f EXCEPT !.hurt = b]
             n == IF e = "NONE" THEN c.len ELSE 0
             d == [c EXCEPT !.len = n, !.ssect = NoSect, !.off = 0, !.left = 0]
             k == IF c.op = "open" /\ e # "NONE" THEN NoHandle ELSE g
  <1>1. hs' = [hs EXCEPT ![c.h] = k] /\ IF AfterSeek(c.op, e) THEN Returns(c.op, e) ELSE call' = d
    BY DEF SeekEnds
  <1>2. g.mod = f.mod /\ g.late = f.late /\ g.flags = f.flags  BY DEF HandleSet
  <1>3. d.flags = c.flags
    <2> HIDE DEF n
    <2> QED BY DEF CallSet
  <1> HIDE DEF g, d
  <1>4. Meek(k)  BY <1>2, ShutIsMeek DEF Meek
  <1>5. call'.flags \cap Changing = {}  BY <1>1, <1>3, ShutIsMeek DEF Returns
  <1> HIDE DEF k
  <1> QED BY <1>1, <1>4, <1>5, MeekMoves

LEMMA SeekBeginsReading ==
    ASSUME Reading, NEW c \in CallSet, c.h \in Handles, c.flags \cap Changing = {}, NEW f \in HandleSet, Meek(f),
           NEW off, SeekBegins(c, f, off), hs \in [Handles -> HandleSet]
    PROVE  Reading'
  <1>1. CASE off < 0 \/ off > MaxOff
    <2>1. SeekEnds(c, f, "EOF")  BY <1>1 DEF SeekBegins
    <2> QED BY <2>1, SeekEndsReading
  <1>2. CASE ~(off < 0 \/ off > MaxOff)
    <2> DEFINE g == IF off \div ClustSize < f.offset \div ClustSize THEN Backtrack(f) ELSE f
               l == (off \div ClustSize) - (g.offset \div ClustSize)
               d == [c EXCEPT !.ssect = f.sect, !.off = off, !.left = l]
    <2>1. hs' = [hs EXCEPT ![c.h] = g] /\ call' = d  BY <1>2 DEF SeekBegins
    <2>2. g.mod = f.mod /\ g.late = f.late /\ g.flags = f.flags  BY DEF HandleSet, Backtrack
    <2>3. d.flags = c.flags
      <3> HIDE DEF l
      <3> QED BY DEF CallSet
    <2> HIDE DEF g, d
    <2>4. Meek(g)  BY <2>2 DEF Meek
    <2> QED BY <2>1, <2>3, <2>4, MeekMoves
  <1> QED BY <1>1, <1>2

LEMMA BeginReads ==
    ASSUME IInv, Reading, ReadOnly, Begin
    PROVE  Reading'
  <1>1. hs \in [Handles -> HandleSet]  BY DEF IInv, Handling, HandlesFit
  <1>2. NoCall \in CallSet /\ NoCall.flags = {}  BY NoCallIs, ShutIsMeek
  <1>3. \A h \in Handles : hs[h] \in HandleSet /\ Meek(hs[h])  BY <1>1 DEF Reading
  <1>4. ASSUME NEW h \in Handles, NEW fl \in Flags, BeginOpen(h, fl) PROVE Reading'
    <2>1. call' = Opens(NoCall, h, fl) /\ UNCHANGED hs  BY <1>4 DEF BeginOpen, Begins, Opens
    <2>2. call'.flags = fl  BY <1>2, <2>1 DEF Opens, CallSet
    <2>3. fl \cap Changing = {}  BY DEF ReadOnly
    <2> QED BY <2>1, <2>2, <2>3 DEF Reading, Meek
  <1>5. ASSUME NEW h \in Handles, NEW op \in {"read", "write"}, NEW n, NEW v, BeginTransfer(op, h, n, v)
        PROVE  Reading'
    <2> DEFINE f == [hs[h] EXCEPT !.acc = TRUE, !.mod = @ \/ op = "write"]
    <2>1. /\ call' = Copies(NoCall, op, h, n, v) /\ hs' = [hs EXCEPT ![h] = f]
          /\ op = "write" => "WRITE" \in hs[h].flags
      BY <1>1, <1>5 DEF BeginTransfer, Begins, Copies, Denied
    <2>2. op # "write"  BY <1>3, <2>1 DEF Meek, Changing
    <2>3. ~f.mod /\ f.late = hs[h].late /\ f.flags = hs[h].flags
      <3>1. hs[h] \in HandleSet /\ ~hs[h].mod  BY <1>3 DEF Meek
      <3> QED BY <2>2, <3>1 DEF HandleSet
    <2>4. call'.flags = {}  BY <1>2, <2>1 DEF Copies, CallSet
    <2> HIDE DEF f
    <2>5. Meek(f)  BY <1>3, <2>3 DEF Meek
    <2> QED BY <1>1, <2>1, <2>4, <2>5, MeekMoves
  <1>6. ASSUME NEW h \in Handles, NEW op, BeginSync(op, h) PROVE Reading'
    <2>1. call' = Asks(NoCall, op, h) /\ UNCHANGED hs  BY <1>6 DEF BeginSync, Begins, Asks
    <2>2. call'.flags = {}  BY <1>2, <2>1 DEF Asks, CallSet
    <2> QED BY <2>1, <2>2 DEF Reading, Meek
  <1>7. ASSUME NEW h \in Handles, NEW off, NEW w, BeginSeek(h, off, w) PROVE Reading'
    <2> DEFINE c == Asks(NoCall, "seek", h)
    <2>1. SeekBegins(c, hs[h], Base(hs[h], w) + off)  BY <1>7 DEF BeginSeek, Asks
    <2>2. c \in CallSet /\ c.h = h
      <3>1. "seek" \in Ops /\ c = Asks(NoCall, "seek", h)  BY DEF Ops
      <3> HIDE DEF c
      <3> QED BY <1>2, <3>1, AsksIs
    <2>3. c.flags \cap Changing = {}  BY <1>2 DEF Asks, CallSet
    <2> HIDE DEF c
    <2> QED BY <1>1, <1>3, <2>1, <2>2, <2>3, SeekBeginsReading
  <1> QED BY <1>4, <1>5, <1>6, <1>7 DEF Begin

LEMMA StepReads ==
    ASSUME IInv, Reading, Step
    PROVE  Reading'
  <1>1. pc # "idle" /\ Handling
    BY DEF Step, IInv, Find, Follow, Stretch, StretchSync, Arrive, Back, Fill, ReadChunk, WriteChunk, Put, Touch, Flush
  <1>2. /\ hs \in [Handles -> HandleSet] /\ call.h \in Handles /\ call \in CallSet
        /\ Handle \in HandleSet /\ Handle = hs[call.h] /\ CallOk(pc, call, Handle)
    BY <1>1, RunningCall
  <1>3. Meek(Handle) /\ call.flags \cap Changing = {}  BY <1>2 DEF Reading
  <1>4. ASSUME NEW e, NEW f \in HandleSet, Meek(f), SeekEnds(call, f, e) PROVE Reading'
    BY <1>2, <1>3, <1>4, SeekEndsReading
  <1>5. ASSUME NEW o, Fails(o) PROVE Reading'  BY <1>2, <1>3, <1>4, <1>5 DEF Fails
  <1>6. ASSUME UNCHANGED hs, call' = call \/ call' = NoCall PROVE Reading'
    BY <1>6, ShutIsMeek DEF Reading, Meek
  <1>7. ASSUME NEW f, f.mod = Handle.mod, f.late = Handle.late, f.flags = Handle.flags,
               hs' = [hs EXCEPT ![call.h] = f], call'.flags \in {{}, call.flags}
        PROVE  Reading'
    <2>1. Meek(f)  BY <1>3, <1>7 DEF Meek
    <2>2. call'.flags \cap Changing = {}  BY <1>3, <1>7
    <2> QED BY <1>2, <1>7, <2>1, <2>2, MeekMoves
  <1>8. ASSUME hs' = [hs EXCEPT ![call.h].clust = @ + 1], call' = [call EXCEPT !.left = @ - 1] PROVE Reading'
    <2> DEFINE n == Handle.clust + 1
               f == [Handle EXCEPT !.clust = n]
               l == call.left - 1
    <2>1. hs' = [hs EXCEPT ![call.h] = f] /\ call' = [call EXCEPT !.left = l]  BY <1>2, <1>8
    <2> HIDE DEF n, l
    <2>2. f.mod = Handle.mod /\ f.late = Handle.late /\ f.flags = Handle.flags  BY <1>2 DEF HandleSet
    <2>3. call'.flags = call.flags  BY <1>2, <2>1 DEF CallSet
    <2> HIDE DEF f
    <2> QED BY <1>7, <2>1, <2>2, <2>3
  <1>9. ASSUME NEW d \in CallSet, d.h = call.h, d.flags = call.flags, NEW f \in HandleSet, Meek(f), NEW off,
               SeekBegins(d, f, off)
        PROVE  Reading'
    BY <1>2, <1>3, <1>9, SeekBeginsReading
  <1>10. CASE Find
    <2>1. PICK o : \/ Fails(o)
                   \/ LET f == OpenSize([NoHandle EXCEPT !.open = TRUE, !.flags = call.flags], o.win.buf.size)
                      IN  o \in UpdateBuf("dir") /\ o.ok
                          /\ SeekBegins(call, f, IF "APPEND" \in f.flags THEN f.size ELSE 0)
      BY <1>10 DEF Find
    <2>2. CASE Fails(o)  BY <1>5, <2>2
    <2>3. CASE ~Fails(o)
      <3> DEFINE f == OpenSize([NoHandle EXCEPT !.open = TRUE, !.flags = call.flags], o.win.buf.size)
                 off == IF "APPEND" \in f.flags THEN f.size ELSE 0
      <3>1. SeekBegins(call, f, off) /\ o \in UpdateBuf("dir") /\ o.ok  BY <2>1, <2>3
      <3>2. o.win.buf.size \in 0 .. MaxOff  BY <3>1, EntryShown DEF IInv
      <3>3. call.flags \in SUBSET AllFlags  BY <1>2, CallIs
      <3>4. f = OpenSize(Blank(call.flags), o.win.buf.size)  BY DEF Blank
      <3>5. f.mod = FALSE
        <4>1. "TRUNC" \notin call.flags  BY <1>3 DEF Changing
        <4> QED BY <4>1, ClosedIs DEF OpenSize, HandleSet
      <3> HIDE DEF f, off
      <3>6. f \in HandleSet /\ ~f.late /\ f.flags = call.flags  BY <3>2, <3>3, <3>4, OpenedIs
      <3>7. Meek(f)  BY <1>3, <3>5, <3>6 DEF Meek
      <3> QED BY <1>2, <1>9, <3>1, <3>6, <3>7
    <2> QED BY <2>1, <2>2, <2>3
  <1>11. CASE Follow  BY <1>5, <1>6, <1>8, <1>11 DEF Follow
  <1>12. CASE Stretch  BY <1>2, <1>3, <1>4, <1>5, <1>6, <1>12 DEF Stretch
  <1>13. CASE StretchSync  BY <1>5, <1>8, <1>13 DEF StretchSync
  <1>14. CASE Arrive
    <2> DEFINE f == Moved(Handle, SectAt(Handle.clust, call.off), call.off)
    <2>1. SeekEnds(call, f, "NONE") \/ (hs' = [hs EXCEPT ![call.h] = f] /\ call' = call)
      BY <1>14 DEF Arrive, Moved
    <2>2. f \in HandleSet /\ f.mod = Handle.mod /\ f.late = Handle.late /\ f.flags = Handle.flags
      <3>1. call.off \in 0 .. MaxOff /\ Handle.clust \in 1 .. MaxClusts  BY <1>2, CallIs, HandleIs
      <3>2. SectAt(Handle.clust, call.off) \in Spots  BY <3>1, SectorOf, Constants DEF Spots
      <3>3. f = Moved(Handle, SectAt(Handle.clust, call.off), call.off)  OBVIOUS
      <3> HIDE DEF f
      <3> QED BY <1>2, <3>1, <3>2, <3>3, PlaceIs DEF Alike
    <2> HIDE DEF f
    <2>3. Meek(f)  BY <1>3, <2>2 DEF Meek
    <2> QED BY <1>4, <1>7, <2>1, <2>2, <2>3
  <1>15. CASE Back
    <2> DEFINE f == [Handle EXCEPT !.dirty = FALSE]
    <2>1. SeekEnds(call, Handle, "IO") \/ (hs' = [hs EXCEPT ![call.h] = f] /\ call' = call)
      BY <1>2, <1>15 DEF Back, PutFails
    <2>2. f.mod = Handle.mod /\ f.late = Handle.late /\ f.flags = Handle.flags  BY <1>2 DEF HandleSet
    <2> HIDE DEF f
    <2> QED BY <1>2, <1>3, <1>4, <1>7, <2>1, <2>2
  <1>16. CASE Fill
    <2> DEFINE f == Loaded(Handle, data[Handle.sect], Handle.sect)
    <2>1. SeekEnds(call, Handle, "IO") \/ SeekEnds(call, f, "NONE")  BY <1>16 DEF Fill, Loaded
    <2>2. f \in HandleSet /\ f.mod = Handle.mod /\ f.late = Handle.late /\ f.flags = Handle.flags
      <3>1. pc = "fill" /\ data \in [Sectors -> Buffers]  BY <1>16 DEF Fill, IInv, MediumFits
      <3>2. Handle.sect \in Sectors  BY <1>2, <3>1 DEF CallOk
      <3>3. data[Handle.sect] \in Buffers /\ Handle.sect \in Spots  BY <3>1, <3>2 DEF Spots
      <3>4. f = Loaded(Handle, data[Handle.sect], Handle.sect)  OBVIOUS
      <3> HIDE DEF f
      <3> QED BY <1>2, <3>3, <3>4, LoadedIs
    <2> HIDE DEF f
    <2>3. Meek(f)  BY <1>3, <2>2 DEF Meek
    <2> QED BY <1>2, <1>3, <1>4, <2>1, <2>2, <2>3
  <1>17. CASE ReadChunk
    <2> DEFINE n == call.len - Cnt
               d == [call EXCEPT !.len = n]
    <2>1. SeekBegins(d, Handle, Handle.offset + Cnt) \/ (UNCHANGED hs /\ call' = NoCall)
      BY <1>17 DEF ReadChunk, Returns
    <2>2. CASE UNCHANGED hs /\ call' = NoCall  BY <1>6, <2>2
    <2>3. CASE SeekBegins(d, Handle, Handle.offset + Cnt) /\ ~(UNCHANGED hs /\ call' = NoCall)
      <3>1. call.len > 0 /\ Handle.offset < Handle.size  BY <1>17, <2>3 DEF ReadChunk, Returns
      <3>2. n \in 0 .. MaxLen
        <4>1. call.len \in 0 .. MaxLen /\ call.len \in Nat /\ Handle.offset \in Nat /\ Handle.size \in Nat
          BY <1>1, <1>17, AtChunk DEF ReadChunk
        <4>2. Cnt \in 1 .. call.len  BY <3>1, <4>1, ChunkBounds DEF Cnt, Idx
        <4> QED BY <4>1, <4>2, Constants
      <3>3. d = [call EXCEPT !.len = n]  OBVIOUS
      <3> HIDE DEF d, n
      <3>4. SameCall(d, call)  BY <1>2, <3>2, <3>3, LessLeft
      <3> QED BY <1>2, <1>3, <1>9, <2>3, <3>4 DEF SameCall
    <2> QED BY <2>1, <2>2, <2>3
  <1>18. ~WriteChunk
    <2>1. ASSUME WriteChunk PROVE "WRITE" \in Handle.flags  BY <1>2, <2>1 DEF WriteChunk, CallOk
    <2> QED BY <1>3, <2>1 DEF Meek, Changing
  <1>19. CASE Put  BY <1>6, <1>19 DEF Put, Returns
  <1>20. CASE Touch
    <2>1. CASE UNCHANGED hs /\ (call' = call \/ call' = NoCall)  BY <1>6, <2>1
    <2>2. CASE hs' = [g \in Handles |->
                        IF g # call.h /\ hs[g].open /\ Handle.mod
                        THEN [hs[g] EXCEPT !.late = TRUE] ELSE hs[g]] /\ call' = call
      <3>1. ~Handle.mod  BY <1>3 DEF Meek
      <3>2. \A g \in Handles : hs'[g] = hs[g]  BY <2>2, <3>1
      <3> QED BY <2>2, <3>2 DEF Reading, Meek
    <2> QED BY <1>20, <2>1, <2>2 DEF Touch, SyncFails, Returns
  <1>21. CASE Flush
    <2> DEFINE f == Marked(Handle, FALSE, FALSE)
    <2>1. \/ UNCHANGED hs /\ call' = NoCall
          \/ hs' = [hs EXCEPT ![call.h] = NoHandle] /\ call' = NoCall
          \/ hs' = [hs EXCEPT ![call.h] = f] /\ call' = NoCall
      BY <1>2, <1>21 DEF Flush, SyncFails, Returns, Marked
    <2>2. f.mod = FALSE /\ f.late = Handle.late /\ f.flags = Handle.flags  BY <1>2 DEF HandleSet, Marked
    <2>3. Handle.mod = FALSE
      <3>1. ~Handle.mod /\ Handle.mod \in BOOLEAN  BY <1>2, <1>3, HandleIs DEF Meek
      <3> QED BY <3>1
    <2> HIDE DEF f
    <2>4. call'.flags \cap Changing = {}  BY <2>1, ShutIsMeek
    <2> QED BY <1>2, <1>6, <1>7, <2>1, <2>2, <2>3, <2>4, ShutIsMeek, MeekMoves
  <1> QED BY <1>10, <1>11, <1>12, <1>13, <1>14, <1>15, <1>16, <1>17, <1>18, <1>19, <1>20, <1>21 DEF Step

(* What a step leaves on the medium, it was seen before. *)
Near == \A t \in Sects : disk'[t] = disk[t] \/ disk'[t] = View(t)

LEMMA OutcomeNear ==
    ASSUME MediumFits, NEW o, o \in UpdateBuf("fat") \/ o \in UpdateBuf("dir") \/ o \in SyncBuf, disk' = o.disk
    PROVE  Near
  <1>1. "none" \notin Sects /\ WindowFits(Sects, "none", AllVals) /\ "fat" \in Sects /\ "dir" \in Sects
    BY DEF MediumFits, Sects
  <1>2. OutcomeFits(o, Sects, "none", AllVals)  BY <1>1, UpdateBufFits, SyncBufFits
  <1>3. o.disk = disk \/ \A t \in Sects : o.disk[t] = View(t)  BY <1>2 DEF OutcomeFits
  <1> QED BY <1>3 DEF Near

LEMMA BeginStays ==
    ASSUME Begin
    PROVE  UNCHANGED <<disk, data>>
  <1>1. \A c : Begins(c) => UNCHANGED <<disk, data>>  BY DEF Begins, Metadata
  <1>2. \A h, fl : BeginOpen(h, fl) => UNCHANGED <<disk, data>>  BY <1>1 DEF BeginOpen
  <1>3. \A h, op, n, v : BeginTransfer(op, h, n, v) => UNCHANGED <<disk, data>>  BY <1>1 DEF BeginTransfer
  <1>4. \A h, op : BeginSync(op, h) => UNCHANGED <<disk, data>>  BY <1>1 DEF BeginSync
  <1>5. \A h, off, w : BeginSeek(h, off, w) => UNCHANGED <<disk, data>>  BY DEF BeginSeek, Metadata
  <1> QED BY <1>2, <1>3, <1>4, <1>5 DEF Begin

LEMMA StepNear ==
    ASSUME IInv, Begin \/ Step
    PROVE  Near
  <1>1. MediumFits  BY DEF IInv
  <1>2. ASSUME UNCHANGED disk PROVE Near  BY <1>2 DEF Near
  <1>3. ASSUME NEW o, o \in UpdateBuf("fat") \/ o \in UpdateBuf("dir") \/ o \in SyncBuf,
               Fails(o) \/ SyncFails(o) \/ Took(o) \/ \E x, v : Writes(o, x, v)
        PROVE  Near
    <2>1. Took(o) => disk' = o.disk  BY DEF Took
    <2>2. \A x, v : Writes(o, x, v) => disk' = o.disk  BY DEF Writes
    <2>3. Fails(o) \/ SyncFails(o) => Took(o)  BY DEF Fails, SyncFails
    <2>4. disk' = o.disk  BY <1>3, <2>1, <2>2, <2>3
    <2> QED BY <1>1, <1>3, <2>4, OutcomeNear
  <1>4. CASE Begin  BY <1>2, <1>4, BeginStays
  <1>5. CASE Find         BY <1>3, <1>5 DEF Find
  <1>6. CASE Follow       BY <1>3, <1>6 DEF Follow
  <1>7. CASE Stretch      BY <1>2, <1>3, <1>7 DEF Stretch, Metadata
  <1>8. CASE StretchSync  BY <1>3, <1>8 DEF StretchSync
  <1>9. CASE Touch        BY <1>3, <1>9 DEF Touch
  <1>10. CASE Flush       BY <1>3, <1>10 DEF Flush
  <1>11. CASE Arrive \/ Back \/ Fill \/ ReadChunk \/ WriteChunk \/ Put
    BY <1>2, <1>11 DEF Arrive, Back, Fill, ReadChunk, WriteChunk, Put, PutFails, Faulted, Metadata
  <1> QED BY <1>4, <1>5, <1>6, <1>7, <1>8, <1>9, <1>10, <1>11 DEF Step

LEMMA CrashShows ==
    ASSUME IInv, Crash
    PROVE  /\ View("fat")' = disk["fat"] /\ View("dir")' = disk["dir"] /\ UNCHANGED <<disk, data, spoilt>>
           /\ hs' = [h \in Handles |-> NoHandle] /\ pc' = "idle" /\ call' = NoCall
  <1>1. WindowFits(Sects, "none", AllVals)  BY DEF IInv, MediumFits
  <1>2. win' = [sect |-> "none", buf |-> NoVal, dirty |-> FALSE] /\ disk' = disk  BY DEF Crash, NoVal
  <1>3. NoVal \in AllVals /\ "none" \notin Sects /\ "fat" \in Sects /\ "dir" \in Sects  BY DEF AllVals, Sects
  <1> QED BY <1>1, <1>2, <1>3, LostPowerFits DEF Crash

(* The size of the entry is the medium's, and stays what it is. *)
SizeStays == disk["dir"].size = View("dir").size /\ View("dir").size' = View("dir").size

LEMMA ReadSize ==
    ASSUME IInv, Reading, Next, disk["dir"].size = View("dir").size
    PROVE  SizeStays /\ disk'["dir"].size = View("dir").size'
  <1>1. CASE Crash
    <2>1. View("dir")' = disk["dir"] /\ disk' = disk  BY <1>1, CrashShows
    <2> QED BY <2>1 DEF SizeStays
  <1>2. CASE Begin \/ Step
    <2>1. lost' \subseteq Sectors  BY LostFits DEF Next
    <2>2. View("dir").size' = View("dir").size
      <3>1. CASE Touch
        <4>1. pc = "touch" /\ pc \in Closing /\ MediumFits /\ Handling  BY <3>1 DEF Touch, IInv, Closing
        <4>2. call.h \in Handles /\ Handle = hs[call.h]  BY <4>1, AtClosing
        <4>3. ~Handle.mod  BY <4>2 DEF Reading, Meek
        <4>4. PICK o \in UpdateBuf("dir") : (SyncFails(o) /\ UNCHANGED data) \/
                (Writes(o, "size", IF Handle.mod THEN Handle.size ELSE o.win.buf.size) /\ UNCHANGED data)
          BY <3>1 DEF Touch, SyncFails
        <4>5. CASE SyncFails(o)
          <5>1. Took(o)  BY <4>5 DEF SyncFails
          <5>2. UNCHANGED data  BY <4>4
          <5> QED BY <4>1, <5>1, <5>2, LookFits DEF ViewsStay
        <4>6. CASE ~SyncFails(o)
          <5> DEFINE n == o.win.buf.size
          <5>1. Writes(o, "size", n) /\ UNCHANGED data  BY <4>3, <4>4, <4>6
          <5>2. n = View("dir").size /\ n \in 0 .. MaxOff  BY <4>1, <5>1, EntryShown DEF Writes
          <5> HIDE DEF n
          <5>3. View("dir").size' = n  BY <4>1, <5>1, <5>2, SizeChanges
          <5> QED BY <5>2, <5>3
        <4> QED BY <4>5, <4>6
      <3>2. CASE Begin  BY <2>1, <3>2, BeginKeeps DEF ViewsStay
      <3>3. CASE Step /\ ~Touch
        <4>1. View("dir")' = View("dir")
          BY <3>3, FindKeeps, FollowKeeps, StretchKeeps, StretchSyncKeeps, ArriveKeeps, BackKeeps,
             FillKeeps, ReadChunkKeeps, WriteChunkKeeps, PutKeeps, FlushKeeps DEF Step, ViewsStay
        <4> QED BY <4>1
      <3> QED BY <1>2, <3>1, <3>2, <3>3
    <2>3. disk'["dir"] = disk["dir"] \/ disk'["dir"] = View("dir")  BY <1>2, StepNear DEF Near, Sects
    <2> QED BY <2>2, <2>3 DEF SizeStays
  <1> QED BY <1>1, <1>2 DEF Next

(* What holds as long as handles are only read: nothing is shared that a   *)
(* handle can write, and a loss of power takes no size back.               *)
ReadInv == FileInv /\ Reading /\ lost = {} /\ disk["dir"].size = View("dir").size

LEMMA ReadersFit ==
    ASSUME ReadOnly
    PROVE  (Init => ReadInv) /\ (ReadInv /\ [Next]_vars => ReadInv')
  <1>1. ASSUME Init PROVE ReadInv
    <2>1. FileInv  BY <1>1, InitFile
    <2>2. hs = [h \in Handles |-> NoHandle] /\ call = NoCall /\ lost = {} /\ win.sect = "none"
      BY <1>1 DEF Init, Closed
    <2>3. Reading  BY <2>2, ShutIsMeek DEF Reading
    <2>4. View("dir") = disk["dir"]  BY <2>2 DEF View
    <2> QED BY <2>1, <2>2, <2>3, <2>4 DEF ReadInv
  <1>2. ASSUME ReadInv, [Next]_vars PROVE ReadInv'
    <2>1. FileInv'  BY <1>2, StepMaps DEF ReadInv
    <2>2. IInv /\ Reading  BY <1>2 DEF ReadInv, FileInv
    <2>3. CASE Next
      <3>1. Reading'
        <4>1. CASE Crash
          <5>1. hs' = [h \in Handles |-> NoHandle] /\ call' = NoCall  BY <2>2, <4>1, CrashShows
          <5> QED BY <5>1, ShutIsMeek DEF Reading
        <4> QED BY <2>2, <2>3, <4>1, BeginReads, StepReads DEF Next
      <3>2. lost' = {}
        <4>1. \A h \in Handles : "WRITE" \notin hs'[h].flags  BY <3>1 DEF Reading, Meek, Changing
        <4>2. SharedNow' = {}  BY <4>1 DEF SharedNow
        <4> QED BY <1>2, <2>3, <4>2 DEF Next, ReadInv
      <3>3. disk'["dir"].size = View("dir").size'  BY <1>2, <2>2, <2>3, ReadSize DEF ReadInv
      <3> QED BY <2>1, <3>1, <3>2, <3>3 DEF ReadInv
    <2>4. CASE UNCHANGED vars
      BY <1>2, <2>1, <2>4 DEF ReadInv, Reading, Meek, vars, View
    <2> QED BY <1>2, <2>3, <2>4
  <1> QED BY <1>1, <1>2

(* A step of a reader, before a handle is used that a failure left astray. *)
LEMMA ReadStep ==
    ASSUME ReadInv, Next, ~spoilt
    PROVE  data' = data /\ View("dir").size' = View("dir").size
  <1>1. IInv /\ Reading /\ disk["dir"].size = View("dir").size  BY DEF ReadInv, FileInv
  <1>2. View("dir").size' = View("dir").size  BY <1>1, ReadSize DEF SizeStays
  <1>3. CASE Back \/ Put
    <2>1. pc # "idle" /\ Handling  BY <1>1, <1>3 DEF Back, Put, IInv
    <2>2. /\ call.h \in Handles /\ Handle = hs[call.h] /\ CallOk(pc, call, Handle)
          /\ Track(spoilt, pc, call, Handle)
      BY <2>1, RunningCall
    <2>3. ~spoilt /\ TrackOk(pc, call, Handle)  BY <2>2 DEF Track
    <2>4. ~Handle.dirty
      <3>1. "WRITE" \notin Handle.flags  BY <1>1, <2>2 DEF Reading, Meek, Changing
      <3> QED BY <1>1, <2>2, <3>1, WritersAre DEF Writers
    <2>5. ~Back  BY <2>3, <2>4 DEF Back, TrackOk
    <2>6. pc = "put" /\ data' \in {data, Stored(Handle.sect)}  BY <1>3, <2>5 DEF Put
    <2>7. Sane(Handle) /\ Ready(Handle)  BY <2>2, <2>3, <2>6 DEF TrackOk, CallOk, Closing, Seeking
    <2>8. Handle.buf = data[Handle.sect]
      <3>1. Whole /\ lost = {}  BY <2>3 DEF ReadInv, FileInv
      <3>2. Level(Handle, data, {})  BY <2>2, <2>4, <3>1 DEF Whole, Coherent
      <3> QED BY <2>7, <3>2 DEF Level, Ready, Sane
    <2>9. Stored(Handle.sect) = data
      <3>1. data \in [Sectors -> Buffers] /\ Handle.sect \in Sectors  BY <1>1, <2>7 DEF IInv, MediumFits, Ready
      <3>2. [data EXCEPT ![Handle.sect] = data[Handle.sect]] = data  BY <3>1
      <3> QED BY <2>8, <3>2 DEF Stored
    <2> QED BY <1>2, <2>6, <2>9
  <1>4. ASSUME ~(Back \/ Put) PROVE data' = data
    <2>1. CASE Begin  BY <2>1, BeginStays
    <2>2. CASE Step
      <3>1. \A o : Fails(o) \/ SyncFails(o) => UNCHANGED data  BY DEF Fails, SyncFails
      <3>2. CASE Find  BY <3>2 DEF Find
      <3>3. CASE Follow  BY <3>1, <3>3 DEF Follow
      <3>4. CASE Stretch  BY <3>1, <3>4 DEF Stretch
      <3>5. CASE StretchSync  BY <3>1, <3>5 DEF StretchSync
      <3>6. CASE Arrive \/ Fill \/ ReadChunk \/ WriteChunk
        BY <3>6 DEF Arrive, Fill, ReadChunk, WriteChunk
      <3>7. CASE Touch  BY <3>1, <3>7 DEF Touch
      <3>8. CASE Flush  BY <3>1, <3>8 DEF Flush
      <3> QED BY <1>4, <2>2, <3>2, <3>3, <3>4, <3>5, <3>6, <3>7, <3>8 DEF Step
    <2>3. CASE Crash  BY <2>3 DEF Crash
    <2> QED BY <2>1, <2>2, <2>3 DEF Next
  <1> QED BY <1>2, <1>3, <1>4

(* Programs are only read: whichever transfers fail, handles that are not  *)
(* opened to write or to truncate leave the file's bytes and its size      *)
(* alone, although closing one writes its buffer and its entry, until one  *)
(* is used that a failure has left astray.                                 *)
THEOREM ReadersLeaveIt == ASSUME ReadOnly PROVE Spec => ReadersLeaveFile
  <1>1. Init => ReadInv  BY ReadersFit
  <1>2. ReadInv /\ [Next]_vars => ReadInv'  BY ReadersFit
  <1>3. ReadInv /\ [Next]_vars =>
          [~spoilt => data' = data /\ View("dir").size' = View("dir").size]_vars
    BY ReadStep
  <1> QED BY <1>1, <1>2, <1>3, PTL DEF Spec, ReadersLeaveFile

(* Reading and the chain of clusters: a seek of a reader goes no further   *)
(* than the size, so the chain reaches one cluster beyond it at most.      *)
Fitting(n) == n <= Clust(View("dir").size) + 1
Inside     == pc \in Seeking => call.off <= View("dir").size
ChainInv   == ReadInv /\ Inside /\ (~spoilt => Fitting(View("fat").len) /\ Fitting(disk["fat"].len))

(* A step keeps the call inside. *)
InsideThen == pc' \in Seeking => call'.off <= View("dir").size

LEMMA SeekEndsInside ==
    ASSUME NEW c, NEW f, NEW e, SeekEnds(c, f, e)
    PROVE  InsideThen
  BY DEF SeekEnds, Returns, InsideThen, Seeking

LEMMA SeekBeginsInside ==
    ASSUME NEW c \in CallSet, NEW f, NEW off, SeekBegins(c, f, off), off <= View("dir").size
    PROVE  InsideThen
  <1>1. CASE off < 0 \/ off > MaxOff
    <2>1. SeekEnds(c, f, "EOF")  BY <1>1 DEF SeekBegins
    <2> QED BY <2>1, SeekEndsInside
  <1>2. CASE ~(off < 0 \/ off > MaxOff)
    <2> DEFINE g == IF off \div ClustSize < f.offset \div ClustSize THEN Backtrack(f) ELSE f
               l == (off \div ClustSize) - (g.offset \div ClustSize)
               d == [c EXCEPT !.ssect = f.sect, !.off = off, !.left = l]
    <2>1. call' = d  BY <1>2 DEF SeekBegins
    <2>2. d.off = off
      <3> HIDE DEF l
      <3> QED BY DEF CallSet
    <2> HIDE DEF d
    <2> QED BY <2>1, <2>2 DEF InsideThen
  <1> QED BY <1>1, <1>2

LEMMA BeginInside ==
    ASSUME "seek" \notin Uses, Begin
    PROVE  InsideThen
  <1>1. \A h, fl : BeginOpen(h, fl) => pc' = "find"  BY DEF BeginOpen
  <1>2. \A h, op, n, v : BeginTransfer(op, h, n, v) => pc' = "chunk"  BY DEF BeginTransfer
  <1>3. \A h, op : BeginSync(op, h) => pc' = "put"  BY DEF BeginSync
  <1>4. pc' \in {"find", "chunk", "put"}  BY <1>1, <1>2, <1>3 DEF Begin
  <1> QED BY <1>4 DEF InsideThen, Seeking

LEMMA StepInside ==
    ASSUME IInv, Reading, Inside, Step
    PROVE  InsideThen
  <1>1. pc # "idle" /\ Handling /\ MediumFits /\ SizesOk
    BY DEF Step, IInv, Find, Follow, Stretch, StretchSync, Arrive, Back, Fill, ReadChunk, WriteChunk, Put, Touch, Flush
  <1>2. /\ call.h \in Handles /\ call \in CallSet
        /\ Handle \in HandleSet /\ Handle = hs[call.h] /\ CallOk(pc, call, Handle)
        /\ Handle.open => SizeOk(Handle, View("dir").size)
    BY <1>1, RunningCall, CallSize
  <1>3. Meek(Handle) /\ call.flags \cap Changing = {}  BY <1>2 DEF Reading
  <1>4. \A o : Fails(o) => InsideThen  BY SeekEndsInside DEF Fails
  <1>5. ASSUME pc \in Seeking, call'.off = call.off PROVE InsideThen  BY <1>5 DEF Inside, InsideThen
  <1>6. call' = [call EXCEPT !.left = @ - 1] => call'.off = call.off
    <2> DEFINE l == call.left - 1
    <2>1. SUFFICES ASSUME call' = [call EXCEPT !.left = l] PROVE call'.off = call.off  OBVIOUS
    <2> HIDE DEF l
    <2> QED BY <1>2, <2>1 DEF CallSet
  <1>7. CASE Find
    <2>1. PICK o : \/ Fails(o)
                   \/ LET f == OpenSize([NoHandle EXCEPT !.open = TRUE, !.flags = call.flags], o.win.buf.size)
                      IN  o \in UpdateBuf("dir") /\ o.ok
                          /\ SeekBegins(call, f, IF "APPEND" \in f.flags THEN f.size ELSE 0)
      BY <1>7 DEF Find
    <2>2. CASE ~Fails(o)
      <3> DEFINE f == OpenSize([NoHandle EXCEPT !.open = TRUE, !.flags = call.flags], o.win.buf.size)
                 off == IF "APPEND" \in f.flags THEN f.size ELSE 0
      <3>1. SeekBegins(call, f, off) /\ o \in UpdateBuf("dir") /\ o.ok  BY <2>1, <2>2
      <3>2. o.win.buf.size = View("dir").size /\ View("dir").size \in 0 .. MaxOff  BY <1>1, <3>1, EntryShown
      <3>3. call.flags \in SUBSET AllFlags  BY <1>2, CallIs
      <3>4. f = OpenSize(Blank(call.flags), o.win.buf.size)  BY DEF Blank
      <3> HIDE DEF f
      <3>5. f.flags = call.flags /\ ("TRUNC" \notin call.flags => f.size = View("dir").size)
        BY <3>2, <3>3, <3>4, OpenedIs
      <3>6. off <= View("dir").size  BY <1>3, <3>2, <3>5, Constants DEF Changing
      <3> HIDE DEF off
      <3> QED BY <1>2, <3>1, <3>6, SeekBeginsInside
    <2> QED BY <1>4, <2>1, <2>2
  <1>8. CASE Follow  BY <1>4, <1>5, <1>6, <1>8 DEF Follow, Seeking
  <1>9. CASE Stretch  BY <1>4, <1>5, <1>9, SeekEndsInside DEF Stretch, Seeking
  <1>10. CASE StretchSync  BY <1>4, <1>5, <1>6, <1>10 DEF StretchSync, Seeking
  <1>11. CASE Arrive
    <2>1. pc \in Seeking /\ (call' = call \/ \E f : SeekEnds(call, f, "NONE"))  BY <1>11 DEF Arrive, Seeking
    <2> QED BY <1>5, <2>1, SeekEndsInside
  <1>12. CASE Back \/ Fill
    <2>1. pc \in Seeking /\ (call' = call \/ \E f, e : SeekEnds(call, f, e))
      BY <1>12 DEF Back, Fill, PutFails, Seeking
    <2> QED BY <1>5, <2>1, SeekEndsInside
  <1>13. CASE ReadChunk
    <2>1. CASE call.len > 0 /\ Handle.offset < Handle.size
      <3> DEFINE n == call.len - Cnt
                 d == [call EXCEPT !.len = n]
                 off == Handle.offset + Cnt
      <3>1. SeekBegins(d, Handle, off)  BY <1>13, <2>1 DEF ReadChunk
      <3>2. /\ call.len \in 0 .. MaxLen /\ call.len \in Nat /\ Handle.offset \in Nat /\ Handle.size \in Nat
            /\ Ready(Handle)
        BY <1>1, <1>13, AtChunk DEF ReadChunk
      <3>3. Cnt \in 1 .. call.len /\ off <= Handle.size  BY <2>1, <3>2, ChunkBounds DEF Cnt, Idx
      <3>4. Handle.size = View("dir").size  BY <1>2, <1>3, <3>2 DEF Ready, SizeOk, Meek
      <3>5. n \in 0 .. MaxLen  BY <3>2, <3>3, Constants
      <3>6. d = [call EXCEPT !.len = n]  OBVIOUS
      <3> HIDE DEF d, n, off
      <3>7. SameCall(d, call)  BY <1>2, <3>5, <3>6, LessLeft
      <3> QED BY <3>1, <3>3, <3>4, <3>7, SeekBeginsInside DEF SameCall
    <2>2. CASE ~(call.len > 0 /\ Handle.offset < Handle.size)
      <3>1. pc' = "idle"  BY <1>13, <2>2 DEF ReadChunk, Returns
      <3> QED BY <3>1 DEF InsideThen, Seeking
    <2> QED BY <2>1, <2>2
  <1>14. ~WriteChunk
    <2>1. ASSUME WriteChunk PROVE "WRITE" \in Handle.flags  BY <1>2, <2>1 DEF WriteChunk, CallOk
    <2> QED BY <1>3, <2>1 DEF Meek, Changing
  <1>15. CASE Put \/ Touch \/ Flush
    <2>1. pc' \in {"idle", "touch", "flush"}  BY <1>15 DEF Put, Touch, Flush, SyncFails, Returns
    <2> QED BY <2>1 DEF InsideThen, Seeking
  <1> QED BY <1>7, <1>8, <1>9, <1>10, <1>11, <1>12, <1>13, <1>14, <1>15 DEF Step

(* A cluster is linked to the chain only when the seek needs it. *)
LEMMA ChainStep ==
    ASSUME IInv, Inside, ~spoilt, Begin \/ (Step /\ UNCHANGED spoilt), lost' \subseteq Sectors,
           Fitting(View("fat").len)
    PROVE  Fitting(View("fat").len')
  <1>1. CASE View("fat")' = View("fat")  BY <1>1
  <1>2. CASE Stretch
    <2>1. pc = "stretch" /\ pc # "idle" /\ MediumFits /\ Handling  BY <1>2 DEF Stretch, IInv
    <2>2. /\ Handle \in HandleSet /\ call \in CallSet /\ CallOk(pc, call, Handle) /\ TrackOk(pc, call, Handle)
      BY <2>1, AtStep
    <2>3. \/ View("fat")' = View("fat")
          \/ View("fat").len' = Handle.clust + 1
      <3>1. CASE UNCHANGED Metadata /\ UNCHANGED data
        BY <2>1, <3>1, MediumIsSame DEF Metadata
      <3>2. ASSUME NEW o \in UpdateBuf("fat"), Fails(o) PROVE View("fat")' = View("fat")
        <4>1. Took(o) /\ UNCHANGED data  BY <3>2 DEF Fails
        <4> QED BY <2>1, <3>2, <4>1, LookFits DEF ViewsStay
      <3>3. ASSUME NEW o \in UpdateBuf("fat"), Handle.clust < MaxClusts, UNCHANGED data,
                   Writes(o, "len", Handle.clust + 1)
            PROVE  View("fat").len' = Handle.clust + 1
        <4>1. Handle.clust + 1 \in 1 .. MaxClusts
          <5>1. Handle.clust \in 1 .. MaxClusts  BY <2>2, HandleIs
          <5> QED BY <3>3, <5>1, Constants
        <4>2. View("fat")' = [len |-> Handle.clust + 1]  BY <2>1, <3>3, <4>1, ChainGrows
        <4> QED BY <4>2
      <3> QED BY <1>2, <3>1, <3>2, <3>3 DEF Stretch
    <2>4. Handle.clust + 1 <= Clust(View("dir").size) + 1
      <3>1. FollowOk(call, Handle) /\ call.left > 0  BY <2>1, <2>2 DEF TrackOk, CallOk
      <3>2. call.off <= View("dir").size  BY <2>1 DEF Inside, Seeking
      <3>3. call.off \in Nat /\ call.left \in Int /\ View("dir").size \in Nat /\ Handle.clust \in Int
        BY <2>1, <2>2, CallIs, HandleIs, EntryShown, Constants
      <3>4. Clust(call.off) <= Clust(View("dir").size) /\ Clust(call.off) \in Nat /\ Clust(View("dir").size) \in Nat
        BY <3>2, <3>3, ClustIs
      <3>5. Handle.clust + call.left = Clust(call.off) + 1  BY <3>1 DEF FollowOk
      <3> QED BY <3>1, <3>3, <3>4, <3>5
    <2> QED BY <1>1, <2>3, <2>4 DEF Fitting
  <1>3. CASE ~Stretch /\ ~(View("fat")' = View("fat"))
    <2>1. CASE Begin  BY <1>3, <2>1, BeginKeeps DEF ViewsStay
    <2>2. CASE Step
      BY <1>3, <2>2, FindKeeps, FollowKeeps, StretchSyncKeeps, ArriveKeeps, BackKeeps,
         FillKeeps, ReadChunkKeeps, WriteChunkKeeps, PutKeeps, TouchKeeps, FlushKeeps DEF Step, ViewsStay
    <2> QED BY <2>1, <2>2
  <1> QED BY <1>1, <1>2, <1>3

LEMMA BeginFresh == Begin => ~spoilt
  <1>1. \A c : Begins(c) => ~spoilt  BY DEF Begins
  <1>2. \A h, fl : BeginOpen(h, fl) => ~spoilt  BY <1>1 DEF BeginOpen
  <1>3. \A h, op, n, v : BeginTransfer(op, h, n, v) => ~spoilt  BY <1>1 DEF BeginTransfer
  <1>4. \A h, op : BeginSync(op, h) => ~spoilt  BY <1>1 DEF BeginSync
  <1>5. \A h, off, w : BeginSeek(h, off, w) => ~spoilt  BY DEF BeginSeek
  <1> QED BY <1>2, <1>3, <1>4, <1>5 DEF Begin

LEMMA ChainFits ==
    ASSUME ReadOnly, "seek" \notin Uses
    PROVE  (Init => ChainInv) /\ (ChainInv /\ [Next]_vars => ChainInv')
  <1>1. ASSUME Init PROVE ChainInv
    <2>1. ReadInv  BY <1>1, ReadersFit
    <2>2. pc = "idle" /\ disk["fat"].len = 1 /\ win.sect = "none"  BY <1>1 DEF Init, Closed
    <2>3. View("fat") = disk["fat"]  BY <2>2 DEF View
    <2>4. Fitting(1)
      <3>1. View("dir").size \in Nat  BY <2>1, EntryShown, Constants DEF ReadInv, FileInv, IInv
      <3>2. Clust(View("dir").size) \in Nat  BY <3>1, ClustIs
      <3> QED BY <3>2 DEF Fitting
    <2> QED BY <2>1, <2>2, <2>3, <2>4 DEF ChainInv, Inside, Seeking
  <1>2. ASSUME ChainInv, [Next]_vars PROVE ChainInv'
    <2>1. ReadInv'  BY <1>2, ReadersFit DEF ChainInv
    <2>2. IInv /\ Reading /\ Inside /\ disk["dir"].size = View("dir").size  BY <1>2 DEF ChainInv, ReadInv, FileInv
    <2>3. CASE UNCHANGED vars
      BY <1>2, <2>1, <2>3 DEF ChainInv, Inside, Fitting, vars, View
    <2>4. CASE Next
      <3>1. View("dir").size' = View("dir").size  BY <2>2, <2>4, ReadSize DEF SizeStays
      <3>2. lost' \subseteq Sectors  BY <2>2, <2>4, LostFits DEF Next
      <3>3. InsideThen
        <4>1. CASE Crash
          <5>1. pc' = "idle"  BY <2>2, <4>1, CrashShows
          <5> QED BY <5>1 DEF InsideThen, Seeking
        <4> QED BY <2>2, <2>4, <4>1, BeginInside, StepInside DEF Next
      <3>4. Inside'  BY <3>1, <3>3 DEF Inside, InsideThen
      <3>5. ASSUME ~spoilt' PROVE Fitting(View("fat").len') /\ Fitting(disk'["fat"].len)
        <4>1. ~spoilt
          <5>1. Begin => ~spoilt  BY BeginFresh
          <5>2. Crash => UNCHANGED spoilt  BY DEF Crash
          <5> QED BY <2>4, <3>5, <5>1, <5>2 DEF Next
        <4>2. Fitting(View("fat").len) /\ Fitting(disk["fat"].len)  BY <1>2, <4>1 DEF ChainInv
        <4>3. CASE Crash
          <5>1. View("fat")' = disk["fat"] /\ disk' = disk  BY <2>2, <4>3, CrashShows
          <5> QED BY <4>2, <5>1
        <4>4. CASE ~Crash
          <5>1. Begin \/ (Step /\ UNCHANGED spoilt)  BY <2>4, <4>4 DEF Next
          <5>2. Fitting(View("fat").len')  BY <2>2, <3>2, <4>1, <4>2, <5>1, ChainStep
          <5>3. disk'["fat"] = disk["fat"] \/ disk'["fat"] = View("fat")  BY <2>2, <5>1, StepNear DEF Near, Sects
          <5> QED BY <4>2, <5>2, <5>3
        <4> QED BY <4>3, <4>4
      <3>6. (~spoilt => Fitting(View("fat").len) /\ Fitting(disk["fat"].len))'  BY <3>1, <3>5 DEF Fitting
      <3> QED BY <2>1, <3>4, <3>6 DEF ChainInv
    <2> QED BY <1>2, <2>3, <2>4
  <1> QED BY <1>1, <1>2

(* Reading a file to its end can add a cluster to its chain, but never     *)
(* more than one beyond its size, however often it is read, and through    *)
(* however many handles.                                                   *)
THEOREM ReadingAddsOne == ASSUME ReadOnly, "seek" \notin Uses PROVE Spec => []ChainBounded
  <1>1. Init => ChainInv  BY ChainFits
  <1>2. ChainInv /\ [Next]_vars => ChainInv'  BY ChainFits
  <1>3. ChainInv => ChainBounded  BY DEF ChainInv, Fitting, ChainBounded, Clust
  <1> QED BY <1>1, <1>2, <1>3, PTL DEF Spec
=============================================================================
