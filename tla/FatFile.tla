------------------------------ MODULE FatFile ------------------------------
(***************************************************************************)
(* The file handles of src/trfs/fat32/fat.c: opening, reading, writing,    *)
(* seeking, synchronising and closing one file through several handles.    *)
(* Each handle has a buffer of one sector of its own, so what a handle     *)
(* sees, what another sees and what the medium holds can differ.           *)
(*                                                                         *)
(* The window of FatWindow carries the file's FAT entries (one sector that *)
(* remembers how many clusters the chain has) and its directory entry (of  *)
(* which the size matters).  The clusters of the file are numbered along   *)
(* its chain.  File data goes to the medium directly, a sector a step.     *)
(*                                                                         *)
(* Definitions such as SizeAfterPlain stand before the one whose name they *)
(* extend and are mistakes the code could have made.                       *)
(***************************************************************************)
EXTENDS FatWindow, FiniteSets

CONSTANTS
    SectSize,    \* bytes in a sector (512 in the code)
    ClustSects,  \* sectors in a cluster (1 << clust_shift)
    MaxClusts,   \* bound: clusters the file can have
    MaxOff,      \* 0xffffffff in the code
    MaxLen,      \* bound: bytes in one read or write
    Vals,        \* values of a byte
    Handles,     \* the callers' File structures
    Flags,       \* the sets of flags files are opened with
    Seeks,       \* offsets callers seek by
    Uses,        \* operations callers make besides opening
    Fresh        \* what the medium can hold at first

ClustSize == SectSize * ClustSects
Sectors   == 0 .. (MaxClusts * ClustSects - 1)
Bytes     == 0 .. (MaxClusts * ClustSize - 1)
Buffers   == [0 .. (SectSize - 1) -> Vals]

ASSUME FileAssumption ==
    /\ {SectSize, ClustSects, MaxClusts, MaxLen} \subseteq Nat \ {0}
    /\ MaxOff \in Nat /\ MaxOff >= ClustSize /\ Seeks \subseteq Int
    /\ "none" \notin Handles
    /\ Vals \subseteq Nat /\ Vals # {}
    /\ Flags \subseteq SUBSET {"READ", "WRITE", "APPEND", "TRUNC"}
    /\ Uses \subseteq {"read", "write", "seek", "sync", "close"}
    /\ Fresh \subseteq [Sectors -> Buffers]

VARIABLES
    data,    \* what the medium holds of the file: sector -> bytes
    hs,      \* the handles
    pc,      \* where the running call is; "idle" between calls
    call,    \* the running call and its locals
    res,     \* the last call that returned, and its error code
    lost,    \* sectors that two handles, one for writing, had at once
    spoilt   \* a handle was used although a failure had left it astray

vars == <<disk, win, faults, data, hs, pc, call, res, lost, spoilt>>

NoSect == -1    \* 0xffffffff
NoBuf  == [i \in 0 .. (SectSize - 1) |-> CHOOSE v \in Vals : TRUE]

(* at (the sector whose bytes the buffer has), hurt (a transfer for this   *)
(* handle failed) and late (another handle has rewritten the entry since)  *)
(* are not in the code.                                                    *)
NoHandle == [open |-> FALSE, flags |-> {}, size |-> 0, offset |-> 0, clust |-> 1,
             sect |-> NoSect, buf |-> NoBuf, dirty |-> FALSE, acc |-> FALSE,
             mod |-> FALSE, at |-> NoSect, hurt |-> FALSE, late |-> FALSE]

NoCall == [op |-> "none", h |-> "none", flags |-> {}, len |-> 0, val |-> 0,
           ssect |-> NoSect, off |-> 0, left |-> 0]
NoRes  == [op |-> "none", err |-> "NONE"]

Min2(a, b) == IF a < b THEN a ELSE b     \* LIMIT

(* The sector of byte off, when c is the cluster that has it. *)
SectAt(c, off) == (c - 1) * ClustSects + ((off \div SectSize) % ClustSects)

(* A handle stands where its offset says, with that sector in its buffer. *)
Sane(f) == /\ f.clust = f.offset \div ClustSize + 1
           /\ f.sect = SectAt(f.clust, f.offset)
           /\ f.at = f.sect

(* A failure has left it elsewhere. *)
Astray(f) == f.hurt /\ ~Sane(f)

(* A file of n bytes, and no handle. *)
Closed(n, d) ==
    /\ disk = [fat |-> [len |-> 1], dir |-> [size |-> n]] /\ data = d
    /\ win = [sect |-> "none", buf |-> [x \in {} |-> 0], dirty |-> FALSE]
    /\ hs = [h \in Handles |-> NoHandle]
    /\ pc = "idle" /\ call = NoCall /\ res = NoRes
    /\ faults = 0 /\ lost = {} /\ spoilt = FALSE

Init == \E n \in 0 .. ClustSize, d \in Fresh : Closed(n, d)

Metadata == <<disk, win, faults>>
-----------------------------------------------------------------------------
Returns(op, e) ==
    /\ res' = [op |-> op, err |-> e]
    /\ call' = NoCall
    /\ pc' = "idle"

(* A read or write goes on after its seek; a write also when it failed.    *)
AfterSeek(op, e) == op \in {"open", "seek"} \/ (op = "read" /\ e # "NONE")

(* fat_file_seek returns e; f is what it leaves of the handle.  The call   *)
(* fails with it, or goes on: a write leaves its loop but not with e.      *)
SeekEnds(c, f, e) ==
    LET g == [f EXCEPT !.hurt = @ \/ e = "IO" \/ (e = "FULL" /\ c.op \in {"open", "seek"})]
    IN  /\ hs' = [hs EXCEPT ![c.h] = IF c.op = "open" /\ e # "NONE" THEN NoHandle ELSE g]
        /\ IF AfterSeek(c.op, e)
           THEN Returns(c.op, e)
           ELSE /\ pc' = "chunk"
                /\ call' = [c EXCEPT !.len = IF e = "NONE" THEN @ ELSE 0,
                                     !.ssect = NoSect, !.off = 0, !.left = 0]
                /\ UNCHANGED res

BacktrackKeeps(f) == [f EXCEPT !.offset = 0]
(* Going back, the chain is followed from the start again. *)
Backtrack(f) == [f EXCEPT !.clust = 1, !.sect = SectAt(1, 0), !.offset = 0]

(* fat_file_seek up to its loop, for handle f to offset off. *)
SeekBegins(c, f, off) ==
    IF off < 0 \/ off > MaxOff
    THEN SeekEnds(c, f, "EOF")
    ELSE LET dst  == off \div ClustSize
             back == dst < f.offset \div ClustSize
             g    == IF back THEN Backtrack(f) ELSE f
         IN  /\ hs' = [hs EXCEPT ![c.h] = g]
             /\ call' = [c EXCEPT !.ssect = f.sect, !.off = off,
                                  !.left = dst - g.offset \div ClustSize]
             /\ pc' = "follow" /\ UNCHANGED res

Handle == hs[call.h]

Fails(o) == ~o.ok /\ Took(o) /\ UNCHANGED data /\ SeekEnds(call, Handle, "IO")

(* One round of seek's loop: the next cluster of the chain, or a new one.  *)
Follow ==
    /\ pc = "follow" /\ call.left > 0
    /\ \E o \in UpdateBuf("fat") :
         \/ Fails(o)
         \/ /\ o.ok /\ Took(o)
            /\ UNCHANGED <<data, res>>
            /\ IF Handle.clust < o.win.buf.len
               THEN /\ hs' = [hs EXCEPT ![call.h].clust = @ + 1]
                    /\ call' = [call EXCEPT !.left = @ - 1] /\ UNCHANGED pc
               ELSE pc' = "stretch" /\ UNCHANGED <<hs, call>>

(* stretch_chain: no cluster is free, or one is linked to the last one... *)
Stretch ==
    /\ pc = "stretch"
    /\ \/ UNCHANGED Metadata /\ UNCHANGED data /\ SeekEnds(call, Handle, "FULL")
       \/ \E o \in UpdateBuf("fat") :
            \/ Fails(o)
            \/ /\ Handle.clust < MaxClusts
               /\ Writes(o, "len", Handle.clust + 1)
               /\ pc' = "stretchSync" /\ UNCHANGED <<data, hs, call, res>>

(* ... and the volume is synchronised. *)
StretchSync ==
    /\ pc = "stretchSync"
    /\ \E o \in SyncBuf :
         \/ Fails(o)
         \/ /\ o.ok /\ Took(o)
            /\ hs' = [hs EXCEPT ![call.h].clust = @ + 1]
            /\ call' = [call EXCEPT !.left = @ - 1]
            /\ pc' = "follow" /\ UNCHANGED <<data, res>>

SameSector(s) == s = call.ssect

FirstTransfer(f) == IF f.dirty THEN "back" ELSE "fill"

(* The chain was followed: the handle moves, and then its buffer.          *)
Arrive ==
    /\ pc = "follow" /\ call.left = 0
    /\ UNCHANGED Metadata /\ UNCHANGED data
    /\ LET f == [Handle EXCEPT !.sect = SectAt(Handle.clust, call.off), !.offset = call.off]
       IN  IF SameSector(f.sect)
           THEN SeekEnds(call, f, "NONE")
           ELSE /\ hs' = [hs EXCEPT ![call.h] = f]
                /\ pc' = FirstTransfer(f)
                /\ UNCHANGED <<call, res>>

Faulted == faults < MaxFaults /\ faults' = faults + 1 /\ UNCHANGED <<disk, win>>

(* A write of the buffer to sector s that fails may have happened. *)
Stored(s)   == [data EXCEPT ![s] = Handle.buf]
PutFails(s) == Faulted /\ data' \in {data, Stored(s)} /\ SeekEnds(call, Handle, "IO")

Back ==
    /\ pc = "back"
    /\ \/ PutFails(call.ssect)
       \/ /\ data' = Stored(call.ssect) /\ UNCHANGED Metadata
          /\ hs' = [hs EXCEPT ![call.h].dirty = FALSE]
          /\ pc' = "fill" /\ UNCHANGED <<call, res>>

(* A read that fails leaves the buffer as it was. *)
Fill ==
    /\ pc = "fill" /\ UNCHANGED data
    /\ \/ Faulted /\ SeekEnds(call, Handle, "IO")
       \/ /\ UNCHANGED Metadata
          /\ SeekEnds(call, [Handle EXCEPT !.buf = data[Handle.sect], !.at = Handle.sect], "NONE")
-----------------------------------------------------------------------------
(* A caller begins.  What it does with a handle that is astray spoils all. *)
Begins(c) ==
    /\ pc = "idle" /\ ~spoilt /\ call' = c /\ res' = NoRes
    /\ spoilt' = Astray(hs[c.h])
    /\ UNCHANGED Metadata /\ UNCHANGED data

BeginOpen(h, flags) ==
    /\ ~hs[h].open
    /\ Begins([NoCall EXCEPT !.op = "open", !.h = h, !.flags = flags])
    /\ pc' = "find" /\ UNCHANGED hs

OpenSizeNoMod(f, size) == [f EXCEPT !.size = IF "TRUNC" \in f.flags THEN 0 ELSE size]
OpenSize(f, size) ==
    LET cut == "TRUNC" \in f.flags /\ size # 0
    IN  [f EXCEPT !.size = IF cut THEN 0 ELSE size, !.mod = cut]

(* follow_path found the entry: the handle is filled in, and sought to the *)
(* start or to the end.                                                    *)
Find ==
    /\ pc = "find" /\ UNCHANGED data
    /\ \E o \in UpdateBuf("dir") :
         \/ Fails(o)
         \/ /\ o.ok /\ Took(o)
            /\ LET f == OpenSize([NoHandle EXCEPT !.open = TRUE, !.flags = call.flags],
                                 o.win.buf.size)
               IN  SeekBegins(call, f, IF "APPEND" \in f.flags THEN f.size ELSE 0)

Denied(op, h) == \/ op = "read" /\ "READ" \notin hs[h].flags
                 \/ op = "write" /\ "WRITE" \notin hs[h].flags

(* fat_file_read, fat_file_write, up to their loops. *)
BeginTransfer(op, h, n, v) ==
    /\ hs[h].open /\ ~Denied(op, h)
    /\ Begins([NoCall EXCEPT !.op = op, !.h = h, !.len = n, !.val = v])
    /\ hs' = [hs EXCEPT ![h].acc = TRUE, ![h].mod = @ \/ op = "write"]
    /\ pc' = "chunk"

Idx == Handle.offset % SectSize
Cnt == Min2(call.len, Min2(SectSize - Idx, Handle.size - Handle.offset))

(* Bytes are copied from the buffer, as far as it and the file reach. *)
ReadChunk ==
    /\ pc = "chunk" /\ call.op = "read"
    /\ UNCHANGED Metadata /\ UNCHANGED data
    /\ IF call.len > 0 /\ Handle.offset < Handle.size
       THEN SeekBegins([call EXCEPT !.len = @ - Cnt], Handle, Handle.offset + Cnt)
       ELSE Returns(call.op, "NONE") /\ UNCHANGED hs

SizeAfterPlain(f) == f.offset
SizeAfter(f) == IF f.offset > f.size THEN f.offset ELSE f.size

PutBytesWhole(f, n) == [i \in DOMAIN f.buf |-> call.val]
(* n bytes go to the buffer from the handle's offset on. *)
PutBytes(f, n) ==
    LET idx == f.offset % SectSize
    IN  [i \in DOMAIN f.buf |-> IF idx <= i /\ i < idx + n THEN call.val ELSE f.buf[i]]

(* Bytes are copied to the buffer, as far as it reaches.  The error of the *)
(* last seek is in a variable of the loop and is not returned.             *)
WriteChunk ==
    /\ pc = "chunk" /\ call.op = "write"
    /\ UNCHANGED Metadata /\ UNCHANGED data
    /\ IF call.len > 0
       THEN LET n == Min2(call.len, SectSize - Idx)
            IN  SeekBegins([call EXCEPT !.len = @ - n],
                           [Handle EXCEPT !.buf = PutBytes(Handle, n), !.dirty = TRUE],
                           Handle.offset + n)
       ELSE /\ hs' = [hs EXCEPT ![call.h].size = SizeAfter(Handle)]
            /\ Returns(call.op, "NONE")

(* fat_file_seek as a caller uses it. *)
Base(f, whence) == CASE whence = "START" -> 0 [] whence = "CURR" -> f.offset
                     [] whence = "END" -> f.size
BeginSeek(h, off, whence) ==
    /\ hs[h].open
    /\ pc = "idle" /\ ~spoilt /\ UNCHANGED Metadata /\ UNCHANGED data
    /\ spoilt' = Astray(hs[h])
    /\ LET c == [NoCall EXCEPT !.op = "seek", !.h = h]
       IN  SeekBegins(c, hs[h], Base(hs[h], whence) + off)

(* fat_file_sync, and fat_file_close, which is no more than that. *)
BeginSync(op, h) ==
    /\ hs[h].open
    /\ Begins([NoCall EXCEPT !.op = op, !.h = h])
    /\ pc' = "put" /\ UNCHANGED hs

SyncFails(o) == ~o.ok /\ Took(o) /\ Returns(call.op, "IO") /\ UNCHANGED <<data, hs>>

(* The buffer is written where the handle stands, dirty or not. *)
Put ==
    /\ pc = "put"
    /\ \/ Faulted /\ data' \in {data, Stored(Handle.sect)} /\ Returns(call.op, "IO") /\ UNCHANGED hs
       \/ /\ data' = Stored(Handle.sect) /\ UNCHANGED Metadata
          /\ pc' = IF Handle.acc \/ Handle.mod THEN "touch" ELSE "flush"
          /\ UNCHANGED <<hs, call, res>>

(* Dates, and the size when the file was modified, go to the entry. *)
Touch ==
    /\ pc = "touch"
    /\ \E o \in UpdateBuf("dir") :
         \/ SyncFails(o)
         \/ /\ Writes(o, "size", IF Handle.mod THEN Handle.size ELSE o.win.buf.size)
            /\ hs' = [g \in Handles |->
                        IF g # call.h /\ hs[g].open /\ Handle.mod
                        THEN [hs[g] EXCEPT !.late = TRUE] ELSE hs[g]]
            /\ pc' = "flush" /\ UNCHANGED <<data, call, res>>

(* sync_fs; then the marks are cleared, and a closed handle is forgotten.  *)
Flush ==
    /\ pc = "flush"
    /\ \E o \in SyncBuf :
         \/ SyncFails(o)
         \/ /\ o.ok /\ Took(o) /\ Returns(call.op, "NONE") /\ UNCHANGED data
            /\ hs' = [hs EXCEPT ![call.h] =
                        IF call.op = "close" THEN NoHandle
                        ELSE [@ EXCEPT !.acc = FALSE, !.mod = FALSE]]

(* Power is lost; what handles and window had is gone. *)
Crash ==
    /\ faults < MaxFaults /\ faults' = faults + 1
    /\ win' = [sect |-> "none", buf |-> [x \in {} |-> 0], dirty |-> FALSE]
    /\ hs' = [h \in Handles |-> NoHandle]
    /\ pc' = "idle" /\ call' = NoCall /\ res' = [op |-> "mount", err |-> "NONE"]
    /\ UNCHANGED <<disk, data, spoilt>>

Step == \/ Find \/ Follow \/ Stretch \/ StretchSync \/ Arrive \/ Back \/ Fill
        \/ ReadChunk \/ WriteChunk \/ Put \/ Touch \/ Flush

Begin == \E h \in Handles :
    \/ \E flags \in Flags : BeginOpen(h, flags)
    \/ \E op \in Uses \cap {"read", "write"}, n \in 1 .. MaxLen :
         \E v \in IF op = "write" THEN Vals ELSE {0} : BeginTransfer(op, h, n, v)
    \/ \E off \in Seeks, w \in {"START", "CURR", "END"} :
         "seek" \in Uses /\ BeginSeek(h, off, w)
    \/ \E op \in Uses \cap {"sync", "close"} : BeginSync(op, h)

(* Handle g has sector s in its buffer. *)
Has(g, s) == hs[g].open /\ hs[g].at = s

SharedNow == {s \in Sectors : \E g, h \in Handles :
                g # h /\ Has(g, s) /\ Has(h, s) /\ "WRITE" \in hs[g].flags}

Next ==
    /\ Begin \/ (Step /\ UNCHANGED spoilt) \/ Crash
    /\ lost' = IF \E h \in Handles : hs'[h].open THEN lost \cup SharedNow' ELSE {}

Spec == Init /\ [][Next]_vars
-----------------------------------------------------------------------------
TypeOK ==
    /\ disk.fat.len \in 1 .. MaxClusts /\ disk.dir.size \in 0 .. MaxOff
    /\ win.sect \in {"none", "fat", "dir"} /\ win.dirty \in BOOLEAN
    /\ data \in [Sectors -> Buffers]
    /\ \A h \in Handles :
         /\ hs[h].flags \subseteq {"READ", "WRITE", "APPEND", "TRUNC"}
         /\ {hs[h].size, hs[h].offset} \subseteq 0 .. MaxOff
         /\ hs[h].clust \in 1 .. MaxClusts
         /\ {hs[h].sect, hs[h].at} \subseteq Sectors \cup {NoSect}
         /\ hs[h].buf \in Buffers
         /\ {hs[h].open, hs[h].dirty, hs[h].acc, hs[h].mod} \subseteq BOOLEAN
    /\ call.len \in 0 .. MaxLen /\ call.left \in 0 .. (MaxOff \div ClustSize)
    /\ call.ssect \in Sectors \cup {NoSect}
    /\ res.err \in {"NONE", "IO", "FULL", "EOF"}
    /\ lost \subseteq Sectors /\ spoilt \in BOOLEAN

(* A handle whose calls all succeeded stands where its offset says and has *)
(* that sector in its buffer, whatever clusters it went through; also      *)
(* after a write, or a read, that found the volume full.                   *)
PositionIsRight == \A h \in Handles :
    hs[h].open /\ call.h # h /\ ~hs[h].hurt => Sane(hs[h])

(* The handles hold what the code can store in them, at the right place.   *)
HandlesSound == TypeOK /\ PositionIsRight

(* When fat_file_close has succeeded, the medium has the bytes of the      *)
(* buffer and, if no other handle rewrote it meanwhile, the size the       *)
(* handle had; nothing waits in the window.                                *)
CloseIsDurable == [][
    \A h \in Handles :
        (hs[h].open /\ ~hs'[h].open /\ res'.op = "close" /\ res'.err = "NONE")
        => /\ data'[hs[h].sect] = hs[h].buf
           /\ hs[h].late \/ disk'.dir.size = hs[h].size
           /\ ~win'.dirty
    ]_vars

(* The size in the entry never shrinks, unless by a handle opened to       *)
(* truncate, or by one that was open while another grew the file, or by a  *)
(* loss of power.                                                          *)
NoShrink == [][
    View("dir").size' < View("dir").size
    => res'.op = "mount" \/ Handle.late \/ "TRUNC" \in Handle.flags
    ]_vars

(* Programs are only read (app.c): whichever transfers fail, handles       *)
(* opened for reading leave the bytes and the size alone, as long as no    *)
(* handle is used that a failure has left astray: fat_file_sync then       *)
(* writes the bytes of one sector over another (fat.c:1483).               *)
ReadersLeaveFile == [][
    ~spoilt
    => data' = data /\ View("dir").size' = View("dir").size
    ]_vars

(* Reading a file to its end can add a cluster to it, but never more than  *)
(* one beyond its size, however often it is read.                          *)
ChainBounded == ~spoilt => View("fat").len <= View("dir").size \div ClustSize + 1

(* The bytes a reader gets: the medium's, or those in the buffer of the    *)
(* handle that has the sector.                                             *)
Holds(h, s) == Has(h, s) /\ (~Astray(hs[h]) \/ call.h = h)
Seen(i) ==
    LET s == i \div SectSize
        hold == {h \in Handles : Holds(h, s)}
        buf == IF hold = {} THEN data[s] ELSE hs[CHOOSE h \in hold : TRUE].buf
    IN  buf[i % SectSize]

File == INSTANCE ByteFile WITH
    Gone    <- NoSect,
    content <- [i \in Bytes |-> Seen(i)],
    stable  <- [i \in Bytes |-> data[i \div SectSize][i % SectSize]],
    pos     <- [h \in Handles |->
                  IF hs[h].open /\ (~Astray(hs[h]) \/ call.h = h) THEN hs[h].offset ELSE NoSect],
    broken  <- spoilt

(* Through a handle the file is an array of bytes: what is read is what    *)
(* was last written, buffers and seeks do not show, and a failed call      *)
(* takes back one sector at most.                                          *)
ImplementsFile == File!Spec
=============================================================================
