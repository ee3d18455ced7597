-------------------------------- MODULE Pmm --------------------------------
(***************************************************************************)
(* The physical page allocator of src/kernel/memory_paging.c: building the *)
(* bitmap from the memory map of the boot loader, setting the kernel's own *)
(* ranges aside, then handing out runs of pages and taking pages back.     *)
(*                                                                         *)
(* The allocator's test of a page shifts the page's bit down to bit 0 but  *)
(* does not mask the bits above it, so a page reads as used when any page  *)
(* at or above it in the same byte of the bitmap is.  The model keeps      *)
(* that, and asks what it costs.                                           *)
(*                                                                         *)
(* Addresses are counted in pages.  last_alloc is left out: it is written  *)
(* and never read.                                                         *)
(*                                                                         *)
(* A definition that stands right before another and extends its name      *)
(* (TestAbove, FreshMissesLast, ...) is a mistake the code could have      *)
(* made: put in the other's place, it must break a property.               *)
(***************************************************************************)
EXTENDS Integers, Sequences, FiniteSets

CONSTANTS
    ByteBits,    \* bits in a byte of the bitmap (8)
    PageBytes,   \* PAGE_SIZE
    Boots,       \* what the boot loader and the linker can hand over
    Requests     \* page counts that callers ask for

(* A boot has a memory map, and the ranges that pmm_init reserves before    *)
(* and after that of the bitmap itself.  A range is [first, last).          *)
Descs  == [conv : BOOLEAN, first : Nat, pages : Nat]
Ranges == [first : Nat, last : Nat]

ASSUME PmmAssumption ==
    /\ ByteBits \in Nat \ {0}
    /\ PageBytes \in Nat \ {0}
    /\ Boots \subseteq [mmap : Seq(Descs), before : Seq(Ranges), after : Seq(Ranges)]
    /\ Requests \subseteq Nat

VARIABLES
    boot,      \* the boot_info_t of this start
    pc,        \* which loop of pmm_init runs; "ready" after it
    i,         \* that loop's index
    home,      \* first page of the bitmap
    total,     \* total_pages
    marked,    \* pages whose bit is set
    used,      \* used_pages
    usable,    \* usable_pages
    held,      \* marked when pmm_init returned
    owned      \* pages handed out and not given back

vars == <<boot, pc, i, home, total, marked, used, usable, held, owned>>

-----------------------------------------------------------------------------
Pages(d)  == d.first .. (d.first + d.pages - 1)
InRange(r) == r.first .. (r.last - 1)

ConvDescs == {k \in 1 .. Len(boot.mmap) : boot.mmap[k].conv}
ConvPages == UNION {Pages(boot.mmap[k]) : k \in ConvDescs}

(* The bits the tests can look at: those of the bytes of the pages, with    *)
(* the last byte's bits past total_pages, which memset has set too.         *)
Bits(t) == 0 .. ((t \div ByteBits + 1) * ByteBits - 1)

(* Pages that the bitmap fills. *)
BitmapPages(t) == ((t \div ByteBits + 1) + PageBytes - 1) \div PageBytes

(* bitmap_test. *)
TestAbove(m, p) == \E q \in m : q > p /\ q \div ByteBits = p \div ByteBits
Test(m, p) == \E q \in m : q >= p /\ q \div ByteBits = p \div ByteBits

Reserves == boot.before \o <<[first |-> home, last |-> home + BitmapPages(total)]>> \o boot.after

Reserved == UNION {InRange(Reserves[k]) : k \in 1 .. Len(Reserves)}

Init ==
    /\ boot \in Boots
    /\ pc = "size" /\ i = 1
    /\ home = 0 /\ total = 0
    /\ marked = {} /\ used = 0 /\ usable = 0
    /\ held = {} /\ owned = {}

(* The end of conventional memory bounds the bitmap; without any, panic. *)
SizeUp ==
    /\ pc = "size"
    /\ \/ /\ \A k \in ConvDescs : boot.mmap[k].first + boot.mmap[k].pages = 0
          /\ pc' = "panic" /\ UNCHANGED total
       \/ \E k \in ConvDescs :
            LET end(j) == boot.mmap[j].first + boot.mmap[j].pages IN
            /\ end(k) > 0
            /\ \A j \in ConvDescs : end(j) <= end(k)
            /\ total' = end(k)
            /\ pc' = "place"
    /\ UNCHANGED <<boot, i, home, marked, used, usable, held, owned>>

(* The bitmap goes to the start of the first largest conventional range and *)
(* is filled with ones; when it does not fit there, panic.                  *)
Place ==
    /\ pc = "place"
    /\ \E k \in ConvDescs :
         LET d == boot.mmap[k] IN
         /\ \A j \in ConvDescs : /\ boot.mmap[j].pages <= d.pages
                                 /\ j < k => boot.mmap[j].pages < d.pages
         /\ \/ /\ BitmapPages(total) > d.pages
               /\ pc' = "panic" /\ UNCHANGED <<home, marked>>
            \/ /\ BitmapPages(total) <= d.pages
               /\ home' = d.first
               /\ marked' = Bits(total)
               /\ pc' = "clear"
    /\ UNCHANGED <<boot, i, total, used, usable, held, owned>>

(* The pages of one conventional range become free. *)
Clear ==
    /\ pc = "clear"
    /\ \/ /\ i > Len(boot.mmap)
          /\ pc' = "reserve" /\ i' = 1 /\ UNCHANGED <<marked, usable>>
       \/ /\ i <= Len(boot.mmap)
          /\ i' = i + 1 /\ UNCHANGED pc
          /\ IF boot.mmap[i].conv
             THEN /\ marked' = marked \ (Pages(boot.mmap[i]) \cap (0 .. (total - 1)))
                  /\ usable' = usable + boot.mmap[i].pages
             ELSE UNCHANGED <<marked, usable>>
    /\ UNCHANGED <<boot, home, total, used, held, owned>>

(* reserv_range goes up the pages; marking a page does not change the test  *)
(* of a higher one, so all its tests see the bitmap as it was before.       *)
FreshMissesLast(r) == {p \in InRange(r) : p + 1 < total /\ ~Test(marked, p)}
Fresh(r) == {p \in InRange(r) : p < total /\ ~Test(marked, p)}

(* The bitmap after the loop of reserv_range, page by page. *)
LoopMarked(r) ==
    LET after[p \in r.first .. r.last] ==
            IF p = r.first THEN marked
            ELSE LET m == after[p - 1] IN
                 IF p - 1 < total /\ ~Test(m, p - 1) THEN m \cup {p - 1} ELSE m
    IN  IF r.first >= r.last THEN marked ELSE after[r.last]

Reserve ==
    /\ pc = "reserve"
    /\ \/ /\ i > Len(Reserves)
          /\ pc' = "ready" /\ held' = marked /\ UNCHANGED <<i, marked, used>>
       \/ /\ i <= Len(Reserves)
          /\ i' = i + 1
          /\ marked' = marked \cup Fresh(Reserves[i])
          /\ used' = used + Cardinality(Fresh(Reserves[i]))
          /\ UNCHANGED <<pc, held>>
    /\ UNCHANGED <<boot, home, total, usable, owned>>

-----------------------------------------------------------------------------
RunLong(s, n) == s .. (s + n)
Run(s, n) == s .. (s + n - 1)

(* A run of n pages that all test as free. *)
FitsAtFirst(s, n) == s + n <= total /\ ~Test(marked, s)
Fits(s, n) == s + n <= total /\ \A p \in Run(s, n) : ~Test(marked, p)

(* The loop of pmm_alloc_pages after the pages below p: how many free pages *)
(* it has counted, where they start, and the run it has found.              *)
NoRun == -1

LoopStartNoReset(n) ==
    LET after[p \in 0 .. total] ==
            IF p = 0 THEN [cnt |-> 0, start |-> 0, found |-> NoRun]
            ELSE LET was == after[p - 1]
                     start == IF was.cnt = 0 THEN p - 1 ELSE was.start
                 IN  IF was.found # NoRun \/ Test(marked, p - 1) THEN was
                     ELSE [cnt |-> was.cnt + 1, start |-> start,
                           found |-> IF was.cnt + 1 = n THEN start ELSE NoRun]
    IN  after[total].found

LoopStart(n) ==
    LET after[p \in 0 .. total] ==
            IF p = 0 THEN [cnt |-> 0, start |-> 0, found |-> NoRun]
            ELSE LET was == after[p - 1]
                     start == IF was.cnt = 0 THEN p - 1 ELSE was.start
                 IN  IF was.found # NoRun THEN was
                     ELSE IF Test(marked, p - 1) THEN [was EXCEPT !.cnt = 0]
                     ELSE [cnt |-> was.cnt + 1, start |-> start,
                           found |-> IF was.cnt + 1 = n THEN start ELSE NoRun]
    IN  after[total].found

(* pmm_alloc_pages hands out the lowest such run, if the bitmap is not at  *)
(* NULL, where pmm_init may have put it.                                   *)
Alloc(n) ==
    /\ pc = "ready" /\ home # 0 /\ n > 0
    /\ \E s \in 0 .. (total - 1) :
         /\ Fits(s, n)
         /\ \A t \in 0 .. (s - 1) : ~Fits(t, n)
         /\ marked' = marked \cup Run(s, n)
         /\ used' = used + n
         /\ owned' = owned \cup Run(s, n)
    /\ UNCHANGED <<boot, pc, i, home, total, usable, held>>

(* pmm_free_page, for a page its caller was given. *)
Free(p) ==
    /\ pc = "ready" /\ home # 0 /\ p \in owned
    /\ p < total /\ Test(marked, p)
    /\ marked' = marked \ {p}
    /\ used' = used - 1
    /\ owned' = owned \ {p}
    /\ UNCHANGED <<boot, pc, i, home, total, usable, held>>

Next ==
    \/ SizeUp \/ Place \/ Clear \/ Reserve
    \/ \E n \in Requests : Alloc(n)
    \/ \E p \in owned : Free(p)

Spec == Init /\ [][Next]_vars

-----------------------------------------------------------------------------
(* Every variable holds what the code can store in it. *)
TypeOK ==
    /\ boot \in Boots
    /\ pc \in {"size", "place", "clear", "reserve", "ready", "panic"}
    /\ i \in Nat \ {0} /\ home \in Nat /\ total \in Nat
    /\ marked \subseteq Bits(total)
    /\ used \in Nat /\ usable \in Nat
    /\ held \subseteq Bits(total)
    /\ owned \subseteq 0 .. (total - 1)

(* A page set aside at boot reads as used for ever after, though its own    *)
(* bit may be clear: reserv_range skips a page whose test another page of   *)
(* the byte makes true, and nobody may clear that other page.               *)
ReservedStays ==
    pc = "ready" => \A p \in Reserved : p < total => Test(marked, p)

(* No page in use by the kernel, by the firmware or by the bitmap is ever   *)
(* handed out.                                                              *)
OwnedIsSafe ==
    /\ owned \cap Reserved = {}
    /\ owned \subseteq ConvPages

(* The bitmap is what boot left of it and what is handed out, apart from    *)
(* each other: giving everything back restores it, bit for bit.             *)
MarksExact ==
    pc = "ready" => held \cap owned = {} /\ marked = held \cup owned

(* used_pages counts the marked pages of conventional memory.               *)
UsedTracks == pc \in {"reserve", "ready"} => used = Cardinality(marked \cap ConvPages)

(* The loop of pmm_alloc_pages, which counts consecutive free pages and     *)
(* starts again at a used one, finds the lowest run that is long enough.    *)
LoopIsFirstFit ==
    pc = "ready" => \A n \in Requests \ {0} :
        LET s == LoopStart(n) IN
        IF s = NoRun THEN \A t \in 0 .. (total - 1) : ~Fits(t, n)
        ELSE Fits(s, n) /\ \A t \in 0 .. (s - 1) : ~Fits(t, n)

(* The loop of reserv_range, which tests each page in the bitmap the        *)
(* earlier pages have changed, marks the pages Reserve says.                *)
LoopMarksFresh ==
    (pc = "reserve" /\ i <= Len(Reserves)) =>
        LoopMarked(Reserves[i]) = marked \cup Fresh(Reserves[i])

(* What boot and allocation count and mark, loop by loop, is what the       *)
(* actions above say, in the bitmap and in used_pages.                      *)
BookkeepingRight == UsedTracks /\ LoopIsFirstFit /\ LoopMarksFresh
=============================================================================
