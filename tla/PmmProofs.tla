------------------------------ MODULE PmmProofs ------------------------------
(***************************************************************************)
(* Proofs about Pmm, for every memory map, every list of ranges to set     *)
(* aside and every width of a byte: what was reserved at boot stays out of *)
(* the hands of callers although the test of a page looks at its           *)
(* neighbours, and the bitmap is exactly what boot left and what is out.   *)
(***************************************************************************)
EXTENDS Pmm, Iteration, FiniteSetTheorems, TLAPS

(* A page that is marked tests as used. *)
LEMMA MarkedTests == ASSUME NEW m, NEW p \in m, m \subseteq Int PROVE Test(m, p)
  BY DEF Test

(* Marking more pages keeps a page used. *)
LEMMA TestGrows == ASSUME NEW m, NEW n, m \subseteq n, NEW p, Test(m, p) PROVE Test(n, p)
  BY DEF Test

(* The bits of a bitmap are natural numbers, and cover the pages. *)
LEMMA BitsCover ==
    ASSUME NEW t \in Nat
    PROVE  /\ Bits(t) \subseteq Nat
           /\ 0 .. (t - 1) \subseteq Bits(t)
           /\ IsFiniteSet(Bits(t))
  <1> DEFINE top == (t \div ByteBits + 1) * ByteBits - 1
  <1>1. top \in Int /\ t <= top
    BY PmmAssumption
  <1> QED BY <1>1, FS_Interval DEF Bits

-----------------------------------------------------------------------------
(* What the phases of pmm_init have and have not done yet. *)
Phases ==
    /\ pc = "size" => marked = {}
    /\ pc \in {"size", "place"} => i = 1
    /\ pc \in {"size", "place", "clear"} => used = 0
    /\ pc # "ready" => owned = {} /\ held = {}

(* Conventional memory ends at total_pages. *)
ConvBelow == pc \notin {"size", "panic"} => ConvPages \subseteq 0 .. (total - 1)

(* memset has marked everything; only conventional pages are ever cleared. *)
HolesMarked ==
    pc \in {"clear", "reserve", "ready"} => Bits(total) \ ConvPages \subseteq marked

ClearedSoFar ==
    pc = "clear" => \A k \in ConvDescs : k < i => Pages(boot.mmap[k]) \cap marked = {}

ReservedSoFar ==
    pc = "reserve" =>
        \A k \in 1 .. Len(Reserves) : k < i =>
            \A p \in InRange(Reserves[k]) : p < total => Test(marked, p)

(* What makes the reserved pages test as used was marked by boot.  Callers  *)
(* hold none of it, so no one takes the cover away.                         *)
HeldCovers == pc = "ready" => \A p \in Reserved : p < total => Test(held, p)

IInv ==
    /\ TypeOK /\ Phases /\ ConvBelow /\ HolesMarked
    /\ ClearedSoFar /\ ReservedSoFar /\ HeldCovers
    /\ OwnedIsSafe /\ MarksExact /\ UsedTracks

(* The descriptors of a boot are descriptors. *)
LEMMA BootTypes ==
    ASSUME TypeOK
    PROVE  /\ \A k \in 1 .. Len(boot.mmap) : boot.mmap[k] \in Descs
           /\ ConvDescs \subseteq 1 .. Len(boot.mmap)
           /\ Len(boot.mmap) \in Nat
           /\ ConvPages \subseteq Nat
  <1>1. boot.mmap \in Seq(Descs)  BY PmmAssumption DEF TypeOK
  <1>2. /\ \A k \in 1 .. Len(boot.mmap) : boot.mmap[k] \in Descs
        /\ Len(boot.mmap) \in Nat
    BY <1>1
  <1>3. ConvDescs \subseteq 1 .. Len(boot.mmap)  BY DEF ConvDescs
  <1>4. \A d \in Descs : Pages(d) \subseteq Nat  BY DEF Descs, Pages
  <1> QED BY <1>2, <1>3, <1>4 DEF ConvPages

(* The first bound of memory. *)
LEMMA SizeUpKeeps == ASSUME IInv, SizeUp PROVE IInv'
  <1>1. TypeOK  BY DEF IInv
  <1>2. /\ marked = {} /\ i = 1 /\ used = 0 /\ owned = {} /\ held = {}
        /\ UNCHANGED <<boot, i, home, marked, used, usable, held, owned>>
    BY DEF IInv, Phases, SizeUp
  <1>3. pc' \in {"panic", "place"} /\ total' \in Nat
    <2>1. \A k \in ConvDescs : boot.mmap[k].first + boot.mmap[k].pages \in Nat
      BY <1>1, BootTypes DEF Descs
    <2>2. total \in Nat  BY <1>1 DEF TypeOK
    <2>3. \/ pc' = "panic" /\ UNCHANGED total
          \/ \E k \in ConvDescs : /\ total' = boot.mmap[k].first + boot.mmap[k].pages
                                 /\ pc' = "place"
      BY DEF SizeUp
    <2> QED BY <2>1, <2>2, <2>3
  <1>4. TypeOK'  BY <1>1, <1>2, <1>3 DEF TypeOK
  <1>5. Phases'  BY <1>2, <1>3 DEF Phases
  <1>6. ConvBelow'
    <2> SUFFICES ASSUME pc' = "place", NEW q \in ConvPages PROVE q \in 0 .. (total' - 1)
      BY <1>2, <1>3 DEF ConvBelow, ConvPages, ConvDescs
    <2>1. PICK k \in ConvDescs : q \in Pages(boot.mmap[k])  BY DEF ConvPages
    <2>2. boot.mmap[k].first + boot.mmap[k].pages <= total'  BY DEF SizeUp
    <2>3. boot.mmap[k].first \in Nat /\ boot.mmap[k].pages \in Nat
      BY <1>1, BootTypes DEF Descs
    <2>4. q >= boot.mmap[k].first /\ q <= boot.mmap[k].first + boot.mmap[k].pages - 1 /\ q \in Int
      BY <2>1, <2>3 DEF Pages
    <2>5. total' \in Nat  BY <1>3
    <2>6. \A f, n, t \in Nat, x \in Int :
            (x >= f /\ x <= f + n - 1 /\ f + n <= t) => x \in 0 .. (t - 1)
      OBVIOUS
    <2> QED BY <2>2, <2>3, <2>4, <2>5, <2>6
  <1>7. OwnedIsSafe'  BY <1>2 DEF OwnedIsSafe
  <1> QED BY <1>3, <1>4, <1>5, <1>6, <1>7
          DEF IInv, HolesMarked, ClearedSoFar, ReservedSoFar, HeldCovers, MarksExact, UsedTracks

(* The bitmap finds its place and starts full. *)
LEMMA PlaceKeeps == ASSUME IInv, Place PROVE IInv'
  <1>1. TypeOK  BY DEF IInv
  <1>2. /\ i = 1 /\ used = 0 /\ owned = {} /\ held = {}
        /\ UNCHANGED <<boot, i, total, used, usable, held, owned>>
    BY DEF IInv, Phases, Place
  <1>3. /\ pc' \in {"panic", "clear"}
        /\ home' \in Nat
        /\ marked' \subseteq Bits(total)
        /\ pc' = "clear" => marked' = Bits(total)
    BY <1>1, BootTypes DEF Place, TypeOK, Descs
  <1>4. TypeOK'  BY <1>1, <1>2, <1>3 DEF TypeOK
  <1>5. Phases'  BY <1>2, <1>3 DEF Phases
  <1>6. ConvBelow'
    BY <1>2, <1>3 DEF ConvBelow, ConvPages, ConvDescs, IInv, Place
  <1>7. HolesMarked'  BY <1>2, <1>3 DEF HolesMarked
  <1>8. OwnedIsSafe'  BY <1>2 DEF OwnedIsSafe
  <1>9. ClearedSoFar'
    BY <1>2 DEF ClearedSoFar, ConvDescs
  <1> QED BY <1>3, <1>4, <1>5, <1>6, <1>7, <1>8, <1>9
          DEF IInv, ReservedSoFar, HeldCovers, MarksExact, UsedTracks

(* One conventional range is cleared; after the last, reserving begins.     *)
LEMMA ClearKeeps == ASSUME IInv, Clear PROVE IInv'
  <1>1. TypeOK /\ Phases /\ ConvBelow /\ HolesMarked /\ ClearedSoFar  BY DEF IInv
  <1>2. /\ used = 0 /\ owned = {} /\ held = {} /\ pc = "clear"
        /\ UNCHANGED <<boot, home, total, used, held, owned>>
    BY <1>1 DEF Phases, Clear
  <1>3. UNCHANGED ConvDescs /\ UNCHANGED ConvPages  BY <1>2 DEF ConvPages, ConvDescs
  <1>4. OwnedIsSafe'  BY <1>2 DEF OwnedIsSafe
  <1>5. CASE i > Len(boot.mmap)
    <2>1. pc' = "reserve" /\ i' = 1 /\ UNCHANGED <<marked, usable>>
      BY <1>1, <1>5, BootTypes DEF Clear, TypeOK
    <2>2. TypeOK'  BY <1>1, <1>2, <2>1 DEF TypeOK
    <2>3. ConvPages \cap marked = {}
      <3>1. \A k \in ConvDescs : k < i  BY <1>1, <1>5, BootTypes DEF TypeOK
      <3> QED BY <1>1, <1>2, <3>1 DEF ClearedSoFar, ConvPages
    <2>4. UsedTracks'
      BY <1>2, <1>3, <2>1, <2>3, FS_EmptySet DEF UsedTracks
    <2>5. ReservedSoFar'  BY <2>1 DEF ReservedSoFar
    <2>6. HolesMarked' /\ ConvBelow'
      BY <1>1, <1>2, <1>3, <2>1 DEF HolesMarked, ConvBelow
    <2> QED BY <1>2, <1>4, <2>1, <2>2, <2>4, <2>5, <2>6
            DEF IInv, Phases, ClearedSoFar, HeldCovers, MarksExact
  <1>6. CASE i <= Len(boot.mmap)
    <2> DEFINE d == boot.mmap[i]
    <2>1. i' = i + 1 /\ pc' = "clear" /\ i \in 1 .. Len(boot.mmap)
      BY <1>1, <1>2, <1>6, BootTypes DEF Clear, TypeOK
    <2>2. d \in Descs  BY <1>1, <2>1, BootTypes
    <2>3. /\ d.conv => marked' = marked \ (Pages(d) \cap (0 .. (total - 1)))
          /\ ~d.conv => marked' = marked
      BY <1>1, <1>6, BootTypes DEF Clear, TypeOK
    <2>4. usable' \in Nat  BY <1>1, <1>6, <2>2 DEF Clear, TypeOK, Descs
    <2>5. TypeOK'  BY <1>1, <1>2, <2>1, <2>3, <2>4 DEF TypeOK
    <2>6. d.conv => i \in ConvDescs /\ Pages(d) \subseteq 0 .. (total - 1)
      BY <1>1, <1>2, <2>1 DEF ConvDescs, ConvPages, ConvBelow
    <2>7. ClearedSoFar'
      <3> SUFFICES ASSUME NEW k \in ConvDescs, k < i + 1
                   PROVE  Pages(boot.mmap[k]) \cap marked' = {}
        BY <1>2, <1>3, <2>1 DEF ClearedSoFar
      <3>1. CASE k = i
        BY <2>3, <2>6, <3>1 DEF ConvDescs
      <3>2. CASE k < i
        BY <1>1, <1>2, <2>3, <3>2 DEF ClearedSoFar
      <3> QED BY <1>1, <3>1, <3>2, BootTypes DEF TypeOK
    <2>8. HolesMarked'
      <3>1. d.conv => Pages(d) \subseteq ConvPages  BY <2>6 DEF ConvPages
      <3> QED BY <1>1, <1>2, <1>3, <2>3, <3>1 DEF HolesMarked
    <2>9. ConvBelow'  BY <1>1, <1>2, <1>3, <2>1 DEF ConvBelow
    <2> QED BY <1>2, <1>4, <2>1, <2>5, <2>7, <2>8, <2>9
            DEF IInv, Phases, ReservedSoFar, HeldCovers, MarksExact, UsedTracks
  <1> QED BY <1>1, <1>5, <1>6, BootTypes DEF TypeOK

(* Counting the marked conventional pages after marking a set of free ones. *)
LEMMA MarkCounts ==
    ASSUME TypeOK, NEW S, S \subseteq ConvPages, S \subseteq Bits(total), S \cap marked = {}
    PROVE  /\ IsFiniteSet(S) /\ Cardinality(S) \in Nat
           /\ Cardinality((marked \cup S) \cap ConvPages)
                = Cardinality(marked \cap ConvPages) + Cardinality(S)
  <1> DEFINE M == marked \cap ConvPages
  <1>1. IsFiniteSet(Bits(total))  BY BitsCover DEF TypeOK
  <1>2. IsFiniteSet(S) /\ IsFiniteSet(M)  BY <1>1, FS_Subset DEF TypeOK
  <1>3. M \cap S = {} /\ (marked \cup S) \cap ConvPages = M \cup S  OBVIOUS
  <1>4. Cardinality(M \cup S) = Cardinality(M) + Cardinality(S) - Cardinality(M \cap S)
    BY <1>2, FS_Union
  <1>5. Cardinality(M \cap S) = 0  BY <1>3, FS_EmptySet
  <1>6. Cardinality(M) \in Nat /\ Cardinality(S) \in Nat  BY <1>2, FS_CardinalityType
  <1>7. Cardinality(M \cup S) = Cardinality(M) + Cardinality(S)  BY <1>4, <1>5, <1>6
  <1>8. (marked \cup S) \cap ConvPages = M \cup S  BY <1>3
  <1>9. Cardinality((marked \cup S) \cap ConvPages) = Cardinality(M) + Cardinality(S)
    BY <1>7, <1>8
  <1> QED BY <1>2, <1>6, <1>9

(* The ranges set aside are ranges. *)
LEMMA ReserveTypes ==
    ASSUME TypeOK
    PROVE  /\ Len(Reserves) \in Nat
           /\ \A k \in 1 .. Len(Reserves) :
                Reserves[k] \in Ranges /\ InRange(Reserves[k]) \subseteq Nat
  <1> DEFINE mine == [first |-> home, last |-> home + BitmapPages(total)]
  <1>1. boot.before \in Seq(Ranges) /\ boot.after \in Seq(Ranges)
    BY PmmAssumption DEF TypeOK
  <1>2. BitmapPages(total) \in Nat  BY PmmAssumption DEF BitmapPages, TypeOK
  <1>3. mine \in Ranges  BY <1>2 DEF TypeOK, Ranges
  <1> HIDE DEF mine
  <1>4. <<mine>> \in Seq(Ranges)  BY <1>3
  <1>5. Reserves \in Seq(Ranges)
    <2>1. boot.before \o <<mine>> \in Seq(Ranges)  BY <1>1, <1>4
    <2>2. (boot.before \o <<mine>>) \o boot.after \in Seq(Ranges)  BY <1>1, <2>1
    <2> QED BY <2>2 DEF Reserves, mine
  <1>6. \A r \in Ranges : InRange(r) \subseteq Nat  BY DEF Ranges, InRange
  <1> QED BY <1>5, <1>6

(* A page of memory that tests as free is conventional, and its own bit is  *)
(* clear.                                                                   *)
LEMMA FreeIsConv ==
    ASSUME TypeOK, HolesMarked, pc \in {"reserve", "ready"},
           NEW p \in Nat, p < total, ~Test(marked, p)
    PROVE  p \in ConvPages /\ p \in Bits(total) /\ p \notin marked
  <1>1. marked \subseteq Int  BY BitsCover DEF TypeOK
  <1>2. p \notin marked  BY <1>1, MarkedTests
  <1>3. p \in Bits(total)
    <2>1. p \in 0 .. (total - 1)  BY DEF TypeOK
    <2> QED BY <2>1, BitsCover DEF TypeOK
  <1> QED BY <1>2, <1>3 DEF HolesMarked

(* One range is set aside; after the last, the allocator is ready. *)
LEMMA ReserveKeeps == ASSUME IInv, Reserve PROVE IInv'
  <1>1. /\ TypeOK /\ Phases /\ ConvBelow /\ HolesMarked /\ ReservedSoFar /\ UsedTracks
        /\ OwnedIsSafe
    BY DEF IInv
  <1>2. /\ owned = {} /\ held = {} /\ pc = "reserve"
        /\ UNCHANGED <<boot, home, total, usable, owned>>
    BY <1>1 DEF Phases, Reserve
  <1>3. /\ UNCHANGED ConvPages /\ UNCHANGED Reserves /\ UNCHANGED Reserved
    BY <1>2 DEF ConvPages, ConvDescs, Reserves, Reserved
  <1>4. OwnedIsSafe'  BY <1>2 DEF OwnedIsSafe
  <1>5. CASE i > Len(Reserves)
    <2>1. pc' = "ready" /\ held' = marked /\ UNCHANGED <<i, marked, used>>
      BY <1>1, <1>5, ReserveTypes DEF Reserve, TypeOK
    <2>2. TypeOK'  BY <1>1, <1>2, <2>1 DEF TypeOK
    <2>3. HeldCovers'
      <3> SUFFICES ASSUME NEW p \in Reserved, p < total PROVE Test(marked, p)
        BY <1>2, <1>3, <2>1 DEF HeldCovers
      <3>1. PICK k \in 1 .. Len(Reserves) : p \in InRange(Reserves[k])  BY DEF Reserved
      <3>2. k < i  BY <1>1, <1>5, ReserveTypes DEF TypeOK
      <3> QED BY <1>1, <1>2, <3>1, <3>2 DEF ReservedSoFar
    <2>4. MarksExact'  BY <1>2, <2>1 DEF MarksExact
    <2>5. UsedTracks'  BY <1>1, <1>2, <1>3, <2>1 DEF UsedTracks
    <2>6. HolesMarked' /\ ConvBelow'
      BY <1>1, <1>2, <1>3, <2>1 DEF HolesMarked, ConvBelow
    <2> QED BY <1>2, <1>4, <2>1, <2>2, <2>3, <2>4, <2>5, <2>6
            DEF IInv, Phases, ClearedSoFar, ReservedSoFar
  <1>6. CASE i <= Len(Reserves)
    <2> DEFINE r == Reserves[i]
               S == Fresh(r)
    <2>1. /\ i' = i + 1 /\ pc' = "reserve" /\ UNCHANGED held
          /\ marked' = marked \cup S
          /\ used' = used + Cardinality(S)
      BY <1>1, <1>2, <1>6, ReserveTypes DEF Reserve, TypeOK
    <2>2. i \in 1 .. Len(Reserves) /\ r \in Ranges /\ InRange(r) \subseteq Nat
      BY <1>1, <1>6, ReserveTypes DEF TypeOK
    <2> HIDE DEF r
    <2>3. S \subseteq ConvPages /\ S \subseteq Bits(total) /\ S \cap marked = {}
      BY <1>1, <1>2, <2>2, FreeIsConv DEF Fresh
    <2> HIDE DEF S
    <2>4. /\ Cardinality(S) \in Nat
          /\ Cardinality((marked \cup S) \cap ConvPages)
               = Cardinality(marked \cap ConvPages) + Cardinality(S)
      BY <1>1, <2>3, MarkCounts
    <2>5. TypeOK'
      BY <1>1, <1>2, <2>1, <2>3, <2>4 DEF TypeOK
    <2>6. UsedTracks'
      BY <1>1, <1>2, <1>3, <2>1, <2>4 DEF UsedTracks
    <2>7. ReservedSoFar'
      <3> SUFFICES ASSUME NEW k \in 1 .. Len(Reserves), k < i + 1,
                          NEW p \in InRange(Reserves[k]), p < total
                   PROVE  Test(marked \cup S, p)
        BY <1>2, <1>3, <2>1 DEF ReservedSoFar
      <3>1. CASE k = i
        <4>1. p \in InRange(r)  BY <3>1 DEF r
        <4>2. CASE Test(marked, p)  BY <4>2, TestGrows
        <4>3. CASE ~Test(marked, p)
          <5>1. p \in S  BY <4>1, <4>3 DEF S, Fresh
          <5>2. marked \cup S \subseteq Int
            BY <1>1, <2>3, BitsCover DEF TypeOK
          <5> QED BY <5>1, <5>2, MarkedTests
        <4> QED BY <4>2, <4>3
      <3>2. CASE k < i
        <4>1. Test(marked, p)  BY <1>1, <1>2, <3>2 DEF ReservedSoFar
        <4> QED BY <4>1, TestGrows
      <3> QED BY <1>1, <3>1, <3>2 DEF TypeOK
    <2>8. HolesMarked' /\ ConvBelow'
      BY <1>1, <1>2, <1>3, <2>1 DEF HolesMarked, ConvBelow
    <2> QED BY <1>2, <1>4, <2>1, <2>5, <2>6, <2>7, <2>8
            DEF IInv, Phases, ClearedSoFar, HeldCovers, MarksExact
  <1> QED BY <1>1, <1>5, <1>6, ReserveTypes DEF TypeOK

(* A run of pages that test as free is handed out. *)
LEMMA AllocKeeps == ASSUME IInv, NEW n \in Requests, Alloc(n) PROVE IInv'
  <1>1. /\ TypeOK /\ Phases /\ ConvBelow /\ HolesMarked /\ UsedTracks
        /\ OwnedIsSafe /\ MarksExact /\ HeldCovers
    BY DEF IInv
  <1>2. /\ pc = "ready" /\ n \in Nat \ {0}
        /\ UNCHANGED <<boot, pc, i, home, total, usable, held>>
    BY PmmAssumption DEF Alloc
  <1>3. /\ UNCHANGED ConvPages /\ UNCHANGED Reserves /\ UNCHANGED Reserved
    BY <1>2 DEF ConvPages, ConvDescs, Reserves, Reserved
  <1>4. PICK s \in 0 .. (total - 1) :
          /\ Fits(s, n)
          /\ marked' = marked \cup Run(s, n)
          /\ used' = used + n
          /\ owned' = owned \cup Run(s, n)
    BY DEF Alloc
  <1>5. s \in Nat /\ total \in Nat  BY <1>1 DEF TypeOK
  <1> DEFINE S == Run(s, n)
  <1>6. \A p \in S : p \in Nat /\ p < total /\ ~Test(marked, p)
    BY <1>2, <1>4, <1>5 DEF Fits, Run
  <1>7. Cardinality(S) = n
    BY <1>2, <1>5, FS_Interval DEF Run
  <1> HIDE DEF S
  <1>8. S \subseteq ConvPages /\ S \subseteq Bits(total) /\ S \cap marked = {}
    BY <1>1, <1>2, <1>6, FreeIsConv
  <1>9. S \cap Reserved = {}
    <2> SUFFICES ASSUME NEW p \in S, p \in Reserved PROVE FALSE  OBVIOUS
    <2>1. Test(held, p)  BY <1>1, <1>2, <1>6 DEF HeldCovers
    <2>2. held \subseteq marked  BY <1>1, <1>2 DEF MarksExact
    <2>3. Test(marked, p)  BY <2>1, <2>2, TestGrows
    <2> QED BY <1>6, <2>3
  <1>10. S \subseteq 0 .. (total - 1)  BY <1>5, <1>6
  <1>11. TypeOK'
    <2>1. marked' \subseteq Bits(total)  BY <1>1, <1>4, <1>8 DEF TypeOK, S
    <2>2. owned' \subseteq 0 .. (total - 1)  BY <1>1, <1>4, <1>10 DEF TypeOK, S
    <2>3. used' \in Nat  BY <1>1, <1>2, <1>4 DEF TypeOK
    <2> QED BY <1>1, <1>2, <2>1, <2>2, <2>3 DEF TypeOK
  <1>12. OwnedIsSafe'
    BY <1>1, <1>3, <1>4, <1>8, <1>9 DEF OwnedIsSafe, S
  <1>13. MarksExact'
    BY <1>1, <1>2, <1>4, <1>8 DEF MarksExact, S
  <1>14. UsedTracks'
    <2>1. Cardinality((marked \cup S) \cap ConvPages)
            = Cardinality(marked \cap ConvPages) + Cardinality(S)
      BY <1>1, <1>8, MarkCounts
    <2>2. marked' = marked \cup S  BY <1>4 DEF S
    <2> QED BY <1>1, <1>2, <1>3, <1>4, <1>7, <2>1, <2>2 DEF UsedTracks
  <1>15. HolesMarked' /\ ConvBelow' /\ HeldCovers'
    BY <1>1, <1>2, <1>3, <1>4 DEF HolesMarked, ConvBelow, HeldCovers
  <1> QED BY <1>1, <1>2, <1>11, <1>12, <1>13, <1>14, <1>15
          DEF IInv, Phases, ClearedSoFar, ReservedSoFar

(* A page its caller was given comes back. *)
LEMMA FreeKeeps == ASSUME IInv, NEW p \in owned, Free(p) PROVE IInv'
  <1>1. /\ TypeOK /\ Phases /\ ConvBelow /\ HolesMarked /\ UsedTracks
        /\ OwnedIsSafe /\ MarksExact /\ HeldCovers
    BY DEF IInv
  <1>2. /\ pc = "ready"
        /\ UNCHANGED <<boot, pc, i, home, total, usable, held>>
        /\ marked' = marked \ {p} /\ used' = used - 1 /\ owned' = owned \ {p}
    BY DEF Free
  <1>3. /\ UNCHANGED ConvPages /\ UNCHANGED Reserves /\ UNCHANGED Reserved
    BY <1>2 DEF ConvPages, ConvDescs, Reserves, Reserved
  <1> DEFINE M == marked \cap ConvPages
  <1>4. p \in M  BY <1>1, <1>2 DEF MarksExact, OwnedIsSafe
  <1>5. IsFiniteSet(M)
    <2>1. IsFiniteSet(Bits(total))  BY <1>1, BitsCover DEF TypeOK
    <2> QED BY <1>1, <2>1, FS_Subset DEF TypeOK
  <1>6. (marked \ {p}) \cap ConvPages = M \ {p}  OBVIOUS
  <1> HIDE DEF M
  <1>7. Cardinality(M \ {p}) = Cardinality(M) - 1 /\ IsFiniteSet(M \ {p})
    BY <1>4, <1>5, FS_RemoveElement
  <1>8. Cardinality(M \ {p}) \in Nat  BY <1>7, FS_CardinalityType
  <1>9. used = Cardinality(M)  BY <1>1, <1>2 DEF UsedTracks, M
  <1>10. used' = Cardinality(M \ {p}) /\ used' \in Nat
    BY <1>2, <1>7, <1>8, <1>9
  <1>11. TypeOK'  BY <1>1, <1>2, <1>10 DEF TypeOK
  <1>12. UsedTracks'  BY <1>2, <1>3, <1>6, <1>10 DEF UsedTracks
  <1>13. OwnedIsSafe'  BY <1>1, <1>2, <1>3 DEF OwnedIsSafe
  <1>14. MarksExact'  BY <1>1, <1>2 DEF MarksExact
  <1>15. HolesMarked'
    BY <1>1, <1>2, <1>3 DEF HolesMarked, OwnedIsSafe
  <1>16. ConvBelow' /\ HeldCovers'
    BY <1>1, <1>2, <1>3 DEF ConvBelow, HeldCovers
  <1> QED BY <1>1, <1>2, <1>11, <1>12, <1>13, <1>14, <1>15, <1>16
          DEF IInv, Phases, ClearedSoFar, ReservedSoFar

-----------------------------------------------------------------------------
LEMMA InitHolds == ASSUME Init PROVE IInv
  <1>1. Bits(0) \subseteq Nat  BY BitsCover
  <1>2. TypeOK  BY DEF Init, TypeOK
  <1> QED BY <1>2 DEF Init, IInv, Phases, ConvBelow, HolesMarked, ClearedSoFar,
             ReservedSoFar, HeldCovers, OwnedIsSafe, MarksExact, UsedTracks

LEMMA NextKeeps == ASSUME IInv, [Next]_vars PROVE IInv'
  <1>1. CASE UNCHANGED vars
    <2>1. UNCHANGED <<boot, pc, i, home, total, marked, used, usable, held, owned>>
      BY <1>1 DEF vars
    <2>2. UNCHANGED ConvDescs /\ UNCHANGED ConvPages  BY <2>1 DEF ConvPages, ConvDescs
    <2>3. UNCHANGED Reserves /\ UNCHANGED Reserved  BY <2>1 DEF Reserves, Reserved
    <2>4. (TypeOK /\ Phases)'  BY <2>1 DEF IInv, TypeOK, Phases
    <2>5. (ConvBelow /\ HolesMarked /\ ClearedSoFar)'
      BY <2>1, <2>2 DEF IInv, ConvBelow, HolesMarked, ClearedSoFar
    <2>6. (ReservedSoFar /\ HeldCovers)'
      BY <2>1, <2>3 DEF IInv, ReservedSoFar, HeldCovers
    <2>7. (OwnedIsSafe /\ MarksExact /\ UsedTracks)'
      BY <2>1, <2>2, <2>3 DEF IInv, OwnedIsSafe, MarksExact, UsedTracks
    <2> QED BY <2>4, <2>5, <2>6, <2>7 DEF IInv
  <1>2. CASE SizeUp  BY <1>2, SizeUpKeeps
  <1>3. CASE Place  BY <1>3, PlaceKeeps
  <1>4. CASE Clear  BY <1>4, ClearKeeps
  <1>5. CASE Reserve  BY <1>5, ReserveKeeps
  <1>6. CASE \E n \in Requests : Alloc(n)  BY <1>6, AllocKeeps
  <1>7. CASE \E p \in owned : Free(p)  BY <1>7, FreeKeeps
  <1> QED BY <1>1, <1>2, <1>3, <1>4, <1>5, <1>6, <1>7 DEF Next

LEMMA Inductive == Spec => []IInv
  <1> QED BY InitHolds, NextKeeps, PTL DEF Spec

(* Every variable of the allocator holds what the code can store in it.     *)
THEOREM TypeCorrect == Spec => []TypeOK
  <1>1. IInv => TypeOK  BY DEF IInv
  <1> QED BY <1>1, Inductive, PTL

(* No page of the kernel, of the firmware or of the bitmap is ever handed   *)
(* out, and none outside conventional memory: whatever the memory map is.   *)
THEOREM NeverHandsOutReserved == Spec => []OwnedIsSafe
  <1>1. IInv => OwnedIsSafe  BY DEF IInv
  <1> QED BY <1>1, Inductive, PTL

(* A page that boot set aside tests as used for ever after, though the test *)
(* may be answered by a neighbour's bit.                                    *)
THEOREM ReservedStaysUsed == Spec => []ReservedStays
  <1>1. IInv => ReservedStays
    <2> SUFFICES ASSUME IInv, pc = "ready", NEW p \in Reserved, p < total
                 PROVE  Test(marked, p)
      BY DEF ReservedStays
    <2>1. Test(held, p)  BY DEF IInv, HeldCovers
    <2>2. held \subseteq marked  BY DEF IInv, MarksExact
    <2> QED BY <2>1, <2>2, TestGrows
  <1> QED BY <1>1, Inductive, PTL

(* The bitmap is what boot left and what is handed out, and used_pages      *)
(* counts its conventional pages.                                           *)
THEOREM BitmapIsExact == Spec => [](MarksExact /\ UsedTracks)
  <1>1. IInv => MarksExact /\ UsedTracks  BY DEF IInv
  <1> QED BY <1>1, Inductive, PTL

-----------------------------------------------------------------------------
(* Marking pages below p leaves the test of p as it was. *)
LEMMA LowerMarksHide ==
    ASSUME NEW m, NEW S, NEW p \in Int, \A q \in S : q \in Int /\ q < p
    PROVE  Test(m \cup S, p) <=> Test(m, p)
  BY DEF Test

(* The loop of reserv_range marks the pages of the range that test free in  *)
(* the bitmap it begins with.                                               *)
LEMMA LoopMarkedIs ==
    ASSUME NEW r \in Ranges PROVE LoopMarked(r) = marked \cup Fresh(r)
  <1>1. r.first \in Nat /\ r.last \in Nat  BY DEF Ranges
  <1>2. CASE r.first >= r.last
    <2>1. Fresh(r) = {}  BY <1>1, <1>2 DEF Fresh, InRange
    <2> QED BY <1>2, <2>1 DEF LoopMarked
  <1>3. CASE r.first < r.last
    <2> DEFINE D == r.first .. r.last
               Round(p, m) == IF p - 1 < total /\ ~Test(m, p - 1) THEN m \cup {p - 1} ELSE m
               Body(f) == [p \in D |-> IF p = r.first THEN marked ELSE Round(p, f[p - 1])]
               after == CHOOSE f : f = Body(f)
               New(p) == {q \in r.first .. (p - 1) : q < total /\ ~Test(marked, q)}
               done == [p \in D |-> marked \cup New(p)]
    <2>1. LoopMarked(r) = after[r.last]  BY <1>1, <1>3 DEF LoopMarked
    <2>2. \A p \in D : p # r.first => p - 1 \in D /\ Round(p, marked \cup New(p - 1)) = marked \cup New(p)
      <3> SUFFICES ASSUME NEW p \in D, p # r.first
                   PROVE  p - 1 \in D /\ Round(p, marked \cup New(p - 1)) = marked \cup New(p)
        OBVIOUS
      <3>1. p \in Int /\ p - 1 \in D /\ p - 1 \in r.first .. (p - 1)  BY <1>1
      <3>2. Test(marked \cup New(p - 1), p - 1) <=> Test(marked, p - 1)
        <4>1. \A q \in New(p - 1) : q \in Int /\ q < p - 1  BY <1>1, <3>1
        <4>2. p - 1 \in Int  BY <3>1
        <4> HIDE DEF New
        <4> QED BY <4>1, <4>2, LowerMarksHide, Zenon
      <3>3. r.first .. (p - 1) = (r.first .. ((p - 1) - 1)) \cup {p - 1}  BY <1>1, <3>1
      <3>4. CASE p - 1 < total /\ ~Test(marked, p - 1)
        <4>1. New(p) = New(p - 1) \cup {p - 1}  BY <3>3, <3>4
        <4> HIDE DEF New
        <4> QED BY <3>1, <3>2, <3>4, <4>1
      <3>5. CASE ~(p - 1 < total /\ ~Test(marked, p - 1))
        <4>1. New(p) = New(p - 1)  BY <3>3, <3>5
        <4> HIDE DEF New
        <4> QED BY <3>1, <3>2, <3>5, <4>1
      <3> QED BY <3>4, <3>5
    <2>3. New(r.first) = {}  BY <1>1
    <2> HIDE DEF Round
    <2>4. done = Body(done)
      <3> HIDE DEF New
      <3> QED BY <2>2, <2>3
    <2>5. after = Body(after)
      <3> HIDE DEF Body, done
      <3> QED BY <2>4
    <2> HIDE DEF after
    <2> DEFINE T == {k \in 0 .. (r.last - r.first) : after[r.first + k] = marked \cup New(r.first + k)}
    <2>6. 0 \in T
      <3>1. r.first \in D /\ r.first + 0 = r.first  BY <1>1, <1>3
      <3>2. after[r.first] = marked  BY <2>5, <3>1
      <3> HIDE DEF New
      <3> QED BY <1>1, <1>3, <2>3, <3>1, <3>2
    <2>7. \A k \in 1 .. (r.last - r.first) : k - 1 \in T => k \in T
      <3> SUFFICES ASSUME NEW k \in 1 .. (r.last - r.first), k - 1 \in T PROVE k \in T
        OBVIOUS
      <3> DEFINE p == r.first + k
      <3>1. p \in D /\ p # r.first /\ r.first + (k - 1) = p - 1  BY <1>1, <1>3
      <3> HIDE DEF p, New
      <3>2. after[p - 1] = marked \cup New(p - 1)  BY <3>1
      <3>3. after[p] = Round(p, after[p - 1])  BY <2>5, <3>1
      <3>4. after[p] = marked \cup New(p)  BY <2>2, <3>1, <3>2, <3>3
      <3> QED BY <3>4 DEF p
    <2>8. r.last - r.first \in T
      <3> HIDE DEF T
      <3>1. r.last - r.first \in Nat  BY <1>1, <1>3
      <3> QED BY <2>6, <2>7, <3>1, EveryRound
    <2>9. after[r.last] = marked \cup New(r.last)
      <3>1. r.first + (r.last - r.first) = r.last  BY <1>1
      <3> HIDE DEF New
      <3> QED BY <2>8, <3>1
    <2>10. New(r.last) = Fresh(r)  BY DEF Fresh, InRange
    <2> QED BY <2>1, <2>9, <2>10
  <1> QED BY <1>1, <1>2, <1>3

(* What the loop of pmm_alloc_pages knows after the pages below p: while it *)
(* has found nothing, its count is that of the free pages right below p,    *)
(* and no run of n below p is free; and what it has found is the lowest.    *)
FreeRun(t, n) == \A q \in Run(t, n) : ~Test(marked, q)

Counts(n, p, st) ==
    /\ st.cnt <= p /\ st.cnt < n
    /\ st.cnt > 0 => st.start = p - st.cnt
    /\ \A q \in (p - st.cnt) .. (p - 1) : ~Test(marked, q)
    /\ st.cnt < p => Test(marked, p - st.cnt - 1)
    /\ \A t \in Nat : t + n <= p => ~FreeRun(t, n)

FoundIt(n, p, st) ==
    /\ st.found + n <= p
    /\ FreeRun(st.found, n)
    /\ \A t \in 0 .. (st.found - 1) : ~FreeRun(t, n)

Scans == [cnt : Nat, start : Nat, found : Nat \cup {NoRun}]

Scanned(n, p, st) ==
    /\ st \in Scans
    /\ IF st.found = NoRun THEN Counts(n, p, st) ELSE FoundIt(n, p, st)

(* A round of the loop: page p - 1 is looked at. *)
Round(n, p, was) ==
    LET start == IF was.cnt = 0 THEN p - 1 ELSE was.start
    IN  IF was.found # NoRun THEN was
        ELSE IF Test(marked, p - 1) THEN [was EXCEPT !.cnt = 0]
        ELSE [cnt |-> was.cnt + 1, start |-> start,
              found |-> IF was.cnt + 1 = n THEN start ELSE NoRun]

LEMMA RoundScans ==
    ASSUME NEW n \in Nat \ {0}, NEW p \in Nat \ {0}, NEW was, Scanned(n, p - 1, was)
    PROVE  Scanned(n, p, Round(n, p, was))
  <1>1. was \in Scans  BY DEF Scanned
  <1>2. PICK c \in Nat, b \in Nat, f \in Nat \cup {NoRun} :
          was = [cnt |-> c, start |-> b, found |-> f]
    BY <1>1 DEF Scans
  <1>3. was.cnt = c /\ was.start = b /\ was.found = f  BY <1>2
  <1>4. CASE f # NoRun
    <2>1. Round(n, p, was) = was  BY <1>3, <1>4 DEF Round
    <2>2. f + n <= p - 1  BY <1>3, <1>4 DEF Scanned, FoundIt
    <2>3. f + n <= p  BY <1>4, <2>2
    <2> QED BY <1>1, <1>3, <1>4, <2>1, <2>3 DEF Scanned, FoundIt
  <1>5. CASE f = NoRun
    <2>1. /\ c <= p - 1 /\ c < n
          /\ c > 0 => b = (p - 1) - c
          /\ \A q \in ((p - 1) - c) .. (p - 2) : ~Test(marked, q)
          /\ c < p - 1 => Test(marked, (p - 1) - c - 1)
          /\ \A t \in Nat : t + n <= p - 1 => ~FreeRun(t, n)
      BY <1>3, <1>5 DEF Scanned, Counts
    <2>2. CASE Test(marked, p - 1)
      <3>1. Round(n, p, was) = [cnt |-> 0, start |-> b, found |-> NoRun]
        BY <1>2, <1>5, <2>2 DEF Round
      <3>2. \A t \in Nat : t + n <= p => ~FreeRun(t, n)
        <4> SUFFICES ASSUME NEW t \in Nat, t + n = p PROVE ~FreeRun(t, n)
          BY <2>1
        <4>1. p - 1 \in Run(t, n)  BY DEF Run
        <4> QED BY <2>2, <4>1 DEF FreeRun
      <3> QED BY <2>2, <3>1, <3>2 DEF Scanned, Counts, Scans
    <2>3. CASE ~Test(marked, p - 1)
      <3> DEFINE start == IF c = 0 THEN p - 1 ELSE b
      <3>1. start = p - (c + 1) /\ start \in Nat  BY <2>1
      <3>2. Round(n, p, was) = [cnt |-> c + 1, start |-> start,
                                found |-> IF c + 1 = n THEN start ELSE NoRun]
        BY <1>2, <1>5, <2>3 DEF Round
      <3> HIDE DEF start
      <3>3. \A q \in start .. (p - 1) : ~Test(marked, q)
        <4> TAKE q \in start .. (p - 1)
        <4>1. q = p - 1 \/ q \in ((p - 1) - c) .. (p - 2)  BY <3>1
        <4> QED BY <2>1, <2>3, <4>1
      <3>4. CASE c + 1 = n
        <4>1. Round(n, p, was) = [cnt |-> c + 1, start |-> start, found |-> start]
          BY <3>2, <3>4
        <4>2. start # NoRun  BY <3>1 DEF NoRun
        <4>3. start + n = p  BY <3>1, <3>4
        <4>4. FreeRun(start, n)
          <5>1. Run(start, n) = start .. (p - 1)  BY <4>3, <3>1 DEF Run
          <5> QED BY <3>3, <5>1 DEF FreeRun
        <4>5. \A t \in 0 .. (start - 1) : ~FreeRun(t, n)  BY <2>1, <3>1, <4>3
        <4> QED BY <3>1, <4>1, <4>2, <4>3, <4>4, <4>5 DEF Scanned, FoundIt, Scans
      <3>5. CASE c + 1 # n
        <4>1. Round(n, p, was) = [cnt |-> c + 1, start |-> start, found |-> NoRun]
          BY <3>2, <3>5
        <4>2. c + 1 <= p /\ c + 1 < n  BY <2>1, <3>5
        <4>3. c + 1 < p => Test(marked, p - (c + 1) - 1)
          <5>1. p - (c + 1) - 1 = (p - 1) - c - 1  OBVIOUS
          <5> QED BY <2>1, <5>1
        <4>4. \A t \in Nat : t + n <= p => ~FreeRun(t, n)
          <5> SUFFICES ASSUME NEW t \in Nat, t + n = p PROVE ~FreeRun(t, n)
            BY <2>1
          <5>1. c + 1 < p /\ p - (c + 1) - 1 \in Run(t, n)  BY <4>2 DEF Run
          <5> QED BY <4>3, <5>1 DEF FreeRun
        <4> QED BY <3>1, <3>3, <4>1, <4>2, <4>3, <4>4 DEF Scanned, Counts, Scans
      <3> QED BY <3>4, <3>5
    <2> QED BY <2>2, <2>3
  <1> QED BY <1>4, <1>5

(* The loop ends with the lowest run of n pages that test free. *)
LEMMA LoopStartIs ==
    ASSUME TypeOK, NEW n \in Nat \ {0}
    PROVE  IF LoopStart(n) = NoRun THEN \A t \in 0 .. (total - 1) : ~Fits(t, n)
           ELSE Fits(LoopStart(n), n) /\ \A t \in 0 .. (LoopStart(n) - 1) : ~Fits(t, n)
  <1> DEFINE none == [cnt |-> 0, start |-> 0, found |-> NoRun]
             Body(f) == [p \in 0 .. total |-> IF p = 0 THEN none ELSE Round(n, p, f[p - 1])]
             after == CHOOSE f : f = Body(f)
             body == [x \in (1 .. total) \X Scans |-> Round(n, x[1], x[2])]
  <1>1. total \in Nat  BY DEF TypeOK
  <1>2. LoopStart(n) = after[total].found  BY DEF LoopStart, Round
  <1>3. none \in Scans  BY DEF Scans
  <1>4. \A p \in 1 .. total, was \in Scans : Round(n, p, was) \in Scans
    BY DEF Round, Scans
  <1>5. body \in [(1 .. total) \X Scans -> Scans]  BY <1>4
  <1>6. \E f : Loops(f, total, Scans, none, body)
    <2> HIDE DEF none, body
    <2> QED BY <1>1, <1>3, <1>5, RoundsExist
  <1>7. PICK f \in [0 .. total -> Scans] :
           f[0] = none /\ \A p \in 1 .. total : f[p] = body[<<p, f[p - 1]>>]
    BY <1>6 DEF Loops
  <1>8. f = Body(f)
    <2>1. \A p \in 0 .. total : p # 0 => f[p] = Round(n, p, f[p - 1])
      <3> TAKE p \in 0 .. total
      <3>1. HAVE p # 0
      <3>2. p \in 1 .. total /\ f[p - 1] \in Scans  BY <1>1, <3>1
      <3> QED BY <1>7, <3>2
    <2> HIDE DEF none, body
    <2> QED BY <1>7, <2>1
  <1>9. after = Body(after)
    <2> HIDE DEF Body
    <2> QED BY <1>8
  <1> HIDE DEF after, body
  <1> DEFINE T == {p \in 0 .. total : Scanned(n, p, after[p])}
  <1>10. 0 \in T
    <2>1. after[0] = none /\ 0 \in 0 .. total  BY <1>1, <1>9
    <2>2. \A t \in Nat : ~(t + n <= 0)  OBVIOUS
    <2>3. none.cnt = 0 /\ none.found = NoRun  OBVIOUS
    <2> HIDE DEF none
    <2>4. Counts(n, 0, none)  BY <2>2, <2>3 DEF Counts
    <2> QED BY <1>3, <2>1, <2>3, <2>4 DEF Scanned
  <1>11. \A p \in 1 .. total : p - 1 \in T => p \in T
    <2> TAKE p \in 1 .. total
    <2>1. HAVE p - 1 \in T
    <2>2. p \in 0 .. total /\ p \in Nat \ {0} /\ Scanned(n, p - 1, after[p - 1])  BY <2>1
    <2>3. after[p] = Round(n, p, after[p - 1])
      <3> HIDE DEF none
      <3> QED BY <1>9, <2>2
    <2> QED BY <2>2, <2>3, RoundScans
  <1>12. Scanned(n, total, after[total])
    <2>1. total \in T
      <3> HIDE DEF T
      <3> QED BY <1>1, <1>10, <1>11, EveryRound
    <2> QED BY <2>1
  <1> DEFINE s == LoopStart(n)
  <1>13. s \in Nat \cup {NoRun}  BY <1>2, <1>12 DEF Scanned, Scans
  <1>14. CASE s = NoRun
    <2>1. \A t \in Nat : t + n <= total => ~FreeRun(t, n)
      BY <1>2, <1>12, <1>14 DEF Scanned, Counts
    <2>2. \A t \in 0 .. (total - 1) : ~Fits(t, n)
      BY <2>1 DEF Fits, FreeRun
    <2> QED BY <1>14, <2>2
  <1>15. CASE s # NoRun
    <2>1. /\ s + n <= total /\ FreeRun(s, n)
          /\ \A t \in 0 .. (s - 1) : ~FreeRun(t, n)
      BY <1>2, <1>12, <1>15 DEF Scanned, FoundIt
    <2>2. Fits(s, n) /\ \A t \in 0 .. (s - 1) : ~Fits(t, n)
      BY <2>1 DEF Fits, FreeRun
    <2> QED BY <1>15, <2>2
  <1> QED BY <1>14, <1>15

(* What boot and allocation count is what the actions say, loop by loop:    *)
(* used_pages counts the marked conventional pages, the loop of             *)
(* pmm_alloc_pages finds the lowest run that is long enough, and that of    *)
(* reserv_range marks the pages that test free before it.                   *)
THEOREM BookkeepingIsRight == Spec => []BookkeepingRight
  <1>1. IInv => BookkeepingRight
    <2> SUFFICES ASSUME IInv PROVE BookkeepingRight  OBVIOUS
    <2>1. TypeOK /\ UsedTracks  BY DEF IInv
    <2>2. LoopIsFirstFit
      <3>1. \A n \in Requests \ {0} : n \in Nat \ {0}  BY PmmAssumption
      <3> QED BY <2>1, <3>1, LoopStartIs DEF LoopIsFirstFit
    <2>3. LoopMarksFresh
      <3> SUFFICES ASSUME i <= Len(Reserves)
                   PROVE  LoopMarked(Reserves[i]) = marked \cup Fresh(Reserves[i])
        BY DEF LoopMarksFresh
      <3>1. i \in 1 .. Len(Reserves)  BY <2>1, ReserveTypes DEF TypeOK
      <3>2. Reserves[i] \in Ranges  BY <2>1, <3>1, ReserveTypes
      <3> QED BY <3>2, LoopMarkedIs
    <2> QED BY <2>1, <2>2, <2>3 DEF BookkeepingRight
  <1> QED BY <1>1, Inductive, PTL
=============================================================================
