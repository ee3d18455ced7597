--------------------------- MODULE KbdStreamProofs ---------------------------
(***************************************************************************)
(* Proofs about KbdStream, for rings of every size and programs that read  *)
(* lines of every length.                                                  *)
(***************************************************************************)
EXTENDS KbdStream, Iteration, SequenceTheorems, TLAPS

(* A ring index moves to a ring index. *)
LEMMA WrapType == ASSUME NEW i \in Slots PROVE Wrap(i) \in Slots
  BY KbdAssumption DEF Wrap, Slots

(* The character of a key is one the ring can hold. *)
LEMMA CharOfType == ASSUME NEW k \in Keys \cup {"enter"} PROVE CharOf(k) \in Chars
  BY DEF CharOf, Column, Chars, Newline

(* The handler keeps the types, whatever the scancode. *)
LEMMA TypeIrq == ASSUME TypeOK, NEW sc \in Scancodes, KbdIrq(sc) PROVE TypeOK'
  <1> USE DEF TypeOK
  <1>1. /\ pc' \in Pcs
        /\ UNCHANGED <<intr, ch, line, len, sleeps, typed>>
    BY DEF KbdIrq, Wake, Pcs
  <1>2. /\ head' \in Slots /\ tail' \in Slots /\ buf' \in [Slots -> Chars]
        /\ overflow' \in 0 .. (CountMod - 1) /\ chars' \in 0 .. MaxChars
        /\ shift' \in BOOLEAN /\ caps' \in BOOLEAN
    <2>1. CASE sc.key = "shift" /\ shift' = ~sc.release /\ UNCHANGED caps /\ Quiet
      BY <2>1 DEF Quiet, ring, Scancodes
    <2>2. CASE caps' = ~caps /\ UNCHANGED shift /\ Quiet
      BY <2>2 DEF Quiet, ring
    <2>3. CASE BackspaceKey
      <3>1. Backspace \in Chars  BY DEF Chars
      <3> QED BY <2>3, <3>1, WrapType, KbdAssumption DEF BackspaceKey, RingPut, ring
    <2>4. CASE sc.key \in Keys \cup {"enter"} /\ CharKey(sc.key)
      <3>1. CharOf(sc.key) \in Chars  BY <2>4, CharOfType
      <3>2. (overflow + 1) % CountMod \in 0 .. (CountMod - 1)  BY KbdAssumption
      <3> QED BY <2>4, <3>1, <3>2, WrapType, KbdAssumption DEF CharKey, RingPut, ring
    <2>5. CASE UNCHANGED <<shift, caps>> /\ Quiet
      BY <2>5 DEF Quiet, ring
    <2> QED BY <2>1, <2>2, <2>3, <2>4, <2>5 DEF KbdIrq
  <1> QED BY <1>1, <1>2

(* The thread keeps the types, step by step. *)
LEMMA TypeThread == ASSUME TypeOK, Thread PROVE TypeOK'
  <1> USE DEF TypeOK, ring, kbd, Pcs
  <1>1. CASE Poll       BY <1>1, WrapType DEF Poll, RingGet
  <1>2. CASE StartProc  BY <1>2 DEF StartProc
  <1>3. CASE Loop       BY <1>3 DEF Loop
  <1>4. CASE Try
    <2>1. CASE \E c \in Chars : /\ RingGet(c) /\ ch' = c
                                /\ typed' = Append(typed, c) /\ pc' = "got"
      BY <1>4, <2>1, WrapType DEF Try, RingGet
    <2>2. CASE Empty /\ pc' = "sleep" /\ UNCHANGED <<ring, ch, typed>>
      BY <1>4, <2>2 DEF Try
    <2> QED BY <1>4, <2>1, <2>2 DEF Try
  <1>5. CASE Sleep      BY <1>5 DEF Sleep
  <1>6. CASE Got
    <2>1. Erase(line) \in Seq(Chars)  BY DEF Erase
    <2>2. Append(line, ch) \in Seq(Chars)  OBVIOUS
    <2>3. line' \in Seq(Chars) /\ pc' \in Pcs  BY <1>6, <2>1, <2>2 DEF Got
    <2> QED BY <1>6, <2>3 DEF Got
  <1>7. CASE Done       BY <1>7 DEF Done
  <1> QED BY <1>1, <1>2, <1>3, <1>4, <1>5, <1>6, <1>7 DEF Thread

(* A SYS_READ starts with an empty line. *)
LEMMA TypeEnter == ASSUME TypeOK, NEW n \in Lens, Enter(n) PROVE TypeOK'
  <1>1. <<>> \in Seq(Chars)  BY EmptySeq
  <1>2. pc' \in Pcs /\ intr' \in BOOLEAN  BY DEF Enter, EntryFlag, Pcs
  <1> QED BY <1>1, <1>2 DEF TypeOK, Enter, ring, kbd

(* Types are kept for ever: no index leaves the ring, no counter its range. *)
THEOREM TypeCorrect == Spec => []TypeOK
  <1>1. Init => TypeOK
    <2>1. <<>> \in Seq(Chars)  BY EmptySeq
    <2>2. 0 \in Slots /\ Newline \in Chars  BY KbdAssumption DEF Slots, Chars
    <2>3. 0 \in 0 .. (CountMod - 1) /\ 0 \in 0 .. MaxChars  BY KbdAssumption
    <2> QED BY <2>1, <2>2, <2>3 DEF Init, TypeOK, Pcs
  <1>2. TypeOK /\ [Next]_vars => TypeOK'
    <2> SUFFICES ASSUME TypeOK, [Next]_vars PROVE TypeOK'  OBVIOUS
    <2>1. CASE Thread                              BY <2>1, TypeThread
    <2>2. CASE \E n \in Lens : Enter(n)            BY <2>2, TypeEnter
    <2>3. CASE \E sc \in Scancodes : KbdIrq(sc)    BY <2>3, TypeIrq
    <2>4. CASE UNCHANGED vars
      BY <2>4 DEF vars, ring, kbd, reader, TypeOK
    <2> QED BY <2>1, <2>2, <2>3, <2>4 DEF Next
  <1> QED BY <1>1, <1>2, PTL DEF Spec

-----------------------------------------------------------------------------
(* While SYS_READ has not halted yet, interrupts are off from its gate on,  *)
(* so a ring found empty stays empty until the halt.                        *)
SleepInv ==
    /\ (pc \in {"loop", "try", "got", "sleep"} /\ sleeps = 0) => ~intr
    /\ (pc = "sleep" /\ sleeps = 0) => Empty
    /\ pc = "halted" => sleeps > 0
    /\ FirstSleepSafe

(* The thread keeps SleepInv. *)
LEMMA SleepThread == ASSUME TypeOK, SleepInv, Thread PROVE SleepInv'
  <1> USE DEF SleepInv, FirstSleepSafe, Empty, ring, kbd
  <1>1. CASE Poll       BY <1>1 DEF Poll
  <1>2. CASE StartProc  BY <1>2 DEF StartProc
  <1>3. CASE Loop       BY <1>3 DEF Loop
  <1>4. CASE Try        BY <1>4 DEF Try
  <1>5. CASE Sleep      BY <1>5 DEF Sleep, TypeOK
  <1>6. CASE Got        BY <1>6 DEF Got
  <1>7. CASE Done       BY <1>7 DEF Done
  <1> QED BY <1>1, <1>2, <1>3, <1>4, <1>5, <1>6, <1>7 DEF Thread

(* SYS_READ never halts for the first time with a character in the ring.    *)
THEOREM FirstSleepIsSafe == Spec => []FirstSleepSafe
  <1>1. Init => SleepInv
    BY DEF Init, SleepInv, FirstSleepSafe
  <1>2. TypeOK /\ SleepInv /\ [Next]_vars => SleepInv'
    <2> SUFFICES ASSUME TypeOK, SleepInv, [Next]_vars PROVE SleepInv'  OBVIOUS
    <2>1. CASE Thread  BY <2>1, SleepThread
    <2>2. CASE \E n \in Lens : Enter(n)
      <3>1. pc' \in {"loop", "done"} /\ ~intr'  BY <2>2 DEF Enter, EntryFlag
      <3> QED BY <3>1 DEF SleepInv, FirstSleepSafe
    <2>3. CASE \E sc \in Scancodes : KbdIrq(sc)
      BY <2>3 DEF SleepInv, FirstSleepSafe, KbdIrq, Wake
    <2>4. CASE UNCHANGED vars
      BY <2>4 DEF SleepInv, FirstSleepSafe, Empty, vars, ring, reader
    <2> QED BY <2>1, <2>2, <2>3, <2>4 DEF Next
  <1>3. SleepInv => FirstSleepSafe  BY DEF SleepInv
  <1> QED BY <1>1, <1>2, <1>3, TypeCorrect, PTL DEF Spec

-----------------------------------------------------------------------------
(* What the ring holds is a sequence of at most Size - 1 characters. *)
LEMMA ContentsType ==
    ASSUME TypeOK
    PROVE  /\ Count \in 0 .. (Size - 1)
           /\ \A k \in 1 .. Count : Slot(k) \in Slots
           /\ Contents \in Seq(Chars)
           /\ Len(Contents) = Count
  <1>0. Size \in Nat /\ Size > 1  BY KbdAssumption
  <1>1. Count \in 0 .. (Size - 1)  BY <1>0 DEF TypeOK, Slots, Count
  <1>2. ASSUME NEW k \in 1 .. Count PROVE Slot(k) \in Slots
    BY <1>0, <1>2 DEF TypeOK, Slots, Count, Slot
  <1>3. \A k \in 1 .. Count : buf[Slot(k)] \in Chars  BY <1>2 DEF TypeOK
  <1>4. Contents \in Seq(Chars)  BY <1>1, <1>3 DEF Contents
  <1>5. Len(Contents) = Count
    <2>1. DOMAIN Contents = 1 .. Count  BY DEF Contents
    <2>2. DOMAIN Contents = 1 .. Len(Contents)  BY <1>4, LenProperties
    <2>3. Len(Contents) \in Nat  BY <1>4, LenProperties
    <2> QED BY <2>1, <2>2, <2>3, <1>1
  <1> QED BY <1>1, <1>2, <1>4, <1>5

(* Storing a character at head appends it. *)
LEMMA PutAppends ==
    ASSUME TypeOK, TypeOK', NEW c \in Chars, RingPut(c)
    PROVE  Queue!Put(c)
  <1>0. Size \in Nat /\ Size > 1  BY KbdAssumption
  <1>1. Count' = Count + 1
    BY <1>0 DEF RingPut, Full, Wrap, Count, TypeOK, Slots
  <1>2. Count < Size - 1
    BY <1>0 DEF RingPut, Full, Wrap, Count, TypeOK, Slots
  <1>3. \A k \in 1 .. (Count + 1) : Slot(k)' = Slot(k)  BY DEF RingPut, Slot
  <1>4. Slot(Count + 1) = head
    BY <1>0 DEF Slot, Count, TypeOK, Slots
  <1>5. \A k \in 1 .. Count : Slot(k) # head
    BY <1>0 DEF Slot, Count, TypeOK, Slots
  <1>6. \A k \in 1 .. Count : Slot(k) \in Slots  BY ContentsType
  <1>7. Contents' = [k \in 1 .. (Count + 1) |-> buf'[Slot(k)]]
    BY <1>1, <1>3 DEF Contents
  <1>8. \A k \in 1 .. Count : Contents'[k] = Contents[k]
    <2>1. \A k \in 1 .. Count : buf'[Slot(k)] = buf[Slot(k)]
      BY <1>5, <1>6 DEF RingPut, TypeOK
    <2>2. \A k \in 1 .. Count : k \in 1 .. (Count + 1)  BY ContentsType
    <2> QED BY <1>7, <2>1, <2>2 DEF Contents
  <1>9. Contents'[Count + 1] = c
    <2>1. Count + 1 \in 1 .. (Count + 1)  BY ContentsType
    <2>2. buf'[head] = c  BY DEF RingPut, TypeOK
    <2> QED BY <1>4, <1>7, <2>1, <2>2
  <1>10. Contents' = Append(Contents, c)
    <2>1. Contents' \in Seq(Chars) /\ Len(Contents') = Count + 1
      <3>1. Count + 1 \in Nat  BY ContentsType
      <3>2. \A k \in 1 .. (Count + 1) : buf'[Slot(k)] \in Chars
        <4>1. \A k \in 1 .. (Count + 1) : Slot(k) \in Slots
          BY <1>4, <1>6, ContentsType DEF TypeOK
        <4>2. buf' \in [Slots -> Chars]  BY DEF TypeOK, RingPut
        <4> QED BY <4>1, <4>2
      <3>3. Contents' \in Seq(Chars)  BY <1>7, <3>1, <3>2
      <3>4. DOMAIN Contents' = 1 .. (Count + 1)  BY <1>7
      <3>5. DOMAIN Contents' = 1 .. Len(Contents') /\ Len(Contents') \in Nat
        BY <3>3, LenProperties
      <3> QED BY <3>1, <3>3, <3>4, <3>5
    <2>2. /\ Append(Contents, c) \in Seq(Chars)
          /\ Len(Append(Contents, c)) = Count + 1
          /\ \A k \in 1 .. Count : Append(Contents, c)[k] = Contents[k]
          /\ Append(Contents, c)[Count + 1] = c
      BY ContentsType, AppendProperties
    <2>3. \A k \in 1 .. (Count + 1) : Contents'[k] = Append(Contents, c)[k]
      BY <1>8, <1>9, <2>2, ContentsType
    <2> QED BY <2>1, <2>2, <2>3, SeqEqual
  <1> QED BY <1>2, <1>10, ContentsType DEF Queue!Put

(* Fetching a character from tail removes the oldest. *)
LEMMA GetTakesOldest ==
    ASSUME TypeOK, NEW c \in Chars, RingGet(c)
    PROVE  Queue!Get
  <1>0. Size \in Nat /\ Size > 1  BY KbdAssumption
  <1>1. Count > 0  BY <1>0 DEF RingGet, Empty, Count, TypeOK, Slots
  <1>2. Contents # <<>>
    BY <1>1, ContentsType, EmptySeq
  <1>3. Count' = Count - 1
    BY <1>0 DEF RingGet, Empty, Wrap, Count, TypeOK, Slots
  <1>4. \A k \in 1 .. (Count - 1) : Slot(k)' = Slot(k + 1)
    BY <1>0, ContentsType DEF RingGet, Empty, Wrap, Slot, TypeOK, Slots
  <1>5. Contents' = [k \in 1 .. (Count - 1) |-> buf[Slot(k + 1)]]
    BY <1>3, <1>4 DEF Contents, RingGet
  <1>6. /\ Tail(Contents) \in Seq(Chars)
        /\ Len(Tail(Contents)) = Count - 1
        /\ \A k \in 1 .. (Count - 1) : Tail(Contents)[k] = Contents[k + 1]
    BY <1>2, ContentsType, HeadTailProperties
  <1>7. \A k \in 1 .. (Count - 1) : Contents[k + 1] = buf[Slot(k + 1)]
    BY <1>1, ContentsType DEF Contents
  <1>8. Tail(Contents) = [k \in 1 .. (Count - 1) |-> buf[Slot(k + 1)]]
    <2>1. Tail(Contents) \in [1 .. (Count - 1) -> Chars]
      BY <1>6, LenProperties
    <2> QED BY <1>6, <1>7, <2>1
  <1> QED BY <1>2, <1>5, <1>8 DEF Queue!Get

(* Every step of the kernel is a step of the queue or leaves it alone: the  *)
(* ring is first-in first-out and loses nothing it accepted, for every size *)
(* and every interleaving of the handler with the readers.                  *)
THEOREM RingImplementsQueue == Spec => ImplementsQueue
  <1>1. Init => Queue!Init
    <2> SUFFICES ASSUME Init PROVE Contents = <<>>  BY DEF Queue!Init
    <2>1. Count = 0  BY DEF Init, Count
    <2> QED BY <2>1 DEF Contents
  <1>2. TypeOK /\ TypeOK' /\ [Next]_vars => [Queue!Next]_Contents
    <2> SUFFICES ASSUME TypeOK, TypeOK', [Next]_vars
                 PROVE  Queue!Next \/ UNCHANGED Contents
      OBVIOUS
    <2>1. UNCHANGED ring => UNCHANGED Contents
      BY DEF ring, Contents, Count, Slot
    <2>2. CASE Thread
      <3>1. UNCHANGED ring \/ \E c \in Chars : RingGet(c)
        BY <2>2 DEF Thread, Poll, StartProc, Loop, Try, Sleep, Got, Done
      <3> QED BY <2>1, <3>1, GetTakesOldest DEF Queue!Next
    <2>3. CASE \E n \in Lens : Enter(n)  BY <2>1, <2>3 DEF Enter
    <2>4. CASE \E sc \in Scancodes : KbdIrq(sc)
      <3>1. PICK sc \in Scancodes : KbdIrq(sc)  BY <2>4
      <3>2. Backspace \in Chars  BY DEF Chars
      <3>3. sc.key \in Keys \cup {"enter"} => CharOf(sc.key) \in Chars  BY CharOfType
      <3>4. UNCHANGED ring \/ \E c \in Chars : RingPut(c)
        BY <3>1, <3>2, <3>3 DEF KbdIrq, Quiet, BackspaceKey, CharKey
      <3> QED BY <2>1, <3>4, PutAppends DEF Queue!Next
    <2>5. CASE UNCHANGED vars  BY <2>1, <2>5 DEF vars
    <2> QED BY <2>2, <2>3, <2>4, <2>5 DEF Next
  <1> QED BY <1>1, <1>2, TypeCorrect, PTL DEF Spec, ImplementsQueue, Queue!Spec

-----------------------------------------------------------------------------
(* What one more character does to an edited line. *)
EditBy(t, c) ==
    CASE c = Newline -> t
      [] c = Backspace -> SubSeq(t, 1, IF t = <<>> THEN 0 ELSE Len(t) - 1)
      [] OTHER -> Append(t, c)

LEMMA EditByType ==
    ASSUME NEW t \in Seq(Chars), NEW c \in Chars
    PROVE  EditBy(t, c) \in Seq(Chars) /\ Len(EditBy(t, c)) <= Len(t) + 1
  <1>1. CASE c = Newline  BY <1>1, LenProperties DEF EditBy
  <1>2. CASE c # Newline /\ c = Backspace
    <2> DEFINE n == IF t = <<>> THEN 0 ELSE Len(t) - 1
    <2>1. n \in Nat /\ n <= Len(t)  BY LenProperties, EmptySeq
    <2>2. SubSeq(t, 1, n) \in Seq(Chars) /\ Len(SubSeq(t, 1, n)) = n
      BY <2>1, LenProperties, SubSeqProperties
    <2>3. EditBy(t, c) = SubSeq(t, 1, n)  BY <1>2 DEF EditBy
    <2> QED BY <2>1, <2>2, <2>3, LenProperties
  <1>3. CASE c # Newline /\ c # Backspace
    BY <1>3, AppendProperties, LenProperties DEF EditBy
  <1> QED BY <1>1, <1>2, <1>3

(* The lines that editing s goes through. *)
Edits(e, s) ==
    /\ e \in [0 .. Len(s) -> Seq(Chars)] /\ e[0] = <<>>
    /\ \A k \in 1 .. Len(s) : e[k] = EditBy(e[k - 1], s[k])

LEMMA EditedGoes ==
    ASSUME NEW s \in Seq(Chars)
    PROVE  \E e : Edits(e, s) /\ Edited(s) = e[Len(s)]
  <1> DEFINE n == Len(s)
             Body(f) == [k \in 0 .. n |-> IF k = 0 THEN <<>> ELSE EditBy(f[k - 1], s[k])]
             ed == CHOOSE f : f = Body(f)
             body == [x \in (1 .. n) \X Seq(Chars) |-> EditBy(x[2], s[x[1]])]
  <1>1. n \in Nat /\ \A k \in 1 .. n : s[k] \in Chars  BY LenProperties, ElementOfSeq
  <1>2. Edited(s) = ed[n]  BY DEF Edited, EditBy
  <1>3. <<>> \in Seq(Chars)  BY EmptySeq
  <1> HIDE DEF n
  <1>4. body \in [(1 .. n) \X Seq(Chars) -> Seq(Chars)]
    <2>1. \A k \in 1 .. n, t \in Seq(Chars) : EditBy(t, s[k]) \in Seq(Chars)
      BY <1>1, EditByType
    <2> QED BY <2>1
  <1>5. \E f : Loops(f, n, Seq(Chars), <<>>, body)
    <2> HIDE DEF body
    <2> QED BY <1>1, <1>3, <1>4, RoundsExist
  <1>6. PICK f \in [0 .. n -> Seq(Chars)] :
           f[0] = <<>> /\ \A k \in 1 .. n : f[k] = body[<<k, f[k - 1]>>]
    BY <1>5 DEF Loops
  <1>7. f = Body(f)
    <2>1. \A k \in 0 .. n : k # 0 => f[k] = EditBy(f[k - 1], s[k])
      <3> TAKE k \in 0 .. n
      <3>1. HAVE k # 0
      <3>2. k \in 1 .. n /\ f[k - 1] \in Seq(Chars)  BY <1>1, <3>1
      <3> QED BY <1>6, <3>2
    <2> HIDE DEF body
    <2> QED BY <1>6, <2>1
  <1>8. ed = Body(ed)
    <2> HIDE DEF Body
    <2> QED BY <1>7
  <1> HIDE DEF ed, body
  <1>9. /\ ed[0] = <<>>
        /\ \A k \in 1 .. n : ed[k] = EditBy(ed[k - 1], s[k])
        /\ ed = [k \in 0 .. n |-> ed[k]]
    <2>1. 0 \in 0 .. n /\ \A k \in 1 .. n : k \in 0 .. n /\ k # 0  BY <1>1
    <2>2. ed = [k \in 0 .. n |-> IF k = 0 THEN <<>> ELSE EditBy(ed[k - 1], s[k])]
      BY <1>8
    <2> HIDE DEF Body
    <2>3. \A k \in 0 .. n : ed[k] = IF k = 0 THEN <<>> ELSE EditBy(ed[k - 1], s[k])
      BY <2>2, Zenon
    <2>4. ed = [k \in 0 .. n |-> ed[k]]  BY <2>2
    <2> QED BY <2>1, <2>3, <2>4
  <1> HIDE DEF Body
  <1> DEFINE T == {k \in 0 .. n : ed[k] \in Seq(Chars)}
  <1>10. 0 .. n \subseteq T
    <2>1. 0 \in T
      <3>1. ed[0] \in Seq(Chars)  BY <1>3, <1>9, Zenon
      <3> QED BY <1>1, <3>1
    <2>2. \A k \in 1 .. n : k - 1 \in T => k \in T
      <3> TAKE k \in 1 .. n
      <3>1. HAVE k - 1 \in T
      <3>2. ed[k - 1] \in Seq(Chars) /\ s[k] \in Chars /\ k \in 0 .. n  BY <1>1, <3>1
      <3>3. EditBy(ed[k - 1], s[k]) \in Seq(Chars)  BY <3>2, EditByType
      <3> QED BY <1>9, <3>2, <3>3
    <2> HIDE DEF T
    <2> QED BY <1>1, <2>1, <2>2, EveryRound
  <1>11. Edits(ed, s)
    <2>1. \A k \in 0 .. n : ed[k] \in Seq(Chars)  BY <1>10
    <2>2. ed \in [0 .. n -> Seq(Chars)]  BY <1>9, <2>1
    <2> QED BY <1>9, <2>2 DEF Edits, n
  <1> QED BY <1>2, <1>11 DEF n

(* Editing goes character by character. *)
LEMMA EditedNone == Edited(<<>>) = <<>>
  <1>1. <<>> \in Seq(Chars) /\ Len(<<>>) = 0  BY EmptySeq
  <1>2. PICK e : Edits(e, <<>>) /\ Edited(<<>>) = e[Len(<<>>)]  BY <1>1, EditedGoes
  <1> QED BY <1>1, <1>2 DEF Edits

LEMMA EditedAppend ==
    ASSUME NEW s \in Seq(Chars), NEW c \in Chars
    PROVE  Edited(s) \in Seq(Chars) /\ Edited(Append(s, c)) = EditBy(Edited(s), c)
  <1> DEFINE n == Len(s)
             a == Append(s, c)
  <1>1. /\ n \in Nat /\ a \in Seq(Chars) /\ Len(a) = n + 1
        /\ \A k \in 1 .. n : a[k] = s[k]
        /\ a[n + 1] = c
    BY AppendProperties, LenProperties
  <1> HIDE DEF a
  <1>2. PICK e : Edits(e, s) /\ Edited(s) = e[n]  BY EditedGoes
  <1>3. PICK g : Edits(g, a) /\ Edited(a) = g[n + 1]  BY <1>1, EditedGoes
  <1> HIDE DEF n
  <1>4. e[0] = <<>> /\ \A k \in 1 .. n : e[k] = EditBy(e[k - 1], s[k])
    BY <1>2 DEF Edits, n
  <1>5. g[0] = <<>> /\ \A k \in 1 .. (n + 1) : g[k] = EditBy(g[k - 1], a[k])
    BY <1>1, <1>3 DEF Edits
  <1> DEFINE T == {k \in 0 .. n : g[k] = e[k]}
  <1>6. n \in T
    <2>1. 0 \in T  BY <1>1, <1>4, <1>5
    <2>2. \A k \in 1 .. n : k - 1 \in T => k \in T
      <3> TAKE k \in 1 .. n
      <3>1. HAVE k - 1 \in T
      <3>2. k \in 1 .. (n + 1) /\ k \in 0 .. n  BY <1>1
      <3> QED BY <1>1, <1>4, <1>5, <3>1, <3>2
    <2> HIDE DEF T
    <2>3. 0 .. n \subseteq T  BY <1>1, <2>1, <2>2, EveryRound
    <2> QED BY <1>1, <2>3
  <1>7. g[n + 1] = EditBy(e[n], c)
    <2>1. n + 1 \in 1 .. (n + 1) /\ (n + 1) - 1 = n  BY <1>1
    <2> QED BY <1>1, <1>5, <1>6, <2>1
  <1>8. e[n] \in Seq(Chars)  BY <1>1, <1>2 DEF Edits, n
  <1> QED BY <1>2, <1>3, <1>7, <1>8 DEF a

(* Characters after which a SYS_READ reads on: none is a newline, and every *)
(* line on the way leaves room for one more and the terminator.             *)
Open(s, n) ==
    \A k \in 1 .. Len(s) : s[k] # Newline /\ Len(Edited(SubSeq(s, 1, k))) + 1 < n

LEMMA PrefixOfAppend ==
    ASSUME NEW s \in Seq(Chars), NEW c \in Chars
    PROVE  /\ \A k \in 1 .. Len(s) : /\ SubSeq(Append(s, c), 1, k) = SubSeq(s, 1, k)
                                     /\ Append(s, c)[k] = s[k]
           /\ SubSeq(Append(s, c), 1, Len(s) + 1) = Append(s, c)
  <1> DEFINE a == Append(s, c)
  <1>1. /\ Len(s) \in Nat /\ a \in Seq(Chars) /\ Len(a) = Len(s) + 1
        /\ \A k \in 1 .. Len(s) : a[k] = s[k]
    BY AppendProperties, LenProperties
  <1> HIDE DEF a
  <1>2. SubSeq(a, 1, Len(s) + 1) = a  BY <1>1, SubSeqFull
  <1>3. ASSUME NEW k \in 1 .. Len(s) PROVE SubSeq(a, 1, k) = SubSeq(s, 1, k)
    <2>1. k \in Nat /\ k <= Len(s) /\ k <= Len(a)  BY <1>1
    <2>2. /\ SubSeq(a, 1, k) \in Seq(Chars) /\ Len(SubSeq(a, 1, k)) = k
          /\ \A j \in 1 .. k : SubSeq(a, 1, k)[j] = a[j]
      BY <1>1, <2>1
    <2>3. /\ SubSeq(s, 1, k) \in Seq(Chars) /\ Len(SubSeq(s, 1, k)) = k
          /\ \A j \in 1 .. k : SubSeq(s, 1, k)[j] = s[j]
      BY <1>1, <2>1
    <2>4. \A j \in 1 .. k : SubSeq(a, 1, k)[j] = SubSeq(s, 1, k)[j]
      BY <1>1, <2>1, <2>2, <2>3
    <2> QED BY <2>2, <2>3, <2>4, SeqEqual
  <1> QED BY <1>1, <1>2, <1>3 DEF a

LEMMA OpenAppend ==
    ASSUME NEW s \in Seq(Chars), NEW c \in Chars, NEW n \in Nat,
           Open(s, n), c # Newline, Len(Edited(Append(s, c))) + 1 < n
    PROVE  Open(Append(s, c), n)
  <1> DEFINE a == Append(s, c)
  <1>1. Len(s) \in Nat /\ Len(a) = Len(s) + 1 /\ a[Len(s) + 1] = c
    BY AppendProperties, LenProperties
  <1>2. ASSUME NEW k \in 1 .. Len(a)
        PROVE  a[k] # Newline /\ Len(Edited(SubSeq(a, 1, k))) + 1 < n
    <2>1. CASE k = Len(s) + 1  BY <1>1, <2>1, PrefixOfAppend
    <2>2. CASE k # Len(s) + 1
      <3>1. k \in 1 .. Len(s)  BY <1>1, <2>2
      <3>2. SubSeq(a, 1, k) = SubSeq(s, 1, k) /\ a[k] = s[k]  BY <3>1, PrefixOfAppend
      <3> QED BY <3>1, <3>2 DEF Open
    <2> QED BY <2>1, <2>2
  <1> QED BY <1>2 DEF Open

(* The line so far, wherever the reader is.  s is what it had read before   *)
(* the last character, c.                                                   *)
LineInv ==
    /\ pc \in {"poll", "start"} => typed = <<>>
    /\ pc = "loop" =>
         /\ line = Edited(typed)
         /\ \/ typed = <<>>
            \/ \E s \in Seq(Chars), c \in Chars :
                 typed = Append(s, c) /\ Open(s, len) /\ c # Newline /\ Len(line) < len
    /\ pc \in {"try", "sleep", "halted"} =>
         line = Edited(typed) /\ Open(typed, len) /\ Room
    /\ pc = "got" =>
         \E s \in Seq(Chars) :
           typed = Append(s, ch) /\ Open(s, len) /\ line = Edited(s) /\ Room
    /\ pc \in {"done", "user"} =>
         \/ typed = <<>>
         \/ \E s \in Seq(Chars), c \in Chars :
              /\ typed = Append(s, c) /\ Open(s, len) /\ line = Edited(typed)
              /\ Len(line) < len
              /\ c = Newline \/ Len(line) + 1 = len

(* The thread keeps LineInv: it tests for room, takes a character, and      *)
(* edits the line.                                                          *)
LEMMA LineThread == ASSUME TypeOK, LineInv, Thread PROVE LineInv'
  <1>0. /\ line \in Seq(Chars) /\ typed \in Seq(Chars) /\ ch \in Chars
        /\ Len(line) \in Nat /\ len \in Nat
    BY KbdAssumption, LenProperties DEF TypeOK
  <1>1. CASE Poll \/ StartProc
    <2>1. pc \in {"poll", "start"} /\ pc' \in {"poll", "start", "parked", "user"}
          /\ typed' = typed
      BY <1>1 DEF Poll, StartProc
    <2> QED BY <2>1 DEF LineInv
  <1>2. CASE Loop
    <2>1. pc = "loop" /\ UNCHANGED <<line, len, typed>>
          /\ pc' = IF Room THEN "try" ELSE "done"
      BY <1>2 DEF Loop
    <2>2. line = Edited(typed)  BY <2>1 DEF LineInv
    <2>3. CASE typed = <<>>
      <3>1. Open(typed, len)  BY <2>3, EmptySeq DEF Open
      <3> QED BY <2>1, <2>2, <2>3, <3>1 DEF LineInv, Room
    <2>4. CASE typed # <<>>
      <3>1. PICK s \in Seq(Chars), c \in Chars :
              typed = Append(s, c) /\ Open(s, len) /\ c # Newline /\ Len(line) < len
        BY <2>1, <2>4 DEF LineInv
      <3>2. CASE Room
        <4>1. Open(typed, len)  BY <1>0, <2>2, <3>1, <3>2, OpenAppend DEF Room
        <4> QED BY <2>1, <2>2, <3>2, <4>1 DEF LineInv, Room
      <3>3. CASE ~Room
        <4>1. Len(line) + 1 = len  BY <1>0, <3>1, <3>3 DEF Room
        <4> QED BY <2>1, <2>2, <3>1, <3>3, <4>1 DEF LineInv
      <3> QED BY <3>2, <3>3
    <2> QED BY <2>3, <2>4
  <1>3. CASE Try
    <2>1. pc = "try" /\ UNCHANGED <<line, len>>  BY <1>3 DEF Try
    <2>2. line = Edited(typed) /\ Open(typed, len) /\ Room  BY <2>1 DEF LineInv
    <2>3. CASE pc' = "sleep" /\ UNCHANGED typed
      BY <2>1, <2>2, <2>3 DEF LineInv, Room
    <2>4. CASE pc' = "got" /\ typed' = Append(typed, ch')
      BY <1>0, <2>1, <2>2, <2>4 DEF LineInv, Room
    <2> QED BY <1>3, <2>3, <2>4 DEF Try
  <1>4. CASE Sleep
    BY <1>4 DEF Sleep, LineInv, Room
  <1>5. CASE Got
    <2>1. pc = "got" /\ UNCHANGED <<len, typed>>  BY <1>5 DEF Got
    <2>2. PICK s \in Seq(Chars) :
            typed = Append(s, ch) /\ Open(s, len) /\ line = Edited(s) /\ Room
      BY <2>1 DEF LineInv
    <2>3. Edited(typed) = EditBy(line, ch)  BY <1>0, <2>2, EditedAppend
    <2>4. CASE ch = Newline
      <3>1. pc' = "done" /\ UNCHANGED line  BY <1>5, <2>4 DEF Got, Newline, Backspace
      <3>2. line = Edited(typed)
        <4>1. ch # Backspace  BY <2>4 DEF Newline, Backspace
        <4>2. EditBy(line, ch) = line  BY <2>4, <4>1 DEF EditBy
        <4> QED BY <2>3, <4>2
      <3>3. Len(line) < len  BY <1>0, <2>2 DEF Room
      <3> QED BY <1>0, <2>1, <2>2, <2>4, <3>1, <3>2, <3>3 DEF LineInv
    <2>5. CASE ch # Newline
      <3>1. pc' = "loop" /\ line' = EditBy(line, ch)
        <4>1. Newline # Backspace  BY DEF Newline, Backspace
        <4>2. Erase(line) = SubSeq(line, 1, IF line = <<>> THEN 0 ELSE Len(line) - 1)
          <5>1. SubSeq(<<>>, 1, 0) = <<>>  BY SubSeqEmpty
          <5> QED BY <5>1 DEF Erase
        <4>3. CASE ch = Backspace  BY <1>5, <2>5, <4>2, <4>3 DEF Got, EditBy
        <4>4. CASE ch # Backspace  BY <1>5, <2>5, <4>4 DEF Got, EditBy
        <4> QED BY <4>3, <4>4
      <3>2. Len(line') < len
        <4>1. Len(line') <= Len(line) + 1 /\ line' \in Seq(Chars)
          BY <1>0, <3>1, EditByType
        <4>2. Len(line') \in Nat  BY <4>1, LenProperties
        <4> QED BY <1>0, <2>2, <4>1, <4>2 DEF Room
      <3>3. line' = Edited(typed)  BY <2>3, <3>1
      <3> QED BY <1>0, <2>1, <2>2, <2>5, <3>1, <3>2, <3>3 DEF LineInv
    <2> QED BY <2>4, <2>5
  <1>6. CASE Done
    BY <1>6 DEF Done, LineInv
  <1> QED BY <1>1, <1>2, <1>3, <1>4, <1>5, <1>6 DEF Thread

(* The line SYS_READ returns is what its characters edit to, for buffers of *)
(* every length: it stops at the first newline or when the buffer is full,  *)
(* never earlier and never later, and leaves room for the terminator.       *)
THEOREM LineIsTheEditedOne == Spec => []LineIsEdited
  <1>1. Init => LineInv  BY DEF Init, LineInv
  <1>2. TypeOK /\ LineInv /\ [Next]_vars => LineInv'
    <2> SUFFICES ASSUME TypeOK, LineInv, [Next]_vars PROVE LineInv'  OBVIOUS
    <2>1. CASE Thread  BY <2>1, LineThread
    <2>2. CASE \E n \in Lens : Enter(n)
      <3>1. pc' \in {"loop", "done"} /\ line' = <<>> /\ typed' = <<>>  BY <2>2 DEF Enter
      <3> QED BY <3>1, EditedNone DEF LineInv
    <2>3. CASE \E sc \in Scancodes : KbdIrq(sc)
      <3>1. /\ UNCHANGED <<ch, line, len, typed>>
            /\ pc' = pc \/ (pc = "halted" /\ pc' = "try")
        BY <2>3 DEF KbdIrq, Wake
      <3> QED BY <3>1 DEF LineInv, Room
    <2>4. CASE UNCHANGED vars  BY <2>4 DEF vars, reader, LineInv, Room
    <2> QED BY <2>1, <2>2, <2>3, <2>4 DEF Next
  <1>3. TypeOK /\ LineInv => LineIsEdited
    <2> SUFFICES ASSUME TypeOK, LineInv, pc = "user", typed # <<>>
                 PROVE  /\ line = Edited(typed)
                        /\ Len(line) < len
                        /\ typed[Len(typed)] = Newline \/ Len(line) + 1 = len
                        /\ \A k \in 1 .. (Len(typed) - 1) :
                             /\ typed[k] # Newline
                             /\ Len(Edited(SubSeq(typed, 1, k))) + 1 < len
      BY DEF LineIsEdited
    <2>1. PICK s \in Seq(Chars), c \in Chars :
            /\ typed = Append(s, c) /\ Open(s, len) /\ line = Edited(typed)
            /\ Len(line) < len
            /\ c = Newline \/ Len(line) + 1 = len
      BY DEF LineInv
    <2>2. Len(typed) = Len(s) + 1 /\ Len(s) \in Nat /\ typed[Len(typed)] = c
      BY <2>1, AppendProperties, LenProperties
    <2>3. ASSUME NEW k \in 1 .. (Len(typed) - 1)
          PROVE  typed[k] # Newline /\ Len(Edited(SubSeq(typed, 1, k))) + 1 < len
      <3>1. k \in 1 .. Len(s)  BY <2>2
      <3>2. SubSeq(typed, 1, k) = SubSeq(s, 1, k) /\ typed[k] = s[k]
        BY <2>1, <3>1, PrefixOfAppend
      <3> QED BY <2>1, <3>1, <3>2 DEF Open
    <2> QED BY <2>1, <2>2, <2>3
  <1> QED BY <1>1, <1>2, <1>3, TypeCorrect, PTL DEF Spec
=============================================================================
