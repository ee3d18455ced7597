------------------------------- MODULE StrLib -------------------------------
(***************************************************************************)
(* The memory and string functions of src/libc/string.c, a step for each   *)
(* round of a loop, against what they are to compute.                      *)
(*                                                                         *)
(* memmove moves down through memcpy, which copies words when it can, so   *)
(* that its order and its word size matter where the areas overlap: the    *)
(* display scrolls that way.  Plain char is signed on this machine.        *)
(*                                                                         *)
(* The definition FirstLoopCopies stands before the one whose name it      *)
(* extends and is a mistake the code could have made.                      *)
(***************************************************************************)
EXTENDS Integers, Sequences, FiniteSets

CONSTANTS
    M,        \* bytes of memory
    Word,     \* bytes of a uint32_t (4)
    Block,    \* bytes the unrolled loop copies (32)
    CharMod,  \* values of a char (256)
    Chars,    \* what strings are made of, 0 among them
    Lens,     \* lengths and values that callers pass
    Functions \* those a run looks at

StrAssumption ==
    /\ {M, Word, Block, CharMod} \subseteq Nat \ {0} /\ Block % Word = 0 /\ CharMod % 2 = 0
    /\ 0 \in Chars /\ Chars \subseteq 0 .. (CharMod - 1) /\ Lens \subseteq Nat
    /\ Functions \subseteq {"memset", "memcpy", "memmove", "memcmp", "strlen", "strcmp",
                            "strncmp", "strcat", "strrchr", "strcpy"}

Addrs == 0 .. (M - 1)

VARIABLES
    mem,
    call,      \* the function, its arguments and the memory it was called with
    pc,        \* the loop the function is in
    d, s, len, \* its pointers and counter
    ret

vars == <<mem, call, pc, d, s, len, ret>>

-----------------------------------------------------------------------------
(* Strings in a memory m. *)
HasEnd(m, p) == \E q \in p .. (M - 1) : m[q] = 0
End(m, p)    == CHOOSE q \in p .. (M - 1) : m[q] = 0 /\ \A r \in p .. (q - 1) : m[r] # 0
Text(m, p)   == [k \in 1 .. (End(m, p) - p) |-> m[p + k - 1]]
Length(m, p) == End(m, p) - p

Apart(p, n, q, k) == p + n <= q \/ q + k <= p

(* What callers may ask for, in memory m. *)
Legal(m, f, a, b, n) ==
    CASE f = "memset"               -> a + n <= M
      [] f = "memcpy"               -> a + n <= M /\ b + n <= M /\ Apart(a, n, b, n)
      [] f \in {"memmove", "memcmp"} -> a + n <= M /\ b + n <= M
      [] f \in {"strcmp", "strncmp"} -> HasEnd(m, a) /\ HasEnd(m, b)
      [] f \in {"strlen", "strrchr"} -> HasEnd(m, a) /\ b = 0
      [] f = "strcpy" -> /\ HasEnd(m, b) /\ a + Length(m, b) < M
                         /\ Apart(a, Length(m, b) + 1, b, Length(m, b) + 1)
      [] f = "strcat" -> /\ HasEnd(m, a) /\ HasEnd(m, b) /\ End(m, a) + Length(m, b) < M
                         /\ Apart(a, Length(m, a) + Length(m, b) + 1, b, Length(m, b) + 1)

FirstLoopCopies(f, a, b) ==
    CASE f = "memset" -> "set"    [] f \in {"memcpy", "memmove"} -> "head"
      [] f = "strcat" -> "end"    [] f = "strcpy" -> "copy"   [] OTHER -> f
FirstLoop(f, a, b) ==
    CASE f = "memset" -> "set"    [] f = "memcpy" -> "head"   [] f = "memcmp" -> "memcmp"
      [] f = "memmove" -> IF a > b THEN "back" ELSE IF a < b THEN "head" ELSE "done"
      [] f = "strcat" -> "end"    [] f = "strcpy" -> "copy"   [] OTHER -> f

(* For the memory functions every byte is another one. *)
Memories(f) == IF f \in {"memset", "memcpy", "memmove"} THEN {[i \in Addrs |-> i]}
               ELSE [Addrs -> Chars]

(* Function f is called, with memory m. *)
Called(f, m, a, b, n) ==
    /\ mem = m /\ call = [fn |-> f, a |-> a, b |-> b, n |-> n, mem |-> m]
    /\ pc = FirstLoop(f, a, b)
    /\ d = IF pc = "back" THEN a + n ELSE a
    /\ s = IF pc = "back" THEN b + n ELSE b
    /\ len = n /\ ret = a

Init ==
    \E f \in Functions : \E m \in Memories(f), a \in Addrs, b \in Addrs, n \in Lens :
        Legal(m, f, a, b, n) /\ Called(f, m, a, b, n)

Done(r) == pc' = "done" /\ ret' = r /\ UNCHANGED <<mem, call, d, s, len>>
Goes(l) == pc' = l /\ UNCHANGED <<mem, call, d, s, len, ret>>

(* Memory when k bytes of m went from place q to place p at once. *)
Stored(m, p, q, k) == [i \in Addrs |-> IF i \in p .. (p + k - 1) THEN m[q + (i - p)] ELSE m[i]]

(* k bytes went from s to d, so that memory is m; both move up and len     *)
(* counts down.                                                            *)
Moves(m, k) == /\ mem' = m /\ d' = d + k /\ s' = s + k /\ len' = len - k
               /\ UNCHANGED <<call, pc, ret>>

Copy(k) == Moves(Stored(mem, d, s, k), k)

(* memset; the value becomes an unsigned char. *)
Set == /\ pc = "set"
       /\ IF len = 0 THEN Done(call.a)
          ELSE /\ mem' = [mem EXCEPT ![d] = call.b % CharMod] /\ d' = d + 1 /\ len' = len - 1
               /\ UNCHANGED <<call, pc, s, ret>>
-----------------------------------------------------------------------------
(* memcpy: bytes until d is aligned, blocks and words if s is then, bytes. *)

HeadBytes == len > 0 /\ d % Word # 0

Aligned == s % Word = 0

CopyHead == pc = "head" /\ IF HeadBytes THEN Copy(1) ELSE Goes(IF Aligned THEN "blocks" ELSE "tail")

(* A block is copied word by word; what a word overwrites is read so.      *)
CopyBlocks ==
    LET after[k \in 0 .. (Block \div Word)] ==
            IF k = 0 THEN mem
            ELSE Stored(after[k - 1], d + (k - 1) * Word, s + (k - 1) * Word, Word)
    IN  pc = "blocks" /\ IF len >= Block THEN Moves(after[Block \div Word], Block) ELSE Goes("words")

WordLeft == len >= Word

CopyWords == pc = "words" /\ IF WordLeft THEN Copy(Word) ELSE Goes("tail")

CopyTail == pc = "tail" /\ IF len > 0 THEN Copy(1) ELSE Done(call.a)

(* memmove upwards, from the last byte to the first. *)
Back == /\ pc = "back"
        /\ IF len = 0 THEN Done(call.a)
           ELSE /\ mem' = [mem EXCEPT ![d - 1] = mem[s - 1]]
                /\ d' = d - 1 /\ s' = s - 1 /\ len' = len - 1 /\ UNCHANGED <<call, pc, ret>>
-----------------------------------------------------------------------------
(* The functions that only look. *)

Advance(k) == /\ d' = d + 1 /\ s' = s + k /\ UNCHANGED <<mem, call, pc, ret>>

MemCmp == /\ pc = "memcmp"
          /\ IF len = 0 THEN Done(0)
             ELSE IF mem[d] # mem[s] THEN Done(mem[d] - mem[s])
             ELSE Advance(1) /\ len' = len - 1

(* The counter is the distance of d from the start. *)
StrLen == /\ pc = "strlen"
          /\ IF mem[d] = 0 THEN Done(d - call.a) ELSE Advance(0) /\ UNCHANGED len

GoesOn == mem[d] # 0 /\ mem[s] # 0 /\ mem[d] = mem[s]

StrCmp == /\ pc = "strcmp"
          /\ IF GoesOn THEN Advance(1) /\ UNCHANGED len ELSE Done(mem[d] - mem[s])

(* len-- of an unsigned counter comes first; after the last round the      *)
(* bytes behind the ones to be compared decide.                            *)
StrNCmp == /\ pc = "strncmp"
           /\ IF call.n = 0 THEN Done(0)
              ELSE IF len > 0 /\ GoesOn THEN Advance(1) /\ len' = len - 1
              ELSE Done(mem[d] - mem[s])

Signed(c) == IF c >= CharMod \div 2 THEN c - CharMod ELSE c

NotFound == -1

(* strrchr remembers the last place in ret. *)
Found == d

StrRChr ==
    /\ pc = "strrchr" /\ UNCHANGED <<mem, call, s, len>>
    /\ LET r == IF Signed(mem[d]) = call.n % CharMod THEN Found
                ELSE IF d = call.a THEN NotFound ELSE ret
       IN  /\ ret' = r
           /\ IF mem[d] = 0 THEN pc' = "done" /\ UNCHANGED d ELSE d' = d + 1 /\ UNCHANGED pc
-----------------------------------------------------------------------------
(* strcat goes to the end of d, then copies like strcpy, the 0 included.   *)

AtEnd == mem[d] = 0

FindEnd == pc = "end" /\ IF AtEnd THEN Goes("copy") ELSE Advance(0) /\ UNCHANGED len

StrCpy == /\ pc = "copy"
          /\ mem' = [mem EXCEPT ![d] = mem[s]] /\ d' = d + 1 /\ s' = s + 1
          /\ pc' = (IF mem[s] = 0 THEN "done" ELSE "copy") /\ UNCHANGED <<call, len, ret>>

Next == Set \/ CopyHead \/ CopyBlocks \/ CopyWords \/ CopyTail \/ Back \/ MemCmp \/ StrLen
        \/ StrCmp \/ StrNCmp \/ StrRChr \/ FindEnd \/ StrCpy

Spec == Init /\ [][Next]_vars
-----------------------------------------------------------------------------
(* Pointers stay in or just behind memory.                                 *)
TypeOK ==
    /\ mem \in [Addrs -> Nat] /\ {d, s} \subseteq 0 .. M /\ len \in Nat /\ ret \in Int
    /\ pc \in {"set", "head", "blocks", "words", "tail", "back", "memcmp", "strlen", "strcmp",
               "strncmp", "strrchr", "end", "copy", "done"}

(* memset, memcpy and memmove leave in memory what was asked for, and the  *)
(* rest alone, however the two areas of memmove overlap and whatever their *)
(* alignment.                                                              *)
MovesAreExact == (pc = "done" /\ call.fn \in {"memset", "memcpy", "memmove"}) =>
    /\ ret = call.a
    /\ mem = [i \in Addrs |->
                IF i \notin call.a .. (call.a + call.n - 1) THEN call.mem[i]
                ELSE IF call.fn = "memset" THEN call.b % CharMod
                ELSE call.mem[call.b + (i - call.a)]]

(* The sign of a comparison of two sequences, byte by byte. *)
Order(u, v) ==
    LET differ == {k \in 1 .. Len(u) : k > Len(v) \/ u[k] # v[k]} IN
    IF differ = {} THEN IF Len(u) = Len(v) THEN 0 ELSE -1
    ELSE LET k == CHOOSE j \in differ : \A i \in differ : j <= i
         IN  IF k > Len(v) \/ u[k] > v[k] THEN 1 ELSE -1

Sign(x) == IF x = 0 THEN 0 ELSE IF x > 0 THEN 1 ELSE -1

(* memcmp and strcmp order as unsigned bytes do, at the first difference;  *)
(* a prefix comes first.  So does strncmp if the strings differ, or both   *)
(* end, within the bytes to be compared: else it looks behind them.        *)
ComparesAreRight == pc = "done" =>
    /\ call.fn = "memcmp" =>
         LET bytes(p) == [k \in 1 .. call.n |-> call.mem[p + k - 1]]
         IN  Sign(ret) = Order(bytes(call.a), bytes(call.b))
    /\ call.fn \in {"strcmp", "strncmp"} =>
         LET u == Text(call.mem, call.a)
             v == Text(call.mem, call.b)
             decided == \E k \in 1 .. call.n : k > Len(u) \/ k > Len(v) \/ u[k] # v[k]
         IN  call.fn = "strcmp" \/ decided => Sign(ret) = Order(u, v)

(* strlen, strcpy and strcat do to the text what they are for, and write   *)
(* no byte behind its end; strrchr finds the last place of a character of  *)
(* the lower half, the end included.                                       *)
StringsAreRight == pc = "done" =>
    LET old == call.mem
        a   == call.a
        new == CASE call.fn = "strcpy" -> Text(old, call.b)
                 [] call.fn = "strcat" -> Text(old, a) \o Text(old, call.b)
                 [] OTHER -> <<>>
    IN  /\ call.fn = "strlen" => ret = Length(old, a)
        /\ call.fn \in {"strcpy", "strcat"} =>
             /\ Text(mem, a) = new /\ ret = a
             /\ \A i \in Addrs : i \notin a .. (a + Len(new)) => mem[i] = old[i]
        /\ call.fn = "strrchr" /\ call.n < CharMod \div 2 =>
             LET places == {p \in a .. End(old, a) : old[p] = call.n}
             IN  IF places = {} THEN ret = NotFound
                 ELSE ret \in places /\ \A p \in places : p <= ret

(* What is written and what is said are what was asked for.                *)
LibrarySound == TypeOK /\ MovesAreExact /\ ComparesAreRight /\ StringsAreRight
=============================================================================
