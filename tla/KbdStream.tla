----------------------------- MODULE KbdStream -----------------------------
(***************************************************************************)
(* Keyboard input of the kernel: the interrupt handler of                  *)
(* src/kernel/driver/keyboard.c, the ring buffer of src/kernel/stream.c    *)
(* and the thread that reads it, first kmain waiting for any key and then  *)
(* the terminal program inside SYS_READ (src/kernel/sys.c), which edits a  *)
(* line.                                                                   *)
(*                                                                         *)
(* There is one processor.  The handler runs to its end between two steps  *)
(* of the thread, whenever the interrupt flag is set; the thread's steps   *)
(* are cut where the flag lets an interrupt in.                            *)
(*                                                                         *)
(* A definition that stands right before another and extends its name      *)
(* (WrapLate, FullUnchecked, ...) is a mistake the code could have made:   *)
(* put in the other's place, it must break a property.                     *)
(***************************************************************************)
EXTENDS Integers, Sequences

CONSTANTS
    Size,        \* STREAM_BUFFER_SIZE
    Keys,        \* keys of scancode_map with two characters
    Digits,      \* those whose unshifted character is a digit
    Lens,        \* buffer lengths programs pass to SYS_READ
    CountMod,    \* 2^32 for the code: overflow counts modulo this
    MaxChars     \* bound: keys that yield a character in a behaviour

(* head and tail advance by masking with Size - 1. *)
ASSUME KbdAssumption ==
    /\ Size \in Nat /\ Size > 1
    /\ \E k \in 1 .. Size : Size = 2^k
    /\ Digits \subseteq Keys
    /\ Lens \subseteq Nat
    /\ CountMod \in Nat \ {0}
    /\ MaxChars \in Nat

Newline   == <<"enter", 0>>
Backspace == <<"backspace", 0>>
Chars     == (Keys \X {0, 1}) \cup {Newline, Backspace}

(* Scancodes: what the handler distinguishes, pressed or released.  "other" *)
(* are the 0xE0 prefix and the codes that scancode_map does not have.       *)
Scancodes == [key : Keys \cup {"enter", "backspace", "shift", "caps", "other"},
              release : BOOLEAN]

Slots == 0 .. (Size - 1)

VARIABLES
    head, tail, buf,   \* kb_stream.rb
    overflow,          \* kb_stream.overflow
    shift, caps,       \* shift_down, caps_down
    intr,              \* the interrupt flag of the processor
    pc,                \* where the thread is
    ch,                \* syscall_handler's ch
    line,              \* the characters buf[0] .. buf[i-1] of SYS_READ
    len,               \* its length argument
    sleeps,            \* halts of the running SYS_READ: 0, 1, or 2 for more
    typed,             \* characters the running, or last, SYS_READ has read
    chars              \* keys so far that yielded a character

ring   == <<head, tail, buf>>
kbd    == <<overflow, shift, caps, chars>>
reader == <<pc, ch, line, len, sleeps, typed>>
vars   == <<ring, kbd, intr, reader>>

Pcs == {"poll", "start", "parked", "user", "loop", "try", "sleep", "halted", "got", "done"}

(* The places where a SYS_READ waits for a character or works on one. *)
Reading == {"loop", "try", "sleep", "halted", "got"}

-----------------------------------------------------------------------------
(* The ring buffer. *)
WrapLate(i) == IF i = Size THEN 0 ELSE i + 1
Wrap(i) == IF i + 1 = Size THEN 0 ELSE i + 1

FullUnchecked == FALSE
Full  == Wrap(head) = tail
Empty == tail = head

RingPut(c) ==
    /\ ~Full
    /\ buf' = [buf EXCEPT ![head] = c]
    /\ head' = Wrap(head)
    /\ UNCHANGED tail

RingGet(c) ==
    /\ ~Empty
    /\ c = buf[tail]
    /\ tail' = Wrap(tail)
    /\ UNCHANGED <<head, buf>>

-----------------------------------------------------------------------------
Init ==
    /\ head = 0 /\ tail = 0 /\ buf = [s \in Slots |-> Newline]
    /\ overflow = 0 /\ shift = FALSE /\ caps = FALSE /\ chars = 0
    /\ intr = TRUE
    /\ pc = "poll"
    /\ ch = Newline /\ line = <<>> /\ len = 0 /\ sleeps = 0 /\ typed = <<>>

(* The column of scancode_map: a digit looks at shift alone, anything else  *)
(* at shift and caps lock.                                                  *)
Column(k) ==
    IF k \in Digits /\ ~shift THEN 0 ELSE IF shift # caps THEN 1 ELSE 0

(* What a pressed key stands for; no character for keys that are not here.  *)
CharOf(k) == IF k = "enter" THEN Newline ELSE <<k, Column(k)>>

(* An interrupt ends a halt: the thread goes on after its hlt. *)
WakeLooksNot == pc' = IF pc = "halted" THEN "sleep" ELSE pc
Wake == pc' = IF pc = "halted" THEN "try" ELSE pc

Quiet == UNCHANGED <<ring, overflow, chars>>

CharKey(k) ==
    /\ chars < MaxChars /\ chars' = chars + 1
    /\ \/ RingPut(CharOf(k)) /\ UNCHANGED overflow
       \/ Full /\ UNCHANGED ring /\ overflow' = (overflow + 1) % CountMod
    /\ UNCHANGED <<shift, caps>>

BackspaceKey ==
    /\ chars < MaxChars /\ chars' = chars + 1
    /\ RingPut(Backspace) \/ (Full /\ UNCHANGED ring)
    /\ UNCHANGED <<overflow, shift, caps>>

(* kb_irq_handler, called for one scancode. *)
KbdIrq(sc) ==
    /\ intr
    /\ \/ sc.key = "shift" /\ shift' = ~sc.release /\ UNCHANGED caps /\ Quiet
       \/ sc.key = "caps" /\ ~sc.release /\ caps' = ~caps /\ UNCHANGED shift /\ Quiet
       \/ sc.key = "backspace" /\ ~sc.release /\ BackspaceKey
       \/ sc.key \in Keys \cup {"enter"} /\ ~sc.release /\ CharKey(sc.key)
       \/ /\ sc.key = "other" \/ (sc.release /\ sc.key # "shift")
          /\ UNCHANGED <<shift, caps>> /\ Quiet
    /\ Wake
    /\ UNCHANGED <<intr, ch, line, len, sleeps, typed>>

-----------------------------------------------------------------------------
(* kmain spins until a key is there, and swallows its character. *)
Poll ==
    /\ pc = "poll"
    /\ \/ \E c \in Chars : RingGet(c) /\ pc' = "start"
       \/ Empty /\ UNCHANGED <<ring, pc>>
    /\ UNCHANGED <<kbd, intr, ch, line, len, sleeps, typed>>

(* start_proc runs the terminal, or fails and leaves kmain halting forever. *)
StartProc ==
    /\ pc = "start"
    /\ pc' \in {"user", "parked"}
    /\ UNCHANGED <<ring, kbd, intr, ch, line, len, sleeps, typed>>

(* An int 0x77 with SYS_READ.  The vector is an interrupt gate. *)
EntryFlagTrap == TRUE
EntryFlag == FALSE

Enter(n) ==
    /\ pc = "user"
    /\ intr' = EntryFlag
    /\ pc' = IF n = 0 THEN "done" ELSE "loop"
    /\ line' = <<>> /\ len' = n /\ sleeps' = 0 /\ typed' = <<>>
    /\ UNCHANGED <<ring, kbd, ch>>

RoomNoTerminator == Len(line) < len
Room == Len(line) + 1 < len

Loop ==
    /\ pc = "loop"
    /\ pc' = IF Room THEN "try" ELSE "done"
    /\ UNCHANGED <<ring, kbd, intr, ch, line, len, sleeps, typed>>

(* stream_try_read between irq_save and irq_restore, which puts the flag    *)
(* back as it was.                                                          *)
Try ==
    /\ pc = "try"
    /\ \/ \E c \in Chars : /\ RingGet(c) /\ ch' = c
                           /\ typed' = Append(typed, c) /\ pc' = "got"
       \/ Empty /\ pc' = "sleep" /\ UNCHANGED <<ring, ch, typed>>
    /\ UNCHANGED <<kbd, intr, line, len, sleeps>>

(* sti; hlt.  Interrupts stay off until hlt when the flag was clear. *)
Sleep ==
    /\ pc = "sleep"
    /\ pc' = "halted"
    /\ intr' = TRUE
    /\ sleeps' = IF sleeps = 0 THEN 1 ELSE 2
    /\ UNCHANGED <<ring, kbd, ch, line, len, typed>>

Erase(s) == IF s = <<>> THEN s ELSE SubSeq(s, 1, Len(s) - 1)

Got ==
    /\ pc = "got"
    /\ \/ ch = Newline /\ pc' = "done" /\ UNCHANGED line
       \/ ch = Backspace /\ pc' = "loop" /\ line' = Erase(line)
       \/ ch \notin {Newline, Backspace} /\ pc' = "loop" /\ line' = Append(line, ch)
    /\ UNCHANGED <<ring, kbd, intr, ch, len, sleeps, typed>>

(* The line is terminated and its length returned; iretq restores the flag. *)
Done ==
    /\ pc = "done"
    /\ pc' = "user"
    /\ intr' = TRUE
    /\ UNCHANGED <<ring, kbd, ch, line, len, sleeps, typed>>

Thread == Poll \/ StartProc \/ Loop \/ Try \/ Sleep \/ Got \/ Done

Next ==
    \/ Thread
    \/ \E n \in Lens : Enter(n)
    \/ \E sc \in Scancodes : KbdIrq(sc)

Spec == Init /\ [][Next]_vars

(* The thread runs on.  A halted processor runs on when another key is      *)
(* pressed or released: with every other line masked, nothing else wakes it.*)
FairSpec ==
    /\ Spec
    /\ WF_vars(Thread)
    /\ WF_vars(pc = "halted" /\ \E sc \in Scancodes : KbdIrq(sc))

-----------------------------------------------------------------------------
(* Every variable holds what the code can store in it. *)
TypeOK ==
    /\ head \in Slots /\ tail \in Slots /\ buf \in [Slots -> Chars]
    /\ overflow \in 0 .. (CountMod - 1)
    /\ shift \in BOOLEAN /\ caps \in BOOLEAN /\ chars \in 0 .. MaxChars
    /\ intr \in BOOLEAN
    /\ pc \in Pcs
    /\ ch \in Chars
    /\ line \in Seq(Chars) /\ typed \in Seq(Chars)
    /\ len \in Lens \cup {0}
    /\ sleeps \in 0 .. 2

(* The characters in the ring, oldest first. *)
Count == IF tail <= head THEN head - tail ELSE head + Size - tail
Slot(k) == IF tail + k - 1 < Size THEN tail + k - 1 ELSE tail + k - 1 - Size
Contents == [k \in 1 .. Count |-> buf[Slot(k)]]

Queue == INSTANCE KeyQueue WITH queue <- Contents, Capacity <- Size - 1

(* The handler and the readers together use the ring as a bounded queue:    *)
(* whatever the interleaving, no character is lost once accepted, none is   *)
(* duplicated, and none overtakes another.                                  *)
ImplementsQueue == Queue!Spec

(* The first halt of a SYS_READ never sleeps on a character: the gate has   *)
(* cleared the flag and sti takes effect after hlt, so no interrupt falls   *)
(* between the failed try and the halt.  A later halt can, because the flag *)
(* stays set after the first one.                                           *)
FirstSleepSafe == (pc = "halted" /\ sleeps = 1) => Empty

(* What a line editor makes of a sequence of characters. *)
Edited(s) ==
    LET ed[n \in 0 .. Len(s)] ==
            IF n = 0 THEN <<>>
            ELSE LET t == ed[n - 1] IN
                 CASE s[n] = Newline -> t
                   [] s[n] = Backspace -> SubSeq(t, 1, IF t = <<>> THEN 0 ELSE Len(t) - 1)
                   [] OTHER -> Append(t, s[n])
    IN  ed[Len(s)]

(* The line SYS_READ returns is what its characters edit to, it ends at the *)
(* first newline or when the buffer is full, and it leaves room for the     *)
(* terminator.                                                              *)
LineIsEdited ==
    (pc = "user" /\ typed # <<>>) =>
        /\ line = Edited(typed)
        /\ Len(line) < len
        /\ typed[Len(typed)] = Newline \/ Len(line) + 1 = len
        /\ \A k \in 1 .. (Len(typed) - 1) :
              /\ typed[k] # Newline
              /\ Len(Edited(SubSeq(typed, 1, k))) + 1 < len

(* A SYS_READ returns once a newline is in the ring, if key events go on    *)
(* coming: the wakeup that can be lost costs a delay, not the line.         *)
LineArrives ==
    (pc \in Reading /\ \E k \in 1 .. Count : Contents[k] = Newline) ~> (pc \notin Reading)
=============================================================================
