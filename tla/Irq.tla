-------------------------------- MODULE Irq --------------------------------
(***************************************************************************)
(* Hardware interrupts: pic_remap and pic_unmask of src/kernel/cpu/pic.c,  *)
(* isr_dispatcher of src/kernel/cpu/idt.c, and kb_init of                  *)
(* src/kernel/driver/keyboard.c, which takes the first line into use.      *)
(*                                                                         *)
(* Two interrupt controllers, "m" and "s", the second on line Cascade of   *)
(* the first, latch the edges of their lines (irr), present those that are *)
(* not masked (imr) and remember what the processor has taken (isr) until  *)
(* it writes an end-of-interrupt.  A request that is gone when the         *)
(* processor asks for it is answered with the last line: a spurious one.   *)
(* The keyboard has bytes to give; its line is up while it has one, and    *)
(* each new byte is a new edge.                                            *)
(*                                                                         *)
(* The definition EoiSlaveOnly stands before the one whose name it extends *)
(* and is a mistake the code could have made.                              *)
(***************************************************************************)
EXTENDS Integers, FiniteSets

CONSTANTS
    W,         \* lines of a controller (8 in the code)
    Cascade,   \* 2 in the code
    Kbd,       \* IRQ_KBD_LINE
    Others,    \* lines other drivers unmask, as <<controller, line>>
    MaxBytes,  \* bound: bytes the keyboard has in a behaviour
    MaxNoise   \* bound: edges and withdrawn requests on other lines

Last  == W - 1
Lines == 0 .. Last
Pics  == {"m", "s"}

IrqAssumption ==
    /\ W \in Nat /\ {Cascade, Kbd} \subseteq Lines \ {Last} /\ Cascade # Kbd
    /\ Others \subseteq Pics \X Lines /\ {<<"m", Cascade>>, <<"m", Kbd>>} \cap Others = {}
    /\ {MaxBytes, MaxNoise} \subseteq Nat

VARIABLES
    irr, isr, imr,  \* of the controllers
    kbd,            \* the bytes the keyboard has, and had so far
    noise,          \* what other lines did so far
    pc,             \* what the processor is at; "task" with interrupts on
    irq,            \* the interrupt taken: controller and line
    seen            \* the lines whose handler was called for no request

vars == <<irr, isr, imr, kbd, noise, pc, irq, seen>>

Pic == <<irr, isr, imr>>
NoIrq == <<"none", 0>>

(* kmain starts with these requests and masks and with n bytes in the      *)
(* keyboard; interrupts are off.                                           *)
Starts(requests, masks, n) ==
    /\ irr = requests /\ isr = [p \in Pics |-> {}] /\ imr = masks
    /\ kbd = [has |-> n, had |-> MaxBytes]
    /\ noise = 0 /\ pc = "remap" /\ irq = NoIrq /\ seen = {}

(* The firmware leaves the controllers as it likes. *)
Init == \E requests \in [Pics -> SUBSET {Kbd}], masks \in [Pics -> {{}, Lines}] :
          \E n \in 0 .. MaxBytes : Starts(requests, masks, n)

(* The keyboard's line rises when it has a byte and had none. *)
KbdEdge(n) == IF n > 0 THEN [irr EXCEPT !["m"] = @ \cup {Kbd}] ELSE irr

Goes(l) == pc' = l /\ UNCHANGED <<irq, seen, noise>>

(* pic_remap: the initialisation words clear the controllers, and all      *)
(* lines but the cascade are masked.  A line that is up stays up, and      *)
(* without a new edge it does not count.                                   *)
Remap ==
    /\ pc = "remap" /\ Goes("drain") /\ UNCHANGED kbd
    /\ irr' = [p \in Pics |-> {}] /\ isr' = [p \in Pics |-> {}]
    /\ imr' = [m |-> Lines \ {Cascade}, s |-> Lines]

HasByte == kbd.has > 0

(* kb_init reads what the keyboard has, byte by byte ... *)
Drain ==
    /\ pc = "drain" /\ UNCHANGED <<isr, imr>>
    /\ IF ~HasByte
       THEN Goes("unmask") /\ UNCHANGED <<irr, kbd>>
       ELSE /\ Goes("drain") /\ kbd' = [kbd EXCEPT !.has = @ - 1]
            /\ irr' = KbdEdge(kbd.has - 1)

Unmasked(p, l) == [imr EXCEPT ![p] = @ \ {l}]

(* ... and unmasks its line; kmain goes on to the sti. *)
Unmask ==
    /\ pc = "unmask" /\ Goes("others") /\ UNCHANGED <<irr, isr, kbd>>
    /\ imr' = Unmasked("m", Kbd)

UnmaskOthers ==
    /\ pc = "others" /\ UNCHANGED <<irr, isr, kbd>>
    /\ \/ \E o \in Others : /\ o[2] \in imr[o[1]] /\ imr' = Unmasked(o[1], o[2])
                            /\ Goes("others")
       \/ imr' = imr /\ Goes("task")
-----------------------------------------------------------------------------
(* The controllers. *)

(* What controller p presents: its highest request that is not masked and  *)
(* is higher than all it has in service; low numbers are high.             *)
Ready(p) == {l \in irr[p] \ imr[p] : \A k \in isr[p] : l < k}
Best(p)  == CHOOSE l \in Ready(p) : \A k \in Ready(p) : l <= k

(* The second controller raises the cascade while it presents something.   *)
Cascades == /\ Ready("s") # {} /\ Cascade \notin irr["m"]
            /\ irr' = [irr EXCEPT !["m"] = @ \cup {Cascade}]
            /\ UNCHANGED <<isr, imr, kbd, noise, pc, irq, seen>>

(* The processor takes an interrupt between two instructions ... *)
Accept == /\ pc = "task" /\ Ready("m") # {}
          /\ Goes("ack") /\ UNCHANGED <<Pic, kbd>>

Takes(r, v) == irr' = r[1] /\ isr' = r[2] /\ irq' = v

(* ... and asks which it is. *)
Acknowledge ==
    /\ pc = "ack" /\ pc' = "dispatch" /\ UNCHANGED <<imr, kbd, noise, seen>>
    /\ IF Ready("m") = {}
       THEN Takes(<<irr, isr>>, <<"m", Last>>)
       ELSE LET l == Best("m")
                r == [irr EXCEPT !["m"] = @ \ {l}]
                s == [isr EXCEPT !["m"] = @ \cup {l}]
            IN  IF l # Cascade
                THEN Takes(<<r, s>>, <<"m", l>>)
                ELSE IF Ready("s") = {}
                THEN Takes(<<r, s>>, <<"s", Last>>)
                ELSE LET k == Best("s")
                     IN  Takes(<<[r EXCEPT !["s"] = @ \ {k}], [s EXCEPT !["s"] = @ \cup {k}]>>,
                               <<"s", k>>)

(* A byte comes to the keyboard. *)
KeyByte ==
    /\ kbd.had < 2 * MaxBytes
    /\ kbd' = [has |-> kbd.has + 1, had |-> kbd.had + 1]
    /\ irr' = IF kbd.has = 0 THEN KbdEdge(1) ELSE irr
    /\ UNCHANGED <<isr, imr, noise, pc, irq, seen>>

(* Other lines rise, or take their request back. *)
Noise ==
    /\ noise < MaxNoise /\ noise' = noise + 1
    /\ \E o \in Others \cup {<<"m", Last>>} :
         irr' = [irr EXCEPT ![o[1]] = IF o[2] \in @ THEN @ \ {o[2]} ELSE @ \cup {o[2]}]
    /\ UNCHANGED <<isr, imr, kbd, pc, irq, seen>>
-----------------------------------------------------------------------------
(* isr_dispatcher, with interrupts off. *)

(* irq_is_spurious: the line is not in service. *)
IsSpurious(v) == v[2] \notin isr[v[1]]

Dispatch ==
    /\ pc = "dispatch" /\ UNCHANGED <<Pic, kbd>>
    /\ IF irq[2] = Last /\ IsSpurious(irq)
       THEN Goes(IF irq[1] = "s" THEN "eoi" ELSE "iret")
       ELSE Goes("handler")

(* The handler of the line: the keyboard's reads one byte. *)
Handler ==
    /\ pc = "handler"
    /\ pc' = IF irq[1] = "s" THEN "eoi2" ELSE "eoi"
    /\ UNCHANGED <<isr, imr, irq, noise>>
    /\ seen' = IF irq[2] \in isr[irq[1]] THEN seen ELSE seen \cup {irq}
    /\ IF irq = <<"m", Kbd>> /\ kbd.has > 0
       THEN kbd' = [kbd EXCEPT !.has = @ - 1] /\ irr' = KbdEdge(kbd.has - 1)
       ELSE UNCHANGED <<irr, kbd>>

(* An end-of-interrupt takes the highest line out of service. *)
Served(p) == [isr EXCEPT ![p] = @ \ {l \in @ : \A k \in @ : l <= k}]

Eoi2 == /\ pc = "eoi2" /\ Goes("eoi") /\ isr' = Served("s") /\ UNCHANGED <<irr, imr, kbd>>

EoiSlaveOnly(v) == IF v[1] = "s" THEN isr ELSE Served("m")
EoiMaster(v) == Served("m")
Eoi  == /\ pc = "eoi" /\ Goes("iret") /\ isr' = EoiMaster(irq) /\ UNCHANGED <<irr, imr, kbd>>

Iret == /\ pc = "iret" /\ pc' = "task" /\ irq' = NoIrq /\ UNCHANGED <<Pic, kbd, noise, seen>>

Boot == Remap \/ Drain \/ Unmask \/ UnmaskOthers
Cpu  == Boot \/ Accept \/ Acknowledge \/ Dispatch \/ Handler \/ Eoi2 \/ Eoi \/ Iret

Next == Cpu \/ Cascades \/ KeyByte \/ Noise

Spec == Init /\ [][Next]_vars

(* Interrupts are on in the task again and again, and the processor and    *)
(* the controllers work.                                                   *)
FairSpec == Spec /\ WF_vars(Cpu) /\ WF_vars(Cascades)
-----------------------------------------------------------------------------
TypeOK ==
    /\ \A p \in Pics : irr[p] \subseteq Lines /\ isr[p] \subseteq Lines /\ imr[p] \subseteq Lines
    /\ kbd.has \in 0 .. kbd.had /\ kbd.had \in 0 .. 2 * MaxBytes /\ noise \in 0 .. MaxNoise
    /\ pc \in {"remap", "drain", "unmask", "others", "task", "ack", "dispatch", "handler",
               "eoi2", "eoi", "iret"}
    /\ irq \in {NoIrq} \cup (Pics \X Lines) /\ seen \subseteq Pics \X Lines

(* No line is in service when no interrupt is being handled: one line in   *)
(* service for ever would block all that are lower.                        *)
NothingLeftInService == pc \in {"task", "ack"} => \A p \in Pics : isr[p] = {}

(* Handlers are only called for requests, never for spurious interrupts.   *)
HandlersHaveRequests == seen = {}

(* Handlers and controllers agree on what is being handled.                *)
InterruptsSound == TypeOK /\ NothingLeftInService /\ HandlersHaveRequests

(* What the keyboard has is read, also what came before the line was taken *)
(* into use, or while another interrupt was handled.                       *)
KeysAreRead == kbd.has > 0 ~> kbd.has = 0

(* A request that is not masked does not wait for ever.                    *)
RequestsAreServed == \A r \in {<<"m", Cascade>>, <<"m", Kbd>>} \cup Others :
    (r[2] \in irr[r[1]] /\ r[2] \notin imr[r[1]] /\ pc = "task") ~> r[2] \notin irr[r[1]]
=============================================================================
