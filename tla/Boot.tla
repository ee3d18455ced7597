-------------------------------- MODULE Boot --------------------------------
(***************************************************************************)
(* The UEFI loader, src/bootloader/uefi/boot.c: it reads the kernel to its *)
(* fixed address, chooses a display mode, takes a stack, and leaves the    *)
(* firmware with a memory map that the kernel's page allocator starts      *)
(* from.                                                                   *)
(*                                                                         *)
(* Leaving needs the key of the current map.  The map is written to a pool *)
(* of the loader, taking that pool changes the map, and the firmware may   *)
(* change it at any time; then the key is refused, or the pool has become  *)
(* too small, and the loader starts again.                                 *)
(*                                                                         *)
(* Memory is a row of pages, each with its use.  A descriptor stands for a *)
(* run of pages with one use, and sizes of maps are counted in them.       *)
(* Results the code does not look at may be failures too: an uninitialised *)
(* variable then has any value, and a call through one ends in "wild".     *)
(*                                                                         *)
(* Definitions such as AfterRefusalKeepsKey stand before the one whose     *)
(* name they extend and are mistakes the code could have made.             *)
(***************************************************************************)
EXTENDS Integers, FiniteSets

CONSTANTS
    N,          \* pages of memory
    Kernel,     \* pages at KERNEL_ADDR, the binary's and 64 more in the code
    Modes,      \* number of display modes
    FirstSize,  \* descriptors in the first pool (0x1000 bytes)
    Slack,      \* descriptors in 0x2000 bytes
    MaxChanges, \* bound: changes the firmware makes
    MaxFaults   \* bound: calls that fail

Pages == 1 .. N
Uses  == {"conv", "fw", "kernel", "stack", "map"}
NoPage == 0

BootAssumption ==
    /\ N \in Nat \ {0} /\ Kernel \subseteq Pages
    /\ {Modes, MaxChanges, MaxFaults, Slack} \subseteq Nat /\ Modes > 0
    /\ FirstSize \in Nat \ {0}

VARIABLES
    pc, mem,
    kern,     \* what is at KERNEL_ADDR: "none", "binary", or "empty"
    screen,   \* the modes, and the one in use
    scan,     \* the loop over the modes: i, best, bestpx
    ds, msize,
    snap,     \* what the pool at ds was filled with
    key,      \* "current" or "old": the key of the last map
    info,     \* _bootinfo
    changes, faults

vars == <<pc, mem, kern, screen, scan, ds, msize, snap, key, info, changes, faults>>

Runs(m) == Cardinality({p \in Pages : p = 1 \/ m[p] # m[p - 1]})

AllModes == [px : 1 .. 2, linear : BOOLEAN]

(* The loader is started with memory m and display s. *)
Enters(m, s) ==
    /\ pc = "protocols" /\ kern = "none" /\ mem = m /\ screen = s
    /\ scan = [i |-> 0, best |-> screen.mode, px |-> 0]
    /\ ds = NoPage /\ msize = FirstSize /\ snap = mem /\ key = "old"
    /\ info = [fb |-> -1, map |-> NoPage, size |-> 0, stack |-> NoPage]
    /\ changes = 0 /\ faults = 0

Init == \E m \in [Pages -> {"conv", "fw"}], modes \in [0 .. (Modes - 1) -> AllModes] :
          \E k \in 0 .. (Modes - 1) : Enters(m, [modes |-> modes, mode |-> k])

Goes(l) == pc' = l /\ UNCHANGED changes
Fault   == faults < MaxFaults /\ faults' = faults + 1
Fine    == UNCHANGED faults

(* Memory changes hands, and the last map's key is an old one. *)
Becomes(m) == mem' = m /\ key' = "old"

MapVars == <<ds, msize, snap>>

(* The handles that lead to the root directory; no result is looked at.    *)
Protocols ==
    /\ pc = "protocols" /\ UNCHANGED <<mem, key, kern, screen, scan, MapVars, info>>
    /\ (Goes("open") /\ Fine) \/ (Goes("wild") /\ Fault)

(* read_kernel.  Its size is that of the position at the end of the file,  *)
(* 0 when the calls that move there fail.                                  *)
ReadKernel ==
    /\ pc = "open" /\ UNCHANGED <<screen, scan, MapVars, info>>
    /\ \/ /\ \A p \in Kernel : mem[p] = "conv"
          /\ Becomes([p \in Pages |-> IF p \in Kernel THEN "kernel" ELSE mem[p]])
          /\ Goes("modes")
          /\ (kern' = "binary" /\ Fine) \/ (kern' = "empty" /\ Fault)
       \/ /\ Goes("fatal") /\ UNCHANGED <<mem, key, kern>>
          /\ Fault \/ (Fine /\ \E p \in Kernel : mem[p] # "conv")
-----------------------------------------------------------------------------
(* init_framebuf.  Without a display the loader stops. *)
NoDisplay ==
    /\ pc = "modes" /\ scan.i = 0 /\ Fault /\ Goes("fatal")
    /\ UNCHANGED <<mem, key, kern, screen, scan, MapVars, info>>

Better(px) == px > scan.px

(* One mode of the loop; one that cannot be queried is passed over. *)
QueryMode ==
    /\ pc = "modes" /\ scan.i < Modes /\ Goes("modes")
    /\ UNCHANGED <<mem, key, kern, screen, MapVars, info>>
    /\ LET px == screen.modes[scan.i].px IN
       \/ Fine /\ scan' = [i |-> scan.i + 1, best |-> IF Better(px) THEN scan.i ELSE scan.best,
                           px |-> IF Better(px) THEN px ELSE scan.px]
       \/ Fault /\ scan' = [scan EXCEPT !.i = @ + 1]

(* The result of SetMode is not looked at. *)
SetMode ==
    /\ pc = "modes" /\ scan.i = Modes /\ Goes("info")
    /\ UNCHANGED <<mem, key, kern, scan, MapVars, info>>
    /\ (Fine /\ screen' = [screen EXCEPT !.mode = scan.best]) \/ (Fault /\ UNCHANGED screen)

(* The mode that the framebuffer is described from. *)
Described == screen.mode

Framebuffer ==
    /\ pc = "info" /\ Fine /\ UNCHANGED <<mem, key, kern, screen, scan, MapVars>>
    /\ IF screen.modes[Described].linear
       THEN Goes("stack") /\ info' = [info EXCEPT !.fb = Described]
       ELSE Goes("fatal") /\ UNCHANGED info

(* The stack; when the call fails the variable is what it was. *)
Stack ==
    /\ pc = "stack" /\ Goes("alloc") /\ UNCHANGED <<kern, screen, scan, MapVars>>
    /\ \E p \in Pages :
         /\ info' = [info EXCEPT !.stack = p]
         /\ \/ Fine /\ mem[p] = "conv" /\ Becomes([mem EXCEPT ![p] = "stack"])
            \/ /\ Fault \/ (Fine /\ \A q \in Pages : mem[q] # "conv")
               /\ UNCHANGED <<mem, key>>
-----------------------------------------------------------------------------
(* get_mmaped_end_exit. *)

Freed == [p \in Pages |-> IF p = ds THEN "conv" ELSE mem[p]]

(* The old pool goes back and a new one is taken. *)
AllocatePool ==
    /\ pc = "alloc" /\ UNCHANGED <<kern, screen, scan, msize, info, snap>>
    /\ \/ \E p \in Pages : /\ Freed[p] = "conv" /\ ds' = p
                           /\ Becomes([Freed EXCEPT ![p] = "map"])
                           /\ Goes("map") /\ Fine
       \/ /\ Fault \/ (Fine /\ \A p \in Pages : Freed[p] # "conv")
          /\ Becomes(Freed) /\ ds' = NoPage /\ Goes("fatal")

(* Where a refused exit goes on. *)
AfterRefusal == "alloc"

Grown(n) == n + Slack

MapSizeOfPool == msize
(* actual_size, which GetMemoryMap sets to what it needed. *)
MapSize == Runs(mem)

(* GetMemoryMap: too small a pool, another error, or the map with its key. *)
GetMemoryMap ==
    /\ pc = "map" /\ UNCHANGED <<mem, kern, screen, scan, ds>>
    /\ \/ /\ Runs(mem) > msize /\ Fine
          /\ msize' = Grown(Runs(mem)) /\ Goes("alloc") /\ UNCHANGED <<snap, key, info>>
       \/ Fault /\ Goes("fatal") /\ UNCHANGED <<msize, snap, key, info>>
       \/ /\ Runs(mem) <= msize /\ Fine
          /\ snap' = mem /\ key' = "current" /\ Goes("exit") /\ UNCHANGED msize
          /\ info' = [info EXCEPT !.map = ds, !.size = MapSize]

(* ExitBootServices succeeds with the current key; then kjump. *)
ExitBootServices ==
    /\ pc = "exit" /\ Fine /\ UNCHANGED <<mem, key, kern, screen, scan, ds, snap, info>>
    /\ IF key = "current"
       THEN Goes("kernel") /\ UNCHANGED msize
       ELSE Goes(AfterRefusal) /\ msize' = Grown(info.size)

Loader == Protocols \/ ReadKernel \/ NoDisplay \/ QueryMode \/ SetMode \/ Framebuffer \/ Stack
          \/ AllocatePool \/ GetMemoryMap \/ ExitBootServices

(* The firmware, while it runs, takes pages for itself and gives them back. *)
Running == pc \notin {"kernel", "wild", "fatal"}

Firmware ==
    /\ Running /\ changes < MaxChanges /\ changes' = changes + 1
    /\ \E p \in Pages : \/ mem[p] = "conv" /\ Becomes([mem EXCEPT ![p] = "fw"])
                        \/ mem[p] = "fw" /\ Becomes([mem EXCEPT ![p] = "conv"])
    /\ UNCHANGED <<pc, kern, screen, scan, ds, msize, snap, info, faults>>

Next == Loader \/ Firmware

Spec == Init /\ [][Next]_vars

(* The loader is the only program; nothing takes the processor from it for *)
(* ever.                                                                   *)
FairSpec == Spec /\ WF_vars(Loader)
-----------------------------------------------------------------------------
TypeOK ==
    /\ pc \in {"protocols", "open", "modes", "info", "stack", "alloc", "map", "exit",
               "kernel", "fatal", "wild"}
    /\ {mem, snap} \subseteq [Pages -> Uses] /\ kern \in {"none", "binary", "empty"}
    /\ screen \in [modes : [0 .. (Modes - 1) -> AllModes], mode : 0 .. (Modes - 1)]
    /\ scan \in [i : 0 .. Modes, best : 0 .. (Modes - 1), px : 0 .. 2]
    /\ ds \in Pages \cup {NoPage} /\ msize \in 1 .. (FirstSize + N + Slack)
    /\ key \in {"current", "old"} /\ changes \in 0 .. MaxChanges /\ faults \in 0 .. MaxFaults
    /\ info \in [fb : -1 .. (Modes - 1), map : Pages \cup {NoPage}, size : 0 .. msize,
                 stack : Pages \cup {NoPage}]

(* The kernel starts with the memory map as it is at that moment, at the   *)
(* address and of the size it is told, and the map lists the kernel's      *)
(* pages and its own as taken: pmm_init puts its bitmap into what the map  *)
(* calls conventional before it reserves anything.                         *)
MapIsTrue == pc = "kernel" =>
    /\ snap = mem /\ info.map = ds /\ info.size = Runs(mem)
    /\ \A p \in Kernel \cup {info.map} : snap[p] # "conv"

(* However often the loader starts again, it holds one pool for the map.   *)
OnePool == {p \in Pages : mem[p] = "map"} = {ds} \ {NoPage}

(* The framebuffer the kernel draws to is that of the mode in use, also    *)
(* when the best mode could not be set.                                    *)
ScreenIsReal == pc = "kernel" => info.fb = screen.mode

(* What the kernel is handed is true, and the loader wastes no memory.     *)
LoaderSound == TypeOK /\ MapIsTrue /\ OnePool /\ ScreenIsReal

(* The loader comes to the kernel or stops with a message: maps that grow  *)
(* and keys that get old do not keep it for ever.                          *)
LoaderEnds == <>(pc \in {"kernel", "fatal", "wild"})
=============================================================================
