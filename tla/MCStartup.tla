----------------------------- MODULE MCStartup -----------------------------
(***************************************************************************)
(* The parts that bring the system up, on small instances for TLC: the     *)
(* loader, the interrupt controllers with the keyboard's line, and the two *)
(* halves of fat32_init, which looks for the partition and mounts it.      *)
(* They share no state, and a behaviour is one of a single part; the       *)
(* others stay as they begin.                                              *)
(***************************************************************************)
EXTENDS Integers, Sequences, FiniteSets, TLC

VARIABLES part,
    lPc, mem, kern, screen, scan, ds, msize, snap, key, info, changes, lFaults,
    iPc, irr, isr, imr, kbd, noise, irq, seen,
    gPc, disk, sec, pps, i, out, wild, gFaults,
    mPc, drive, call, fat, win, head, up, res, mFaults, given, left

loaderVars  == <<lPc, mem, kern, screen, scan, ds, msize, snap, key, info, changes, lFaults>>
irqVars     == <<iPc, irr, isr, imr, kbd, noise, irq, seen>>
searchVars  == <<gPc, disk, sec, pps, i, out, wild, gFaults>>
volumeVars  == <<mPc, drive, call, fat, win, head, up, res, mFaults, given, left>>
startupVars == <<part, loaderVars, irqVars, searchVars, volumeVars>>
-----------------------------------------------------------------------------
(* Five pages of memory, one of them the kernel's, and two display modes.  *)
Loader == INSTANCE Boot WITH
    N <- 5, Kernel <- {2}, Modes <- 2, FirstSize <- 3, Slack <- 1, MaxChanges <- 2,
    MaxFaults <- 1, pc <- lPc, faults <- lFaults

(* Controllers of four lines: the keyboard on line 1, the cascade on line  *)
(* 2, the last line of both, and another of the second.                    *)
Interrupts == INSTANCE Irq WITH
    W <- 4, Cascade <- 2, Kbd <- 1, Others <- {<<"s", 1>>, <<"s", 3>>, <<"m", 3>>},
    MaxBytes <- 2, MaxNoise <- 3, pc <- iPc
-----------------------------------------------------------------------------
(* Partition tables of two sectors.  Entries are of 128 bytes, four to a   *)
(* sector, or of 256.                                                      *)
Entry(t, f, n) == [type |-> t, first |-> f, asCount |-> n[1], asLba |-> n[2]]

(* What the words 8 to 13 of a name give: of a name of at most 8 letters,  *)
(* of at most 12, of 13 with a @ or an a at the end, and of more.          *)
Far       == 1000000000
PartNames == {<<0, 0>>, <<0, Far>>, <<64, Far>>, <<97, Far>>, <<7471201, Far>>}
PartKinds == {"esp", "other", "empty"}

(* The first entry of the second sector has a short name. *)
Table(size, k, n) ==
    [j \in 1 .. (2 * (512 \div size)) |->
        IF j > Len(k) THEN Entry("empty", 0, <<0, 0>>)
        ELSE Entry(k[j], 10 + j, IF j = 1 /\ k[1] # "empty" THEN n ELSE <<0, 0>>)]

Gpts ==
    {[sig |-> TRUE, count |-> c, lba |-> 2, size |-> s, table |-> Table(s, k, n)] :
        c \in {0, 3, 5}, s \in {128, 256}, k \in [1 .. 4 -> PartKinds], n \in PartNames}
    \cup {[sig |-> b, count |-> 5, lba |-> l, size |-> s, table |-> <<>>] :
             b \in BOOLEAN, l \in {2, 99}, s \in {64, 1024}}

NoGpt == [sig |-> FALSE, count |-> 5, lba |-> 2, size |-> 64, table |-> <<>>]

Search == INSTANCE Gpt WITH
    SectBytes <- 512, Disks <- Gpts, Sectors <- 20, MaxFaults <- 1, pc <- gPc, faults <- gFaults
-----------------------------------------------------------------------------
(* Drives of up to two partitions; two FAT entries are in a sector.        *)
BootSector(t, m, a, g) ==
    [good |-> g, mirror |-> m, act |-> a, res |-> 2, spf |-> 3, spc |-> 1, total |-> t]

(* Clusters of no sectors, and two clusters and FATs of no sectors.        *)
NoSectors == [BootSector(12, FALSE, 0, TRUE) EXCEPT !.spc = 0]
NoFats    == [BootSector(4, FALSE, 0, TRUE) EXCEPT !.spf = 0]

(* Four clusters for six entries; one cluster; more before the data than   *)
(* there are sectors; copies in all roles; fields that are not right.      *)
BootSectors ==
    {BootSector(12, FALSE, 0, TRUE), BootSector(12, TRUE, 1, TRUE), BootSector(12, TRUE, 2, TRUE),
     BootSector(12, FALSE, 1, TRUE), BootSector(12, FALSE, 2, TRUE), BootSector(9, FALSE, 0, TRUE),
     BootSector(5, FALSE, 0, TRUE), BootSector(12, FALSE, 0, FALSE), NoSectors}

Info(s, n, c) == [sigs |-> s, next_free |-> n, free_cnt |-> c]

(* next_free below, at the edges of, and behind the clusters 2 to 5; each  *)
(* value that is refused; counts that are right and too low.               *)
Infos == {Info(TRUE, 0, 4), Info(TRUE, 2, 3), Info(TRUE, 5, 0), Info(TRUE, 9, 4),
          Info(TRUE, 31, 4), Info(TRUE, 3, 31), Info(FALSE, 3, 4)}
Good  == Info(TRUE, 3, 4)
Full  == Info(TRUE, 2, 0)

Both(x)   == [p \in {0, 1} |-> x]
Two(x, y) == [p \in {0, 1} |-> IF p = 0 THEN x ELSE y]

(* A full drive with every sort of volume, and one with every FSINFO; with *)
(* a free cluster, one of each number of copies; and drives of two         *)
(* partitions, which are there or only said to be.                         *)
Whole(b, f, c) == [zero |-> "bpb", type |-> Both(FALSE), holds |-> Both(FALSE),
                   bpb |-> b, info |-> Both(f), free |-> Both(c)]
Split(z, t, h) == [zero |-> z, type |-> t, holds |-> h,
                   bpb |-> NoFats, info |-> Both(Full), free |-> Both({})]

AllDrives ==
    {Whole(b, Info(TRUE, 0, 0), {}) : b \in BootSectors}
    \cup {Whole(BootSector(12, TRUE, 1, TRUE), n, {}) : n \in Infos}
    \cup {Whole(BootSector(12, FALSE, 0, TRUE), Info(TRUE, 9, 1), {4}),
          Whole(BootSector(12, TRUE, 0, TRUE), Info(TRUE, 5, 1), {4})}
    \cup {Split("mbr", Both(TRUE), Both(TRUE)), Split("none", Both(TRUE), Both(TRUE)),
          Split("mbr", Two(TRUE, FALSE), Both(TRUE)), Split("mbr", Both(TRUE), Both(FALSE))}

NoDrive == [zero |-> "none", type |-> Both(FALSE), holds |-> Both(FALSE),
            bpb |-> BootSector(12, FALSE, 0, FALSE), info |-> Both(Good), free |-> Both({2, 5})]

Volumes == INSTANCE FatMount WITH
    Epc <- 2, MinClusts <- 2, Wrap <- 32, Parts <- {0, 1}, Drives <- AllDrives,
    Fats <- {"f1", "f2"}, MaxFaults <- 1, pc <- mPc, faults <- mFaults
-----------------------------------------------------------------------------
ASSUME StartupAssumption ==
    /\ Loader!BootAssumption /\ Interrupts!IrqAssumption /\ Search!GptAssumption
    /\ Volumes!MountAssumption /\ Volumes!NobodyAssumption

(* The displays: which mode has more pixels, which is linear, and which is *)
(* in use.                                                                 *)
Display(px, linear, k) ==
    [modes |-> [j \in {0, 1} |-> [px |-> px[j + 1], linear |-> linear[j + 1]]], mode |-> k]

Displays == {Display(<<2, 1>>, <<TRUE, TRUE>>, 1),
             Display(<<1, 2>>, <<TRUE, FALSE>>, 0), Display(<<1, 1>>, <<FALSE, TRUE>>, 1)}

LoaderInit   == \E m \in [1 .. 5 -> {"conv", "fw"}], s \in Displays : Loader!Enters(m, s)
LoaderStays  == Loader!Enters([p \in 1 .. 5 |-> "conv"], Display(<<1, 1>>, <<TRUE, TRUE>>, 0))
IrqStays     == Interrupts!Starts([p \in {"m", "s"} |-> {}], [p \in {"m", "s"} |-> {}], 0)
SearchStays  == Search!Called(NoGpt)
VolumesStay  == Volumes!Attached(NoDrive)

Init ==
    \/ part = "loader"  /\ LoaderInit     /\ IrqStays    /\ SearchStays /\ VolumesStay
    \/ part = "irq"     /\ Interrupts!Init /\ LoaderStays /\ SearchStays /\ VolumesStay
    \/ part = "search"  /\ Search!Init     /\ LoaderStays /\ IrqStays    /\ VolumesStay
    \/ part = "volumes" /\ Volumes!Init    /\ LoaderStays /\ IrqStays    /\ SearchStays

Next ==
    /\ UNCHANGED part
    /\ \/ part = "loader"  /\ Loader!Next     /\ UNCHANGED <<irqVars, searchVars, volumeVars>>
       \/ part = "irq"     /\ Interrupts!Next /\ UNCHANGED <<loaderVars, searchVars, volumeVars>>
       \/ part = "search"  /\ Search!Next     /\ UNCHANGED <<loaderVars, irqVars, volumeVars>>
       \/ part = "volumes" /\ Volumes!Next    /\ UNCHANGED <<loaderVars, irqVars, searchVars>>

(* What must go on in each part: the loader, which is the only program;    *)
(* the processor; a call of the file system.                               *)
Works ==
    /\ UNCHANGED part
    /\ \/ part = "loader"  /\ Loader!Loader  /\ UNCHANGED <<irqVars, searchVars, volumeVars>>
       \/ part = "irq"     /\ Interrupts!Cpu /\ UNCHANGED <<loaderVars, searchVars, volumeVars>>
       \/ part = "volumes" /\ Volumes!Steps  /\ UNCHANGED <<loaderVars, irqVars, searchVars>>

Cascades == /\ part = "irq" /\ Interrupts!Cascades
            /\ UNCHANGED <<part, loaderVars, searchVars, volumeVars>>

Spec == Init /\ [][Next]_startupVars /\ WF_startupVars(Works) /\ WF_startupVars(Cascades)
-----------------------------------------------------------------------------
(* The kernel starts with the memory map in force, its own pages and the   *)
(* map's taken in it, and with the framebuffer of the mode in use; the     *)
(* loader never holds two pools.                                           *)
LoaderSound == part = "loader" => Loader!LoaderSound

(* No line is left in service when no interrupt is handled, and handlers   *)
(* are called for requests only, never for spurious interrupts.            *)
InterruptsSound == part = "irq" => Interrupts!InterruptsSound

(* fat32_init finds a partition that is the first of its table.  Of the    *)
(* drives whose boot sector names no more sectors before the data than     *)
(* there are, fat_probe and fat_mount accept those that the comment above  *)
(* fat_probe names; a mounted volume has its areas apart, and the list of  *)
(* volumes is right.                                                       *)
VolumeFound ==
    /\ part = "search" => Search!SearchSound
    /\ part = "volumes" => Volumes!VolumesSound /\ Volumes!InfoStaysGood

=============================================================================
