---------------------------- MODULE FatDirProofs ----------------------------
(***************************************************************************)
(* Proofs about FatDir, for directories of any size, names of any length   *)
(* and with any short names, and any number of failed transfers and power  *)
(* losses.                                                                 *)
(*                                                                         *)
(* The first part turns sectors and the window into the directory the      *)
(* driver sees and the one on the medium, and says what each action does   *)
(* to them.  The second part is about directories alone: what holds of one *)
(* whose slots are changed one by one.  The third puts the two together to *)
(* the inductive invariant.  The fourth counts the names that calls leave  *)
(* in pieces when they fail, outside the slots the running call is at: a   *)
(* second invariant, on top of the first.  The theorems follow from them.  *)
(***************************************************************************)
EXTENDS FatDir, FatWindowProofs, FiniteSetTheorems

Marks == {"used", "free", "last"}
Kinds == {"lfn", "sfn", "none", "junk", "alien"}
SlotVals == {s \in [mark : Marks, kind : Kinds, n : Names \cup {"none"}, k : Nat] :
                s.kind \in {"lfn", "sfn"} => s.n \in Names}
Dirs == [Slots -> SlotVals]

Sects == DirSects \cup {OtherSect}
LinkVals == [links : 1 .. MaxClust]
SectVals(s) == IF s = OtherSect THEN LinkVals ELSE [Cells(s) -> SlotVals]
AllVals == (UNION {SectVals(s) : s \in Sects}) \cup {NoWin.buf}

MediumFits ==
    /\ faults \in 0 .. MaxFaults
    /\ WindowFits(Sects, NoSect, AllVals)
    /\ \A s \in Sects : disk[s] \in SectVals(s) /\ View(s) \in SectVals(s)

(* What a step can leave as it is, and how the medium can follow. *)
Still   == Driver' = Driver /\ InView' = InView
Stays   == Medium' = Medium /\ OnDisk' = OnDisk
Settles == Medium' = Driver /\ OnDisk' = InView

Calm    == faults' = 0 => faults = 0

(* The ways a step can treat the directory. *)
Looks == MediumFits' /\ Calm /\ Still /\ (Stays \/ Settles)
Syncs == Looks /\ Settles /\ ~win'.dirty
Puts(p, v) == MediumFits' /\ Calm /\ Driver' = [Driver EXCEPT ![p] = v] /\ InView' = InView /\ (Stays \/ Settles)
Links(n) == MediumFits' /\ Calm /\ Driver' = Driver /\ InView' = n * ClustSlots /\ (Stays \/ Settles)
Cleared(s) == [p \in Slots |-> IF SectOf(p) = s THEN Zero ELSE Driver[p]]
Clears(s) == /\ MediumFits' /\ Calm /\ Driver' = Cleared(s) /\ InView' = InView
             /\ Stays \/ (Medium' = Driver' /\ OnDisk' = InView)
-----------------------------------------------------------------------------
LEMMA Constants ==
    /\ PerSect \in Nat /\ PerSect > 0 /\ SectsPerClust \in Nat /\ SectsPerClust > 0
    /\ MaxClust \in Nat /\ MaxClust > 0 /\ MaxFaults \in Nat
    /\ ClustSlots \in Nat /\ ClustSlots > 0
    /\ MaxClust * ClustSlots \in Nat /\ MaxClust * SectsPerClust \in Nat
    /\ OtherSect \in Nat /\ NoSect = OtherSect + 1
    /\ \A n \in Names : Frags[n] \in 1 .. 20
    /\ Slots \subseteq Nat
  <1>1. /\ PerSect \in Nat /\ PerSect > 0 /\ SectsPerClust \in Nat /\ SectsPerClust > 0
        /\ MaxClust \in Nat /\ MaxClust > 0 /\ MaxFaults \in Nat
        /\ \A n \in Names : Frags[n] \in 1 .. 20
    BY DirAssumption, WindowAssumption
  <1>2. \A m, n \in Nat : m * n \in Nat /\ (m > 0 /\ n > 0 => m * n > 0)  OBVIOUS
  <1>3. ClustSlots \in Nat /\ ClustSlots > 0  BY <1>1, <1>2 DEF ClustSlots
  <1>4. MaxClust * ClustSlots \in Nat  BY <1>1, <1>3
  <1>5. OtherSect \in Nat /\ NoSect = OtherSect + 1  BY <1>1 DEF OtherSect, NoSect
  <1>6. Slots \subseteq Nat  BY <1>4 DEF Slots
  <1> QED BY <1>1, <1>3, <1>4, <1>5, <1>6 DEF OtherSect

LEMMA SectorsFit ==
    /\ \A p \in Slots : SectOf(p) \in DirSects /\ SectOf(p) \in Sects /\ p \in Cells(SectOf(p))
                        /\ SectOf(p) # OtherSect
    /\ OtherSect \in Sects /\ OtherSect \notin DirSects /\ NoSect \notin Sects
    /\ SectVals(OtherSect) = LinkVals
    /\ \A s \in DirSects : SectVals(s) = [Cells(s) -> SlotVals]
    /\ \A s \in Sects : SectVals(s) \subseteq AllVals
    /\ NoWin.buf \in AllVals
  <1> DEFINE m == MaxClust * SectsPerClust
  <1>1. m \in Nat /\ m * PerSect = MaxClust * ClustSlots
    <2>1. PerSect \in Nat /\ SectsPerClust \in Nat /\ MaxClust \in Nat /\ m \in Nat  BY Constants
    <2>2. \A a, b, c \in Nat : (a * b) * c = a * (c * b)  OBVIOUS
    <2> QED BY <2>1, <2>2 DEF ClustSlots
  <1>2. \A p \in Slots : SectOf(p) \in DirSects
    <2> TAKE p \in Slots
    <2>1. p \in Nat /\ p < m * PerSect  BY <1>1, Constants DEF Slots
    <2>2. p \div PerSect \in Nat /\ p \div PerSect < m  BY <1>1, <2>1, Constants, Division
    <2> HIDE DEF m
    <2>3. p \div PerSect \in 0 .. (m - 1)  BY <1>1, <2>2
    <2> QED BY <2>3 DEF SectOf, DirSects, m
  <1>3. OtherSect \notin DirSects /\ NoSect \notin Sects
    BY Constants DEF DirSects, OtherSect, NoSect, Sects
  <1> QED BY <1>2, <1>3 DEF Sects, Cells, SectVals, AllVals

LEMMA ViewTypes ==
    ASSUME MediumFits
    PROVE  /\ Driver \in Dirs /\ Medium \in Dirs
           /\ View(OtherSect) \in LinkVals /\ disk[OtherSect] \in LinkVals
           /\ \E n \in 1 .. MaxClust : InView = n * ClustSlots
           /\ InView \in Nat /\ OnDisk \in Nat
  <1>1. \A p \in Slots : View(SectOf(p))[p] \in SlotVals /\ disk[SectOf(p)][p] \in SlotVals
    BY SectorsFit DEF MediumFits
  <1>2. View(OtherSect) \in LinkVals /\ disk[OtherSect] \in LinkVals  BY SectorsFit DEF MediumFits
  <1>3. View(OtherSect).links \in 1 .. MaxClust /\ disk[OtherSect].links \in 1 .. MaxClust
    BY <1>2 DEF LinkVals
  <1>4. InView \in Nat /\ OnDisk \in Nat
    <2>1. \A n \in 1 .. MaxClust : n * ClustSlots \in Nat  BY Constants
    <2> QED BY <1>3, <2>1 DEF InView, OnDisk
  <1> QED BY <1>1, <1>2, <1>3, <1>4 DEF Driver, Medium, Dirs, InView

(* When all sectors stay as they are seen, so does the directory. *)
LEMMA StillIs ==
    ASSUME \A t \in Sects : View(t)' = View(t) PROVE Still
  BY SectorsFit DEF Still, Driver, InView

LEMMA MediumIs ==
    /\ disk' = disk => Stays
    /\ (\A t \in Sects : disk'[t] = View(t)) => Settles
  BY SectorsFit DEF Stays, Settles, Driver, Medium, InView, OnDisk

(* A step that only takes what update_buf or sync_buf leaves.               *)
LEMMA LooksAt ==
    ASSUME MediumFits, NEW o, OutcomeFits(o, Sects, NoSect, AllVals), Took(o) PROVE Looks
  <1>1. /\ WindowFits(Sects, NoSect, AllVals)'
        /\ \A t \in Sects : View(t)' = View(t)
        /\ disk' = disk \/ \A t \in Sects : disk'[t] = View(t)
    BY SectorsFit, TookFits
  <1>0. faults \in 0 .. MaxFaults /\ MaxFaults \in Nat /\ (faults' = faults \/ (faults < MaxFaults /\ faults' = faults + 1))
    BY Constants DEF Took, MediumFits
  <1>3. faults' \in 0 .. MaxFaults /\ Calm  BY <1>0 DEF Calm
  <1>2. MediumFits'  BY <1>1, <1>3 DEF MediumFits
  <1> QED BY <1>1, <1>2, <1>3, StillIs, MediumIs DEF Looks

LEMMA UpdateLooks ==
    ASSUME MediumFits, NEW s \in Sects, NEW o \in UpdateBuf(s), Took(o)
    PROVE  Looks /\ (o.ok => o.win.buf = View(s))
  <1>1. OutcomeFits(o, Sects, NoSect, AllVals) /\ (o.ok => o.win.buf = View(s))
    BY SectorsFit, UpdateBufFits DEF MediumFits
  <1> QED BY <1>1, LooksAt

LEMMA SyncLooks ==
    ASSUME MediumFits, NEW o \in SyncBuf, Took(o) PROVE Looks /\ (o.ok => Syncs)
  <1>1. /\ OutcomeFits(o, Sects, NoSect, AllVals)
        /\ o.ok => ~o.win.dirty /\ \A t \in Sects : o.disk[t] = View(t)
    BY SectorsFit, SyncBufFits DEF MediumFits
  <1>2. Looks  BY <1>1, LooksAt
  <1>3. o.ok => ~win'.dirty /\ Settles  BY <1>1, MediumIs DEF Took
  <1> QED BY <1>2, <1>3 DEF Syncs

(* A step that stores in a sector: the others stay as they are, and what    *)
(* was seen has reached the medium or stays in the window.                  *)
LEMMA WritesSector ==
    ASSUME MediumFits, NEW s \in Sects, NEW o \in UpdateBuf(s), NEW x, NEW v, Writes(o, x, v),
           [View(s) EXCEPT ![x] = v] \in SectVals(s)
    PROVE  /\ MediumFits' /\ Calm
           /\ View(s)' = [View(s) EXCEPT ![x] = v]
           /\ \A t \in Sects \ {s} : View(t)' = View(t)
           /\ Stays \/ Settles
  <1>1. [View(s) EXCEPT ![x] = v] \in AllVals  BY SectorsFit
  <1>2. /\ WindowFits(Sects, NoSect, AllVals)'
        /\ View(s)' = [View(s) EXCEPT ![x] = v]
        /\ \A t \in Sects \ {s} : View(t)' = View(t)
        /\ \/ \A t \in Sects : disk'[t] = View(t)
           \/ disk' = disk /\ \A t \in Sects \ {s} : disk[t] = View(t)
    <2>1. NoSect \notin Sects /\ WindowFits(Sects, NoSect, AllVals) /\ Rewritten(s, x, v) \in AllVals
      BY <1>1, SectorsFit DEF MediumFits, Rewritten
    <2>2. /\ WindowFits(Sects, NoSect, AllVals)'
          /\ View(s)' = Rewritten(s, x, v)
          /\ \A t \in Sects \ {s} : View(t)' = View(t)
          /\ \/ \A t \in Sects : disk'[t] = View(t)
             \/ disk' = disk /\ \A t \in Sects \ {s} : disk[t] = View(t)
      BY <2>1, WritesFits
    <2> QED BY <2>2 DEF Rewritten
  <1>3. \A t \in Sects : View(t)' \in SectVals(t) /\ disk'[t] \in SectVals(t)
    BY <1>2 DEF MediumFits
  <1>4. MediumFits' /\ Calm  BY <1>2, <1>3 DEF MediumFits, Calm, Writes
  <1> QED BY <1>2, <1>4, MediumIs

LEMMA WritesSlot ==
    ASSUME MediumFits, NEW p \in Slots, NEW v \in SlotVals, NEW o \in UpdateBuf(SectOf(p)), Writes(o, p, v)
    PROVE  Puts(p, v)
  <1> DEFINE s == SectOf(p)
  <1>1. s \in Sects /\ s \in DirSects /\ s # OtherSect /\ p \in Cells(s)  BY SectorsFit
  <1>2. View(s) \in [Cells(s) -> SlotVals]  BY <1>1, SectorsFit DEF MediumFits
  <1>3. [View(s) EXCEPT ![p] = v] \in SectVals(s)  BY <1>1, <1>2, SectorsFit
  <1>5. /\ MediumFits' /\ Calm
        /\ View(s)' = [View(s) EXCEPT ![p] = v]
        /\ \A t \in Sects \ {s} : View(t)' = View(t)
        /\ Stays \/ Settles
    BY <1>1, <1>3, WritesSector
  <1>8. InView' = InView  BY <1>1, <1>5, SectorsFit DEF InView
  <1>9. Driver' = [Driver EXCEPT ![p] = v]
    <2>1. \A q \in Slots : SectOf(q) # s => View(SectOf(q))' = View(SectOf(q))
      BY <1>5, SectorsFit
    <2>2. \A q \in Slots : SectOf(q) = s => q \in Cells(s)  BY SectorsFit
    <2>3. \A q \in Slots : View(SectOf(q))'[q] = IF q = p THEN v ELSE View(SectOf(q))[q]
      BY <1>1, <1>2, <1>5, <2>1, <2>2
    <2> QED BY <2>3 DEF Driver
  <1> QED BY <1>5, <1>8, <1>9 DEF Puts

LEMMA WritesLinks ==
    ASSUME MediumFits, NEW n \in 1 .. MaxClust, NEW o \in UpdateBuf(OtherSect), Writes(o, "links", n)
    PROVE  Links(n)
  <1> DEFINE s == OtherSect
             b == [View(s) EXCEPT !["links"] = n]
  <1>1. View(s) \in LinkVals /\ s \in Sects /\ SectVals(s) = LinkVals  BY ViewTypes, SectorsFit
  <1>2. b \in LinkVals /\ b.links = n  BY <1>1 DEF LinkVals
  <1>4. /\ MediumFits' /\ Calm
        /\ View(s)' = b
        /\ \A t \in Sects \ {s} : View(t)' = View(t)
        /\ Stays \/ Settles
    BY <1>1, <1>2, WritesSector
  <1> HIDE DEF b
  <1>7. InView' = n * ClustSlots  BY <1>2, <1>4 DEF InView
  <1>8. Driver' = Driver  BY <1>4, SectorsFit DEF Driver
  <1> QED BY <1>4, <1>7, <1>8 DEF Links

(* A step that turns the clean window into a cleared sector. *)
LEMMA ClearsSector ==
    ASSUME MediumFits, ~win.dirty, faults' \in 0 .. MaxFaults, Calm, NEW s \in DirSects,
           NEW zeros, zeros = [p \in Cells(s) |-> Zero],
           win' \in [sect : {s}, buf : {zeros}, dirty : BOOLEAN],
           \/ win'.dirty /\ disk' = disk
           \/ disk' = [disk EXCEPT ![s] = zeros]
    PROVE  Clears(s)
  <1>1. s \in Sects /\ s # OtherSect /\ SectVals(s) = [Cells(s) -> SlotVals]  BY SectorsFit DEF Sects
  <1>2. Zero \in SlotVals  BY DEF Zero, SlotVals, Marks, Kinds
  <1>3. zeros \in SectVals(s) /\ zeros \in AllVals  BY <1>1, <1>2, SectorsFit
  <1>4. WindowFits(Sects, NoSect, AllVals)  BY DEF MediumFits
  <1>5. disk' \in [Sects -> AllVals] /\ (disk' = disk \/ disk'[s] = zeros)
        /\ \A t \in Sects \ {s} : disk'[t] = disk[t]
    BY <1>1, <1>3, <1>4 DEF WindowFits
  <1>6. /\ win' \in [sect : Sects \cup {NoSect}, buf : AllVals, dirty : BOOLEAN]
        /\ win'.sect = s /\ win'.buf = zeros
    BY <1>1, <1>3
  <1>7. ~win'.dirty => disk'[s] = zeros
    BY <1>1, <1>4 DEF WindowFits
  <1>8. WindowFits(Sects, NoSect, AllVals)'  BY <1>1, <1>5, <1>6, <1>7 DEF WindowFits
  <1>9. \A t \in Sects : View(t) = disk[t]  BY <1>4 DEF WindowFits, View
  <1>10. View(s)' = zeros /\ \A t \in Sects \ {s} : View(t)' = View(t) /\ disk'[t] = View(t)
    BY <1>5, <1>6, <1>9 DEF View
  <1>11. \A t \in Sects : View(t)' \in SectVals(t) /\ disk'[t] \in SectVals(t)
    BY <1>3, <1>5, <1>10 DEF MediumFits
  <1>12. MediumFits'  BY <1>8, <1>11 DEF MediumFits
  <1>13. InView' = InView  BY <1>1, <1>10, SectorsFit DEF InView
  <1>14. Driver' = Cleared(s)
    <2>1. \A q \in Slots : SectOf(q) # s => View(SectOf(q))' = View(SectOf(q))
      BY <1>10, SectorsFit
    <2>2. \A q \in Slots : SectOf(q) = s => q \in Cells(s)  BY SectorsFit
    <2>3. \A q \in Slots : View(SectOf(q))'[q] = IF SectOf(q) = s THEN Zero ELSE View(SectOf(q))[q]
      BY <1>10, <2>1, <2>2
    <2> QED BY <2>3 DEF Driver, Cleared
  <1>15. Stays \/ (Medium' = Driver' /\ OnDisk' = InView)
    <2>1. CASE disk' = disk  BY <2>1, MediumIs
    <2>2. CASE disk'[s] = zeros
      <3>1. \A t \in Sects : disk'[t] = View(t)'  BY <1>10, <2>2
      <3>2. Medium' = Driver' /\ OnDisk' = InView'  BY <3>1, SectorsFit DEF Medium, Driver, OnDisk, InView
      <3> QED BY <1>13, <3>2
    <2> QED BY <1>5, <2>1, <2>2
  <1> QED BY <1>12, <1>13, <1>14, <1>15 DEF Clears

(* Power is lost. *)
LEMMA CrashTurns ==
    ASSUME MediumFits, Crash
    PROVE  MediumFits' /\ faults' # 0 /\ Driver' = Medium /\ InView' = OnDisk /\ Stays
  <1>0. NoSect \notin Sects /\ NoWin.buf \in AllVals /\ WindowFits(Sects, NoSect, AllVals)
    BY SectorsFit DEF MediumFits
  <1>1. win' = [sect |-> NoSect, buf |-> NoWin.buf, dirty |-> FALSE] /\ disk' = disk  BY DEF Crash, NoWin
  <1>2. WindowFits(Sects, NoSect, AllVals)' /\ \A t \in Sects : View(t)' = disk[t]
    BY <1>0, <1>1, LostPowerFits
  <1>5. faults' \in 0 .. MaxFaults /\ faults' # 0  BY Constants DEF Crash, MediumFits
  <1>3. MediumFits'  BY <1>1, <1>2, <1>5 DEF MediumFits
  <1>4. Driver' = Medium /\ InView' = OnDisk
    BY <1>2, SectorsFit DEF Driver, Medium, InView, OnDisk
  <1> QED BY <1>1, <1>3, <1>5, <1>4, MediumIs
-----------------------------------------------------------------------------
(* Directories.  A slot is foreign when no entry was ever written there; an *)
(* entry begins with a head, which says where its short name has to be, and *)
(* is whole when there is one.                                              *)
Foreign(s) == s.kind \in {"none", "junk", "alien"}
Open(s)    == s.mark # "used" \/ Foreign(s)
HeadAt(dir, q) == dir[q].mark = "used" /\ dir[q].kind = "lfn" /\ IsHead(dir[q])
Reach(dir, q)  == q + Frags[dir[q].n]
SfnAt(dir, p)  == p \in Slots /\ dir[p].mark = "used" /\ dir[p].kind = "sfn"
Whole(dir, q)  == HeadAt(dir, q) /\ SfnAt(dir, Reach(dir, q))
Part(n, i) == IF i < Frags[n] THEN Lfn(n, Frags[n] - i) ELSE Sfn(n)

(* What holds of every directory the driver sees, or leaves on the medium:  *)
(* entries end before the chain does and do not overlap, what looks like an *)
(* entry is one, and its short name is nowhere else; behind the end all is  *)
(* foreign.                                                                 *)
Good(dir, cnt) ==
    /\ \A p \in Slots : p >= cnt \/ ~Before(dir, p) => Foreign(dir[p])
    /\ \A q \in Slots : HeadAt(dir, q) => Reach(dir, q) < cnt
    /\ \A q, p \in Slots : HeadAt(dir, q) /\ HeadAt(dir, p) /\ q < p => Reach(dir, q) < p
    /\ \A q, p \in Slots : Whole(dir, q) /\ q <= p /\ p <= Reach(dir, q) => dir[p] = Part(dir[q].n, p - q)
    /\ \A q, p \in Slots : Whole(dir, q) /\ SfnAt(dir, p) /\ dir[p].n = dir[q].n => p = Reach(dir, q)

Size   == MaxClust * ClustSlots
Counts == {c \in Nat : c > 0 /\ c <= Size}

(* A search for n has passed these slots without finding it. *)
Passed(dir, n, b) ==
    /\ \A p \in Slots : p < b => dir[p].mark # "last"
    /\ \A q \in Slots : q < b /\ HeadAt(dir, q) => Whole(dir, q) /\ Reach(dir, q) < b /\ dir[q].n # n
    /\ \A p \in Slots : p < b /\ SfnAt(dir, p) => dir[p].n # n

(* There is no n, and nothing is in pieces that has a head. *)
Missing(dir, n) ==
    /\ \A q \in Slots : HeadAt(dir, q) => Whole(dir, q) /\ dir[q].n # n
    /\ \A p \in Slots : SfnAt(dir, p) => dir[p].n # n

(* The entry at loc has been parsed as far as b. *)
Parsing(dir, n, loc, left, match, b) ==
    /\ loc \in Slots /\ HeadAt(dir, loc) /\ Passed(dir, n, loc)
    /\ left \in 0 .. Frags[dir[loc].n] /\ b = Reach(dir, loc) - left
    /\ match => /\ Frags[dir[loc].n] = Frags[n]
                /\ left < Frags[n] => dir[loc].n = n
    /\ dir[loc].n = n /\ Whole(dir, loc) => match

(* k slots up to b are open for an entry, from loc on. *)
Run(dir, loc, k, eod, b) ==
    /\ k = 0 => ~eod
    /\ k > 0 => loc + k = b /\ \A p \in Slots : loc <= p /\ p < b => Open(dir[p])
    /\ \A p \in Slots : p < b /\ (k > 0 => p < loc) => dir[p].mark # "last"
    /\ ~eod => \A p \in Slots : p < b => dir[p].mark # "last"
    /\ eod => \E p \in Slots : p < b /\ dir[p].mark = "last"

(* The entry of n is written from slot a up to b. *)
Filling(dir, cnt, n, a, b) ==
    /\ a \in Nat /\ a <= b /\ b <= a + Frags[n] + 1 /\ a + Frags[n] < cnt
    /\ \A p \in Slots : a <= p /\ p < b => dir[p] = Part(n, p - a)
    /\ \A p \in Slots : b <= p /\ p <= a + Frags[n] => Open(dir[p])
    /\ \A p \in Slots : p < a => dir[p].mark # "last"
    /\ \A q \in Slots : q # a /\ HeadAt(dir, q) => Whole(dir, q) /\ dir[q].n # n
    /\ \A p \in Slots : p # a + Frags[n] /\ SfnAt(dir, p) => dir[p].n # n
    /\ \/ \A p \in Slots : b <= p /\ p <= a + Frags[n] => dir[p].mark # "last"
       \/ a + Frags[n] + 1 < cnt /\ dir[a + Frags[n] + 1].mark = "last"

(* The slots from b to the last are to be freed. *)
Unmarking(dir, cnt, n, last, b) ==
    /\ b <= last /\ last < cnt
    /\ \A q \in Slots : HeadAt(dir, q) => q = b \/ Reach(dir, q) < b \/ last < q
    /\ HeadAt(dir, b) => Whole(dir, b) /\ dir[b].n = n /\ Reach(dir, b) = last
    /\ \A p \in Slots : b <= p /\ p <= last => dir[p].mark = "used"

LEMMA PartIs ==
    ASSUME NEW n \in Names
    PROVE  /\ \A i \in 0 .. Frags[n] : /\ Part(n, i) = Entry[n][i + 1] /\ Part(n, i) \in SlotVals
                                       /\ Part(n, i).mark = "used" /\ ~Foreign(Part(n, i)) /\ ~Open(Part(n, i))
                                       /\ Part(n, i).n = n
                                       /\ Part(n, i).kind = IF i < Frags[n] THEN "lfn" ELSE "sfn"
                                       /\ i < Frags[n] => Part(n, i).k = Frags[n] - i
           /\ Frags[n] \in 1 .. 20
  <1>1. Frags[n] \in 1 .. 20  BY Constants
  <1>2. \A i \in 0 .. Frags[n] : Part(n, i) = Entry[n][i + 1]
    <2> TAKE i \in 0 .. Frags[n]
    <2>1. i + 1 \in 1 .. (Frags[n] + 1) /\ (i + 1 <= Frags[n] <=> i < Frags[n])
          /\ Frags[n] + 1 - (i + 1) = Frags[n] - i
      BY <1>1
    <2>2. Entry[n][i + 1] = IF i + 1 <= Frags[n] THEN Lfn(n, Frags[n] + 1 - (i + 1)) ELSE Sfn(n)
      BY <2>1 DEF Entry
    <2> QED BY <2>1, <2>2 DEF Part
  <1>3. \A i \in 0 .. Frags[n] : /\ Part(n, i) \in SlotVals
                                 /\ Part(n, i).mark = "used" /\ ~Foreign(Part(n, i)) /\ ~Open(Part(n, i))
                                 /\ Part(n, i).n = n
                                 /\ Part(n, i).kind = IF i < Frags[n] THEN "lfn" ELSE "sfn"
                                 /\ i < Frags[n] => Part(n, i).k = Frags[n] - i
    BY <1>1 DEF Part, Lfn, Sfn, SlotVals, Marks, Kinds, Foreign, Open
  <1> QED BY <1>1, <1>2, <1>3

LEMMA SlotShapes ==
    ASSUME NEW dir \in Dirs
    PROVE  /\ \A p \in Slots : /\ dir[p] \in SlotVals /\ dir[p].mark \in Marks /\ dir[p].kind \in Kinds
                               /\ dir[p].n \in Names \cup {"none"} /\ dir[p].k \in Nat
           /\ \A q \in Slots : HeadAt(dir, q) => /\ dir[q].n \in Names /\ Frags[dir[q].n] \in 1 .. 20
                                                 /\ Reach(dir, q) \in Nat /\ q < Reach(dir, q)
                                                 /\ ~Foreign(dir[q]) /\ ~Open(dir[q]) /\ ~SfnAt(dir, q)
           /\ \A p \in Slots : SfnAt(dir, p) => dir[p].n \in Names /\ ~Foreign(dir[p]) /\ ~Open(dir[p])
  BY Constants DEF Dirs, SlotVals, HeadAt, Reach, Foreign, Open, SfnAt

LEMMA SlotIs == Size \in Nat /\ \A p : p \in Slots <=> p \in Nat /\ p < Size
  BY Constants DEF Slots, Size

(* The whole entries are those that stand in the directory. *)
LEMMA StandsIs ==
    ASSUME NEW dir \in Dirs, NEW cnt \in Counts, Good(dir, cnt), NEW n \in Names, NEW p \in Slots
    PROVE  Stands(dir, cnt, n, p) <=> Whole(dir, p) /\ dir[p].n = n
  <1>0. Frags[n] \in 1 .. 20 /\ p \in Nat /\ cnt \in Nat /\ cnt <= Size
    BY PartIs, SlotIs DEF Counts
  <1>1. ASSUME Stands(dir, cnt, n, p) PROVE Whole(dir, p) /\ dir[p].n = n
    <2>1. p + Frags[n] < cnt /\ \A i \in 0 .. Frags[n] : dir[p + i] = Part(n, i)
      BY <1>1, PartIs DEF Stands
    <2>2. dir[p + 0] = Part(n, 0) /\ p + 0 = p /\ dir[p + Frags[n]] = Part(n, Frags[n])
      BY <1>0, <2>1
    <2>3. dir[p].mark = "used" /\ dir[p].kind = "lfn" /\ dir[p].n = n /\ dir[p].k = Frags[n]
      BY <1>0, <2>2, PartIs
    <2>4. dir[p + Frags[n]].mark = "used" /\ dir[p + Frags[n]].kind = "sfn"
      BY <1>0, <2>2, PartIs
    <2>5. p + Frags[n] \in Slots  BY <1>0, <2>1, SlotIs
    <2>6. Reach(dir, p) = p + Frags[n]  BY <2>3 DEF Reach
    <2>7. HeadAt(dir, p)  BY <2>3 DEF HeadAt, IsHead
    <2>8. SfnAt(dir, Reach(dir, p))  BY <2>4, <2>5, <2>6 DEF SfnAt
    <2> QED BY <2>3, <2>7, <2>8 DEF Whole
  <1>2. ASSUME Whole(dir, p), dir[p].n = n PROVE Stands(dir, cnt, n, p)
    <2>1. HeadAt(dir, p) /\ Reach(dir, p) = p + Frags[n] /\ p + Frags[n] < cnt /\ p + Frags[n] \in Slots
      BY <1>2 DEF Whole, Good, Reach, SfnAt
    <2>2. \A i \in 0 .. Frags[n] : dir[p + i] = Part(n, i)
      <3> TAKE i \in 0 .. Frags[n]
      <3>1. p + i \in Slots /\ p <= p + i /\ p + i <= Reach(dir, p) /\ (p + i) - p = i
        BY <1>0, <2>1, SlotIs
      <3> DEFINE x == p + i
      <3>2. x \in Slots /\ p <= x /\ x <= Reach(dir, p) => dir[x] = Part(dir[p].n, x - p)
        BY <1>2 DEF Good
      <3> QED BY <1>2, <3>1, <3>2
    <2>3. Before(dir, p)  BY <2>1, SlotShapes DEF Good
    <2> QED BY <2>1, <2>2, <2>3, PartIs DEF Stands
  <1> QED BY <1>1, <1>2

(* The slots of a whole entry are not open, those of two are apart.         *)
LEMMA WholeShapes ==
    ASSUME NEW dir \in Dirs, NEW cnt \in Counts, Good(dir, cnt), NEW q \in Slots, Whole(dir, q)
    PROVE  /\ HeadAt(dir, q) /\ Reach(dir, q) \in Slots /\ Reach(dir, q) < cnt /\ q < Reach(dir, q)
           /\ dir[q].n \in Names /\ dir[Reach(dir, q)].n = dir[q].n
           /\ \A p \in Slots : q <= p /\ p <= Reach(dir, q) => dir[p].mark = "used" /\ ~Open(dir[p]) /\ ~Foreign(dir[p])
  <1>1. HeadAt(dir, q) /\ SfnAt(dir, Reach(dir, q))  BY DEF Whole
  <1>2. Reach(dir, q) \in Slots /\ Reach(dir, q) < cnt /\ q < Reach(dir, q) /\ dir[q].n \in Names
        /\ Frags[dir[q].n] \in 1 .. 20 /\ q \in Nat
    BY <1>1, SlotShapes, Constants DEF Good, SfnAt
  <1> DEFINE n == dir[q].n
  <1>3. \A p \in Slots : q <= p /\ p <= Reach(dir, q) => dir[p] = Part(n, p - q) /\ p - q \in 0 .. Frags[n]
    <2> TAKE p \in Slots
    <2> HAVE q <= p /\ p <= Reach(dir, q)
    <2>1. p \in Nat  BY Constants
    <2> QED BY <1>2, <2>1 DEF Good, Reach
  <1>4. n \in Names  BY <1>2
  <1> HIDE DEF n
  <1>5. \A p \in Slots : q <= p /\ p <= Reach(dir, q) => dir[p].mark = "used" /\ ~Open(dir[p]) /\ ~Foreign(dir[p]) /\ dir[p].n = n
    BY <1>3, <1>4, PartIs
  <1>6. dir[q].n = n  BY DEF n
  <1>7. dir[Reach(dir, q)].n = n  BY <1>2, <1>5, SlotIs
  <1> QED BY <1>1, <1>2, <1>5, <1>6, <1>7

NamesIn(dir) == {n \in Names : \E p \in Slots : Whole(dir, p) /\ dir[p].n = n}

(* Nothing but foreign slots from z on has changed. *)
Differs(dir, new, z) ==
    \A p \in Slots : IF p < z THEN new[p] = dir[p] ELSE Foreign(dir[p]) /\ Foreign(new[p])

(* Where nothing but foreign slots has changed, the entries are the same;  *)
(* and the directory stays good if nothing but foreign slots follows.      *)
LEMMA ForeignChange ==
    ASSUME NEW dir \in Dirs, NEW new \in Dirs, NEW cnt \in Counts, Good(dir, cnt), NEW z \in Nat, Differs(dir, new, z)
    PROVE  /\ Good(new, cnt)
           /\ \A p \in Slots : /\ HeadAt(new, p) <=> HeadAt(dir, p)
                               /\ SfnAt(new, p) <=> SfnAt(dir, p)
                               /\ Whole(new, p) <=> Whole(dir, p)
                               /\ HeadAt(dir, p) \/ SfnAt(dir, p) => p < z /\ new[p] = dir[p]
                               /\ HeadAt(dir, p) => Reach(new, p) = Reach(dir, p)
           /\ \A p : SfnAt(new, p) <=> SfnAt(dir, p)
           /\ NamesIn(new) = NamesIn(dir)
  <1>0. /\ \A p \in Slots : p \in Nat /\ (p < z => new[p] = dir[p])
        /\ \A p \in Slots : z <= p => Foreign(dir[p]) /\ Foreign(new[p])
    BY SlotIs DEF Differs
  <1>1. \A p \in Slots : /\ HeadAt(new, p) <=> HeadAt(dir, p)
                         /\ SfnAt(new, p) <=> SfnAt(dir, p)
                         /\ HeadAt(dir, p) \/ SfnAt(dir, p) => p < z /\ new[p] = dir[p]
    <2> TAKE p \in Slots
    <2>1. p \in Nat  BY SlotIs
    <2>2. CASE p < z  BY <1>0, <2>2 DEF HeadAt, SfnAt
    <2>3. CASE z <= p  BY <1>0, <2>3 DEF HeadAt, SfnAt, Foreign
    <2> QED BY <2>1, <2>2, <2>3
  <1>2. \A p : SfnAt(new, p) <=> SfnAt(dir, p)  BY <1>1 DEF SfnAt
  <1>3. \A p \in Slots : HeadAt(dir, p) => Reach(new, p) = Reach(dir, p)  BY <1>1 DEF Reach
  <1>4. \A p \in Slots : Whole(new, p) <=> Whole(dir, p)  BY <1>1, <1>2, <1>3 DEF Whole
  <1>5. NamesIn(new) = NamesIn(dir)
    <2>1. \A p \in Slots : Whole(dir, p) => new[p] = dir[p]  BY <1>1 DEF Whole
    <2> QED BY <1>4, <2>1 DEF NamesIn
  <1>6. \A p \in Slots : p >= cnt \/ ~Before(new, p) => Foreign(new[p])
    <2> SUFFICES ASSUME NEW p \in Slots, p >= cnt \/ ~Before(new, p) PROVE Foreign(new[p])
      OBVIOUS
    <2>1. p \in Nat /\ \A q \in 0 .. p : q \in Slots  BY SlotIs
    <2>2. CASE z <= p  BY <1>0, <2>2
    <2>3. CASE p < z /\ p >= cnt  BY <1>0, <2>3 DEF Good
    <2>4. CASE p < z /\ ~Before(new, p)
      <3>1. \A q \in 0 .. p : new[q] = dir[q]  BY <1>0, <2>1, <2>4
      <3>2. ~Before(dir, p)  BY <2>4, <3>1 DEF Before
      <3> QED BY <1>0, <2>4, <3>2 DEF Good
    <2> QED BY <2>1, <2>2, <2>3, <2>4
  <1>7. \A q \in Slots : HeadAt(new, q) => Reach(new, q) < cnt  BY <1>1, <1>3 DEF Good
  <1>8. \A q, p \in Slots : HeadAt(new, q) /\ HeadAt(new, p) /\ q < p => Reach(new, q) < p
    BY <1>1, <1>3 DEF Good
  <1>9. \A q, p \in Slots : Whole(new, q) /\ q <= p /\ p <= Reach(new, q) => new[p] = Part(new[q].n, p - q)
    <2> SUFFICES ASSUME NEW q \in Slots, NEW p \in Slots, Whole(new, q), q <= p, p <= Reach(new, q)
                 PROVE  new[p] = Part(new[q].n, p - q)
      OBVIOUS
    <2>1. Whole(dir, q) /\ Reach(new, q) = Reach(dir, q) /\ new[q] = dir[q]
      BY <1>1, <1>3, <1>4 DEF Whole
    <2>2. ~Foreign(dir[p])  BY <2>1, WholeShapes
    <2>3. new[p] = dir[p]  BY <1>0, <2>2
    <2> QED BY <2>1, <2>3 DEF Good
  <1>10. \A q, p \in Slots : Whole(new, q) /\ SfnAt(new, p) /\ new[p].n = new[q].n => p = Reach(new, q)
    <2> SUFFICES ASSUME NEW q \in Slots, NEW p \in Slots, Whole(new, q), SfnAt(new, p), new[p].n = new[q].n
                 PROVE  p = Reach(new, q)
      OBVIOUS
    <2>1. Whole(dir, q) /\ Reach(new, q) = Reach(dir, q) /\ new[q] = dir[q] /\ SfnAt(dir, p) /\ new[p] = dir[p]
      BY <1>1, <1>3, <1>4 DEF Whole
    <2> QED BY <2>1 DEF Good
  <1>11. Good(new, cnt)  BY <1>6, <1>7, <1>8, <1>9, <1>10 DEF Good
  <1> QED BY <1>1, <1>2, <1>3, <1>4, <1>5, <1>11

(* A good directory stays good when its chain grows. *)
LEMMA GoodGrows ==
    ASSUME NEW dir \in Dirs, NEW cnt \in Counts, NEW more \in Counts, cnt <= more, Good(dir, cnt)
    PROVE  Good(dir, more)
  <1>1. \A p \in Slots : p \in Nat  BY SlotIs
  <1>2. \A q \in Slots : HeadAt(dir, q) => Reach(dir, q) < more
    BY SlotShapes DEF Good, Counts
  <1> QED BY <1>1, <1>2 DEF Good, Counts

(* A name has one entry at most, and Stands says which there are. *)
LEMMA NamesAre ==
    ASSUME NEW dir \in Dirs, NEW cnt \in Counts, Good(dir, cnt)
    PROVE  /\ {n \in Names : \E p \in Slots : Stands(dir, cnt, n, p)} = NamesIn(dir)
           /\ \A n \in Names, p, q \in Slots : Stands(dir, cnt, n, p) /\ Stands(dir, cnt, n, q) => p = q
  <1>1. \A n \in Names, p \in Slots : Stands(dir, cnt, n, p) <=> Whole(dir, p) /\ dir[p].n = n
    BY StandsIs
  <1>2. ASSUME NEW p \in Slots, NEW q \in Slots, Whole(dir, p), Whole(dir, q), dir[p].n = dir[q].n
        PROVE  p = q
    <2>1. dir[Reach(dir, p)].n = dir[q].n /\ SfnAt(dir, Reach(dir, p)) /\ Reach(dir, p) \in Slots
          /\ HeadAt(dir, p) /\ HeadAt(dir, q)
      BY <1>2, WholeShapes DEF Whole
    <2>2. Reach(dir, p) = Reach(dir, q)  BY <1>2, <2>1 DEF Good
    <2>3. p + Frags[dir[p].n] = q + Frags[dir[p].n]  BY <1>2, <2>2 DEF Reach
    <2>4. Frags[dir[p].n] \in Nat /\ p \in Nat /\ q \in Nat  BY <2>1, SlotShapes, SlotIs
    <2> QED BY <2>3, <2>4
  <1> QED BY <1>1, <1>2 DEF NamesIn

(* Directories of which one slot has changed. *)
Fills(dir, new, n, a, b) == /\ b \in Nat /\ b <= a + Frags[n]
                            /\ new = [dir EXCEPT ![b] = Part(n, b - a)]
Frees(dir, new, b) == new = [dir EXCEPT ![b].mark = "free"]
Ends(dir, new, b)  == new = [dir EXCEPT ![b] = [dir[b] EXCEPT !.mark = "last"]]

(* While an entry is being written it is not there, and other names are.   *)
LEMMA FillingShapes ==
    ASSUME NEW dir \in Dirs, NEW cnt \in Counts, Good(dir, cnt), NEW n \in Names, NEW a, NEW b,
           Filling(dir, cnt, n, a, b), b <= a + Frags[n], b \in Nat
    PROVE  /\ a \in Slots /\ b \in Slots /\ a \in Nat /\ a <= b /\ a + Frags[n] \in Slots
           /\ Frags[n] \in 1 .. 20 /\ b - a \in 0 .. Frags[n]
           /\ ~Whole(dir, a) /\ ~HeadAt(dir, b) /\ ~SfnAt(dir, b) /\ ~SfnAt(dir, a + Frags[n])
           /\ \A q \in Slots : Whole(dir, q) => /\ q # a /\ q # b /\ dir[q].n # n
                                               /\ ~(q <= b /\ b <= Reach(dir, q))
           /\ b > a => dir[a] = Part(n, 0)
           /\ n \notin NamesIn(dir)
           /\ Open(dir[b])
  <1>1. Frags[n] \in 1 .. 20 /\ cnt \in Nat /\ cnt <= Size /\ Size \in Nat /\ a \in Nat /\ a <= b /\ a + Frags[n] < cnt
    BY PartIs, SlotIs DEF Counts, Filling
  <1>2. a \in Slots /\ b \in Slots /\ a + Frags[n] \in Slots /\ b - a \in 0 .. Frags[n]
    BY <1>1, SlotIs
  <1>3. Open(dir[b]) /\ Open(dir[a + Frags[n]])  BY <1>1, <1>2 DEF Filling
  <1>4. ~HeadAt(dir, b) /\ ~SfnAt(dir, b) /\ ~SfnAt(dir, a + Frags[n])
    BY <1>2, <1>3, SlotShapes
  <1>5. b > a => dir[a] = Part(n, 0)
    <2> SUFFICES ASSUME b > a PROVE dir[a] = Part(n, 0)  OBVIOUS
    <2>1. a <= a /\ a < b /\ a - a = 0  BY <1>1
    <2> QED BY <1>2, <2>1 DEF Filling
  <1>6. ~Whole(dir, a)
    <2> SUFFICES ASSUME Whole(dir, a) PROVE FALSE  OBVIOUS
    <2>1. HeadAt(dir, a) /\ SfnAt(dir, Reach(dir, a))  BY DEF Whole
    <2>2. a # b  BY <1>4, <2>1
    <2>3. dir[a].n = n  BY <1>1, <1>5, <2>2, PartIs
    <2> QED BY <1>4, <2>1, <2>3 DEF Reach
  <1>7. ASSUME NEW q \in Slots, Whole(dir, q) PROVE q # a /\ q # b /\ dir[q].n # n /\ ~(q <= b /\ b <= Reach(dir, q))
    <2>1. HeadAt(dir, q)  BY <1>7 DEF Whole
    <2>2. q # a /\ q # b  BY <1>4, <1>6, <1>7, <2>1
    <2>3. dir[q].n # n  BY <2>1, <2>2 DEF Filling
    <2>4. \A p \in Slots : q <= p /\ p <= Reach(dir, q) => ~Open(dir[p])  BY <1>7, WholeShapes
    <2> QED BY <1>2, <1>3, <2>2, <2>3, <2>4
  <1>8. n \notin NamesIn(dir)  BY <1>7 DEF NamesIn
  <1> QED BY <1>1, <1>2, <1>3, <1>4, <1>5, <1>6, <1>7, <1>8

LEMMA FillStep ==
    ASSUME NEW dir \in Dirs, NEW cnt \in Counts, Good(dir, cnt), NEW n \in Names, NEW a, NEW b,
           Filling(dir, cnt, n, a, b), NEW new, Fills(dir, new, n, a, b)
    PROVE  /\ new \in Dirs
           /\ Good(new, cnt)
           /\ Filling(new, cnt, n, a, b + 1)
           /\ \A q \in Slots : q # a => (Whole(new, q) <=> Whole(dir, q))
           /\ \A q \in Slots : Whole(dir, q) => Reach(new, q) = Reach(dir, q) /\ new[q] = dir[q]
           /\ Whole(new, a) <=> b = a + Frags[n]
           /\ new[a] = Part(n, 0) /\ Reach(new, a) = a + Frags[n]
           /\ NamesIn(new) = IF b = a + Frags[n] THEN NamesIn(dir) \cup {n} ELSE NamesIn(dir)
  <1>1. /\ b \in Nat /\ b <= a + Frags[n]
        /\ a \in Slots /\ b \in Slots /\ a \in Nat /\ a <= b /\ a + Frags[n] \in Slots
        /\ Frags[n] \in 1 .. 20 /\ b - a \in 0 .. Frags[n]
        /\ ~Whole(dir, a) /\ ~HeadAt(dir, b) /\ ~SfnAt(dir, b) /\ ~SfnAt(dir, a + Frags[n])
        /\ \A q \in Slots : Whole(dir, q) => /\ q # a /\ q # b /\ dir[q].n # n
                                            /\ ~(q <= b /\ b <= Reach(dir, q))
        /\ b > a => dir[a] = Part(n, 0)
        /\ n \notin NamesIn(dir)
    BY FillingShapes DEF Fills
  <1>0. new = [dir EXCEPT ![b] = Part(n, b - a)] /\ b \in Nat /\ b <= a + Frags[n]  BY DEF Fills
  <1>01. a \in Nat /\ b \in Nat /\ Frags[n] \in 1 .. 20 /\ a <= b /\ b <= a + Frags[n]  BY <1>1
  <1>2. /\ Part(n, b - a) \in SlotVals
        /\ Part(n, b - a).mark = "used" /\ ~Foreign(Part(n, b - a)) /\ ~Open(Part(n, b - a)) /\ Part(n, b - a).n = n
        /\ Part(n, b - a).kind = (IF b - a < Frags[n] THEN "lfn" ELSE "sfn")
        /\ b - a < Frags[n] => Part(n, b - a).k = Frags[n] - (b - a)
    BY <1>1, PartIs
  <1>3. new \in Dirs /\ new[b] = Part(n, b - a) /\ \A p \in Slots : p # b => new[p] = dir[p]
    BY <1>0, <1>1, <1>2 DEF Dirs
  <1>4. \A q \in Slots : q \in Nat  BY SlotIs
  <1>5. HeadAt(new, b) <=> b = a
    <2>1. HeadAt(new, b) <=> b - a < Frags[n] /\ Frags[n] - (b - a) = Frags[n]
      BY <1>2, <1>3 DEF HeadAt, IsHead
    <2> QED BY <1>1, <2>1
  <1>6. SfnAt(new, b) <=> b = a + Frags[n]
    BY <1>1, <1>2, <1>3 DEF SfnAt
  <1>7. \A q \in Slots : q # b => /\ (HeadAt(new, q) <=> HeadAt(dir, q)) /\ Reach(new, q) = Reach(dir, q)
                                 /\ (SfnAt(new, q) <=> SfnAt(dir, q))
    BY <1>3 DEF HeadAt, Reach, SfnAt
  <1>8. new[a] = Part(n, 0) /\ Reach(new, a) = a + Frags[n]
    <2>1. b = a => b - a = 0  BY <1>1
    <2>2. new[a] = Part(n, 0)  BY <1>1, <1>3, <2>1
    <2>3. new[a].n = n  BY <1>1, <2>2, PartIs
    <2> QED BY <2>2, <2>3 DEF Reach
  <1>9. HeadAt(new, a)
    <2>1. Part(n, 0).mark = "used" /\ Part(n, 0).n = n /\ Part(n, 0).kind = "lfn" /\ Part(n, 0).k = Frags[n]
      BY <1>1, PartIs
    <2> QED BY <1>8, <2>1 DEF HeadAt, IsHead
  <1>10. Whole(new, a) <=> b = a + Frags[n]
    <2>1. Whole(new, a) <=> SfnAt(new, a + Frags[n])  BY <1>8, <1>9 DEF Whole
    <2>2. a + Frags[n] # b => ~SfnAt(new, a + Frags[n])  BY <1>1, <1>7
    <2> QED BY <1>6, <2>1, <2>2
  <1>11. ASSUME NEW q \in Slots, q # a PROVE HeadAt(new, q) <=> HeadAt(dir, q)
    BY <1>1, <1>5, <1>7, <1>11
  <1>12. ASSUME NEW q \in Slots, q # a, HeadAt(dir, q)
         PROVE  Whole(dir, q) /\ dir[q].n # n /\ q # b /\ Reach(new, q) = Reach(dir, q) /\ new[q] = dir[q]
                /\ Reach(dir, q) \in Slots /\ Reach(dir, q) # b /\ q < Reach(dir, q)
    <2>1. Whole(dir, q) /\ dir[q].n # n  BY <1>12 DEF Filling
    <2>2. q # b /\ ~(q <= b /\ b <= Reach(dir, q))  BY <1>1, <2>1
    <2>3. Reach(dir, q) \in Slots /\ q < Reach(dir, q)  BY <2>1, WholeShapes
    <2>4. Reach(dir, q) # b  BY <2>2, <2>3, <1>4
    <2> QED BY <1>3, <1>7, <2>1, <2>2, <2>3, <2>4
  <1>13. ASSUME NEW q \in Slots, q # a PROVE Whole(new, q) <=> Whole(dir, q)
    <2>1. HeadAt(dir, q) => (SfnAt(new, Reach(new, q)) <=> SfnAt(dir, Reach(dir, q)))
      BY <1>7, <1>12, <1>13
    <2> QED BY <1>11, <1>13, <2>1 DEF Whole
  <1>14. \A q \in Slots : Whole(dir, q) => Reach(new, q) = Reach(dir, q) /\ new[q] = dir[q]
    BY <1>1, <1>3, <1>7
  <1>15. NamesIn(new) = IF b = a + Frags[n] THEN NamesIn(dir) \cup {n} ELSE NamesIn(dir)
    <2>1. new[a].n = n  BY <1>1, <1>8, PartIs
    <2>2. ASSUME NEW m \in Names PROVE m \in NamesIn(new) <=> m \in NamesIn(dir) \/ (b = a + Frags[n] /\ m = n)
      <3>1. ASSUME NEW q \in Slots, q # a PROVE Whole(new, q) /\ new[q].n = m <=> Whole(dir, q) /\ dir[q].n = m
        BY <1>13, <1>14, <3>1
      <3>2. Whole(new, a) /\ new[a].n = m <=> b = a + Frags[n] /\ m = n  BY <1>10, <2>1
      <3> QED BY <1>1, <3>1, <3>2 DEF NamesIn
    <2>3. NamesIn(new) \subseteq Names /\ NamesIn(dir) \subseteq Names  BY DEF NamesIn
    <2> QED BY <2>2, <2>3
  <1>16. Good(new, cnt)
    <2>1. \A p \in Slots : p >= cnt \/ ~Before(new, p) => Foreign(new[p])
      <3> SUFFICES ASSUME NEW p \in Slots, p >= cnt \/ ~Before(new, p) PROVE Foreign(new[p])
        OBVIOUS
      <3>1. p # b
        <4> SUFFICES ASSUME p = b PROVE FALSE  OBVIOUS
        <4>1. b < cnt  BY <1>1 DEF Filling, Counts
        <4>2. ASSUME NEW q \in 0 .. b PROVE new[q].mark # "last"
          <5>1. q \in Slots  BY <1>1, SlotIs
          <5>2. CASE q = b  BY <1>2, <1>3, <5>2
          <5>3. CASE q < a  BY <1>1, <1>3, <5>1, <5>3 DEF Filling
          <5>4. CASE a <= q /\ q < b
            <6>1. new[q] = Part(n, q - a) /\ q - a \in 0 .. Frags[n]
              BY <1>1, <1>3, <1>4, <5>1, <5>4 DEF Filling
            <6> QED BY <6>1, PartIs
          <5> QED BY <1>1, <5>2, <5>3, <5>4
        <4>3. Before(new, b)  BY <4>2 DEF Before
        <4> QED BY <1>1, <1>4, <4>1, <4>3 DEF Counts
      <3>2. ~Before(new, p) => ~Before(dir, p)
        <4>1. \A q \in 0 .. p : q \in Slots  BY <1>4, SlotIs
        <4>2. \A q \in 0 .. p : new[q].mark = "last" => dir[q].mark = "last"
          BY <1>2, <1>3, <4>1
        <4> QED BY <4>2 DEF Before
      <3> QED BY <1>3, <3>1, <3>2 DEF Good
    <2>2. \A q \in Slots : HeadAt(new, q) => Reach(new, q) < cnt
      BY <1>8, <1>11, <1>12 DEF Good, Filling
    <2>3. \A q, p \in Slots : HeadAt(new, q) /\ HeadAt(new, p) /\ q < p => Reach(new, q) < p
      <3> SUFFICES ASSUME NEW q \in Slots, NEW p \in Slots, HeadAt(new, q), HeadAt(new, p), q < p
                   PROVE  Reach(new, q) < p
        OBVIOUS
      <3>1. CASE q # a /\ p # a  BY <1>11, <1>12, <3>1 DEF Good
      <3>2. CASE q = a
        <4>00. p # a  BY <1>4, <3>2
        <4>0. HeadAt(dir, p)  BY <1>11, <4>00
        <4>1. ~Open(dir[p])  BY <4>0, SlotShapes
        <4>2. ~(b <= p /\ p <= a + Frags[n])  BY <4>1 DEF Filling
        <4>3. ~(a <= p /\ p < b)
          <5> SUFFICES ASSUME a <= p /\ p < b PROVE FALSE  OBVIOUS
          <5>1. dir[p] = Part(n, p - a) /\ p - a \in 1 .. Frags[n]
            BY <1>1, <1>4, <3>2 DEF Filling
          <5>2. dir[p].n = n /\ (p - a < Frags[n] => dir[p].k = Frags[n] - (p - a))
                /\ dir[p].kind = (IF p - a < Frags[n] THEN "lfn" ELSE "sfn")
            BY <5>1, PartIs
          <5>3. dir[p].kind = "lfn" /\ dir[p].k = Frags[n]  BY <4>0, <5>2 DEF HeadAt, IsHead
          <5>4. p - a < Frags[n] /\ Frags[n] - (p - a) = Frags[n]  BY <5>2, <5>3
          <5> QED BY <1>1, <5>1, <5>4
        <4> QED BY <1>01, <1>4, <1>8, <3>2, <4>00, <4>2, <4>3
      <3>3. CASE q # a /\ p = a
        <4>1. HeadAt(dir, q)  BY <1>11, <3>3
        <4>2. Whole(dir, q) /\ Reach(new, q) = Reach(dir, q) /\ Reach(dir, q) \in Slots  BY <1>12, <3>3, <4>1
        <4>3. CASE b = a
          <5>1. ~(q <= b /\ b <= Reach(dir, q))  BY <1>1, <4>2
          <5>2. q \in Nat /\ Reach(dir, q) \in Nat  BY <1>4, <4>2
          <5> QED BY <1>01, <3>3, <4>2, <4>3, <5>1, <5>2
        <4>4. CASE b # a
          <5>1. HeadAt(dir, a)  BY <1>7, <1>9, <1>1, <4>4
          <5> QED BY <3>3, <4>1, <4>2, <5>1, <1>1 DEF Good
        <4> QED BY <4>3, <4>4
      <3> QED BY <3>1, <3>2, <3>3
    <2>4. \A q, p \in Slots : Whole(new, q) /\ q <= p /\ p <= Reach(new, q) => new[p] = Part(new[q].n, p - q)
      <3> SUFFICES ASSUME NEW q \in Slots, NEW p \in Slots, Whole(new, q), q <= p, p <= Reach(new, q)
                   PROVE  new[p] = Part(new[q].n, p - q)
        OBVIOUS
      <3>1. CASE q # a
        <4>1. Whole(dir, q) /\ Reach(new, q) = Reach(dir, q) /\ new[q] = dir[q]
          BY <1>13, <1>14, <3>1
        <4>2. p # b  BY <1>1, <4>1
        <4> QED BY <1>3, <4>1, <4>2 DEF Good
      <3>2. CASE q = a
        <4>1. b = a + Frags[n] /\ new[a].n = n  BY <1>1, <1>8, <1>10, <3>2, PartIs
        <4>2. CASE p = b  BY <1>3, <3>2, <4>1, <4>2
        <4>3. CASE p # b
          <5>1. a <= p /\ p < b  BY <1>1, <1>4, <1>8, <3>2, <4>1, <4>3
          <5>2. dir[p] = Part(n, p - a)  BY <5>1 DEF Filling
          <5> QED BY <1>3, <3>2, <4>1, <4>3, <5>2
        <4> QED BY <4>2, <4>3
      <3> QED BY <3>1, <3>2
    <2>5. \A q, p \in Slots : Whole(new, q) /\ SfnAt(new, p) /\ new[p].n = new[q].n => p = Reach(new, q)
      <3> SUFFICES ASSUME NEW q \in Slots, NEW p \in Slots, Whole(new, q), SfnAt(new, p), new[p].n = new[q].n
                   PROVE  p = Reach(new, q)
        OBVIOUS
      <3>1. CASE q # a
        <4>1. Whole(dir, q) /\ Reach(new, q) = Reach(dir, q) /\ new[q] = dir[q] /\ dir[q].n # n
          BY <1>1, <1>13, <1>14, <3>1
        <4>2. p # b  BY <1>2, <1>3, <4>1
        <4>3. SfnAt(dir, p) /\ dir[p].n = dir[q].n  BY <1>3, <1>7, <4>1, <4>2
        <4> QED BY <4>1, <4>3 DEF Good
      <3>2. CASE q = a
        <4>1. new[p].n = n /\ b = a + Frags[n] /\ Reach(new, a) = b  BY <1>1, <1>8, <1>10, <3>2, PartIs
        <4>2. p # b => SfnAt(dir, p) /\ dir[p].n = n  BY <1>3, <1>7, <4>1
        <4> QED BY <3>2, <4>1, <4>2 DEF Filling
      <3> QED BY <3>1, <3>2
    <2> QED BY <2>1, <2>2, <2>3, <2>4, <2>5 DEF Good
  <1>17. Filling(new, cnt, n, a, b + 1)
    <2>1. a \in Nat /\ a <= b + 1 /\ b + 1 <= a + Frags[n] + 1 /\ a + Frags[n] < cnt
      BY <1>0, <1>1 DEF Filling
    <2>0. \A p \in Slots : p \in Nat /\ (p < b + 1 <=> p < b \/ p = b) /\ (p < a => p # b)
      BY <1>01, <1>4
    <2>2. \A p \in Slots : a <= p /\ p < b + 1 => new[p] = Part(n, p - a)
      BY <1>3, <2>0 DEF Filling
    <2>3. \A p \in Slots : b + 1 <= p /\ p <= a + Frags[n] => Open(new[p])
      BY <1>01, <1>3, <1>4 DEF Filling
    <2>4. \A p \in Slots : p < a => new[p].mark # "last"
      BY <1>3, <2>0 DEF Filling
    <2>5. \A q \in Slots : q # a /\ HeadAt(new, q) => Whole(new, q) /\ new[q].n # n
      BY <1>11, <1>12, <1>13
    <2>6. \A p \in Slots : p # a + Frags[n] /\ SfnAt(new, p) => new[p].n # n
      <3> SUFFICES ASSUME NEW p \in Slots, p # a + Frags[n], SfnAt(new, p) PROVE new[p].n # n
        OBVIOUS
      <3>1. p # b  BY <1>6
      <3> QED BY <1>3, <1>7, <3>1 DEF Filling
    <2>7. \/ \A p \in Slots : b + 1 <= p /\ p <= a + Frags[n] => new[p].mark # "last"
          \/ a + Frags[n] + 1 < cnt /\ new[a + Frags[n] + 1].mark = "last"
      <3>1. CASE \A p \in Slots : b <= p /\ p <= a + Frags[n] => dir[p].mark # "last"
        BY <1>1, <1>3, <1>4, <3>1
      <3>2. CASE a + Frags[n] + 1 < cnt /\ dir[a + Frags[n] + 1].mark = "last"
        <4>1. a + Frags[n] + 1 \in Slots /\ a + Frags[n] + 1 # b
          BY <1>1, <3>2, SlotIs DEF Counts
        <4> QED BY <1>3, <3>2, <4>1
      <3> QED BY <3>1, <3>2 DEF Filling
    <2> QED BY <2>1, <2>2, <2>3, <2>4, <2>5, <2>6, <2>7 DEF Filling
  <1> QED BY <1>3, <1>8, <1>10, <1>13, <1>14, <1>15, <1>16, <1>17

(* What freeing a slot does, as the step that does it needs it. *)
Unmarked(dir, cnt, n, last, b, new) ==
    /\ new = [dir EXCEPT ![b] = [dir[b] EXCEPT !.mark = "free"]]
    /\ [dir[b] EXCEPT !.mark = "free"] \in SlotVals
    /\ new \in Dirs /\ Good(new, cnt)
    /\ b < last => Unmarking(new, cnt, n, last, b + 1) /\ ~HeadAt(new, b + 1)
    /\ NamesIn(new) = IF HeadAt(dir, b) THEN NamesIn(dir) \ {n} ELSE NamesIn(dir)
    /\ \A p \in Slots : new[p].mark = "last" <=> dir[p].mark = "last"

(* Freeing the slots of an entry from its head on takes it away, and harms *)
(* no other.                                                               *)
LEMMA UnmarkStep ==
    ASSUME NEW dir \in Dirs, NEW cnt \in Counts, Good(dir, cnt), NEW n \in Names, NEW last \in Nat, NEW b \in Nat,
           Unmarking(dir, cnt, n, last, b),
           NEW new, Frees(dir, new, b)
    PROVE  /\ b \in Slots
           /\ new \in Dirs
           /\ Unmarked(dir, cnt, n, last, b, new)
           /\ \A q \in Slots : Whole(new, q) <=> Whole(dir, q) /\ q # b
           /\ \A q \in Slots : Whole(new, q) => Reach(new, q) = Reach(dir, q) /\ new[q] = dir[q]
           /\ HeadAt(dir, b) => n \in NamesIn(dir)
  <1>1. cnt \in Nat /\ cnt <= Size /\ Size \in Nat /\ b \in Slots /\ last \in Slots /\ b <= last /\ last < cnt
    BY SlotIs DEF Counts, Unmarking
  <1> DEFINE v == [dir[b] EXCEPT !.mark = "free"]
  <1>2. dir[b] \in SlotVals /\ dir[b].mark = "used"
    <2>1. dir[b].mark = "used"  BY <1>1 DEF Unmarking
    <2> QED BY <1>1, <2>1, SlotShapes
  <1>3. v \in SlotVals /\ v.mark = "free" /\ v.kind = dir[b].kind /\ v.n = dir[b].n /\ v.k = dir[b].k
    BY <1>2 DEF SlotVals, Marks
  <1>4. new = [dir EXCEPT ![b] = v]  BY DEF Frees
  <1> HIDE DEF v
  <1>5. new \in Dirs /\ new[b] = v /\ \A p \in Slots : p # b => new[p] = dir[p]
    BY <1>1, <1>3, <1>4 DEF Dirs
  <1>6. \A q \in Slots : q \in Nat  BY SlotIs
  <1>7. \A p \in Slots : new[p].mark = "last" <=> dir[p].mark = "last"
    BY <1>2, <1>3, <1>5
  <1>8. /\ ~HeadAt(new, b) /\ ~SfnAt(new, b)
        /\ \A q \in Slots : q # b => /\ (HeadAt(new, q) <=> HeadAt(dir, q))
                                     /\ (SfnAt(new, q) <=> SfnAt(dir, q))
                                     /\ Reach(new, q) = Reach(dir, q)
    BY <1>3, <1>5 DEF HeadAt, SfnAt, Reach
  <1>9. \A q \in Slots : HeadAt(dir, q) /\ q # b => Reach(dir, q) < b \/ last < q
    BY DEF Unmarking
  <1>10. ASSUME NEW q \in Slots PROVE Whole(new, q) <=> Whole(dir, q) /\ q # b
    <2>1. CASE q = b  BY <1>8, <2>1 DEF Whole
    <2>2. CASE q # b
      <3>1. HeadAt(dir, q) => Reach(dir, q) # b
        <4>1. HeadAt(dir, q) => q < Reach(dir, q) /\ Reach(dir, q) \in Nat  BY SlotShapes
        <4> QED BY <1>1, <1>6, <1>9, <2>2, <4>1
      <3>2. HeadAt(dir, q) => (SfnAt(new, Reach(dir, q)) <=> SfnAt(dir, Reach(dir, q)))
        BY <1>8, <3>1 DEF SfnAt
      <3> QED BY <1>8, <2>2, <3>2 DEF Whole
    <2> QED BY <2>1, <2>2
  <1>11. \A q \in Slots : Whole(new, q) => Reach(new, q) = Reach(dir, q) /\ new[q] = dir[q]
    BY <1>5, <1>8, <1>10
  <1>12. HeadAt(dir, b) => Whole(dir, b) /\ dir[b].n = n /\ Reach(dir, b) = last
    BY DEF Unmarking
  <1>13. ASSUME NEW q \in Slots, Whole(dir, q), q # b, HeadAt(dir, b) PROVE dir[q].n # n
    BY <1>1, <1>12, <1>13, StandsIs, NamesAre
  <1>14. NamesIn(new) = IF HeadAt(dir, b) THEN NamesIn(dir) \ {n} ELSE NamesIn(dir)
    <2>1. ASSUME NEW m \in Names PROVE m \in NamesIn(new) <=> m \in NamesIn(dir) /\ ~(HeadAt(dir, b) /\ m = n)
      <3>1. m \in NamesIn(new) <=> \E q \in Slots : Whole(dir, q) /\ q # b /\ dir[q].n = m
        BY <1>10, <1>11 DEF NamesIn
      <3>2. CASE HeadAt(dir, b)
        <4>1. Whole(dir, b) /\ dir[b].n = n  BY <1>12, <3>2
        <4> QED BY <1>1, <1>13, <3>1, <3>2, <4>1 DEF NamesIn
      <3>3. CASE ~HeadAt(dir, b)
        <4>1. ~Whole(dir, b)  BY <3>3 DEF Whole
        <4> QED BY <3>1, <3>3, <4>1 DEF NamesIn
      <3> QED BY <3>2, <3>3
    <2>2. NamesIn(new) \subseteq Names /\ NamesIn(dir) \subseteq Names  BY DEF NamesIn
    <2> QED BY <2>1, <2>2
  <1>15. HeadAt(dir, b) => n \in NamesIn(dir)  BY <1>1, <1>12 DEF NamesIn
  <1>16. Good(new, cnt)
    <2>1. \A p \in Slots : p >= cnt \/ ~Before(new, p) => Foreign(new[p])
      <3> SUFFICES ASSUME NEW p \in Slots, p >= cnt \/ ~Before(new, p) PROVE Foreign(new[p])
        OBVIOUS
      <3>1. \A q \in 0 .. p : q \in Slots  BY <1>6, SlotIs
      <3>2. ~Before(new, p) => ~Before(dir, p)  BY <1>7, <3>1 DEF Before
      <3>3. Foreign(dir[p])  BY <3>2 DEF Good
      <3> QED BY <1>3, <1>5, <3>3 DEF Foreign
    <2>2. \A q \in Slots : HeadAt(new, q) => Reach(new, q) < cnt  BY <1>8 DEF Good
    <2>3. \A q, p \in Slots : HeadAt(new, q) /\ HeadAt(new, p) /\ q < p => Reach(new, q) < p
      BY <1>8 DEF Good
    <2>4. \A q, p \in Slots : Whole(new, q) /\ q <= p /\ p <= Reach(new, q) => new[p] = Part(new[q].n, p - q)
      <3> SUFFICES ASSUME NEW q \in Slots, NEW p \in Slots, Whole(new, q), q <= p, p <= Reach(new, q)
                   PROVE  new[p] = Part(new[q].n, p - q)
        OBVIOUS
      <3>1. Whole(dir, q) /\ q # b /\ Reach(new, q) = Reach(dir, q) /\ new[q] = dir[q]  BY <1>10, <1>11
      <3>2. HeadAt(dir, q) /\ Reach(dir, q) \in Slots  BY <3>1, WholeShapes
      <3>3. p # b
        <4>1. Reach(dir, q) < b \/ last < q  BY <1>9, <3>1, <3>2
        <4>2. q \in Nat /\ p \in Nat /\ Reach(dir, q) \in Nat /\ last \in Nat /\ b <= last  BY <1>1, <1>6, <3>2
        <4> QED BY <3>1, <4>1, <4>2
      <3> QED BY <1>5, <3>1, <3>3 DEF Good
    <2>5. \A q, p \in Slots : Whole(new, q) /\ SfnAt(new, p) /\ new[p].n = new[q].n => p = Reach(new, q)
      <3> SUFFICES ASSUME NEW q \in Slots, NEW p \in Slots, Whole(new, q), SfnAt(new, p), new[p].n = new[q].n
                   PROVE  p = Reach(new, q)
        OBVIOUS
      <3>1. Whole(dir, q) /\ Reach(new, q) = Reach(dir, q) /\ new[q] = dir[q]  BY <1>10, <1>11
      <3>2. p # b  BY <1>8
      <3>3. SfnAt(dir, p) /\ dir[p].n = dir[q].n  BY <1>5, <1>8, <3>1, <3>2
      <3> QED BY <3>1, <3>3 DEF Good
    <2> QED BY <2>1, <2>2, <2>3, <2>4, <2>5 DEF Good
  <1>17. b < last => Unmarking(new, cnt, n, last, b + 1) /\ ~HeadAt(new, b + 1)
    <2> SUFFICES ASSUME b < last PROVE Unmarking(new, cnt, n, last, b + 1) /\ ~HeadAt(new, b + 1)
      OBVIOUS
    <2>1. b + 1 \in Slots /\ b + 1 # b /\ b + 1 <= last  BY <1>1, <1>6, SlotIs
    <2>2. ASSUME NEW q \in Slots, HeadAt(new, q) PROVE Reach(new, q) < b + 1 \/ last < q
      <3>1. q # b /\ HeadAt(dir, q) /\ Reach(new, q) = Reach(dir, q)  BY <1>8, <2>2
      <3>2. Reach(dir, q) \in Nat  BY <3>1, SlotShapes
      <3>3. Reach(dir, q) < b \/ last < q  BY <1>9, <3>1
      <3> QED BY <1>6, <1>1, <3>1, <3>2, <3>3
    <2>3. ~HeadAt(new, b + 1)
      <3> SUFFICES ASSUME HeadAt(new, b + 1) PROVE FALSE  OBVIOUS
      <3>0. Reach(new, b + 1) < b + 1 \/ last < b + 1  BY <2>1, <2>2
      <3>1. Reach(new, b + 1) < b + 1  BY <1>1, <2>1, <3>0
      <3>2. b + 1 < Reach(new, b + 1) /\ Reach(new, b + 1) \in Nat  BY <1>5, <2>1, SlotShapes
      <3> QED BY <1>1, <1>6, <3>1, <3>2
    <2>4. \A p \in Slots : b + 1 <= p /\ p <= last => new[p].mark = "used"
      BY <1>1, <1>5, <1>6 DEF Unmarking
    <2> QED BY <1>1, <2>1, <2>2, <2>3, <2>4 DEF Unmarking
  <1>18. Unmarked(dir, cnt, n, last, b, new)
    <2>1. new = [dir EXCEPT ![b] = [dir[b] EXCEPT !.mark = "free"]]
          /\ [dir[b] EXCEPT !.mark = "free"] \in SlotVals
      BY <1>3, <1>4 DEF v
    <2> QED BY <1>5, <1>7, <1>14, <1>16, <1>17, <2>1, Zenon DEF Unmarked
  <1> QED BY <1>1, <1>5, <1>10, <1>11, <1>15, <1>18

(* Searching. *)
LEMMA PassedNone == ASSUME NEW dir, NEW n PROVE Passed(dir, n, 0)
  BY SlotIs DEF Passed

LEMMA SearchSkips ==
    ASSUME NEW dir \in Dirs, NEW n \in Names, NEW b \in Slots, Passed(dir, n, b),
           dir[b].mark # "last", ~HeadAt(dir, b), SfnAt(dir, b) => dir[b].n # n
    PROVE  Passed(dir, n, b + 1)
  <1>1. \A p \in Slots : p \in Nat /\ (p < b + 1 <=> p < b \/ p = b)  BY SlotIs
  <1>2. \A q \in Slots : HeadAt(dir, q) => Reach(dir, q) \in Nat  BY SlotShapes
  <1>3. \A q \in Slots : q < b + 1 /\ HeadAt(dir, q) => Whole(dir, q) /\ Reach(dir, q) < b + 1 /\ dir[q].n # n
    BY <1>1, <1>2 DEF Passed
  <1> QED BY <1>1, <1>3 DEF Passed

LEMMA SearchMisses ==
    ASSUME NEW dir \in Dirs, NEW cnt \in Counts, Good(dir, cnt), NEW n \in Names, NEW b \in Nat, Passed(dir, n, b),
           b >= cnt \/ (b \in Slots /\ dir[b].mark = "last")
    PROVE  Missing(dir, n)
  <1>1. \A p \in Slots : p >= b => Foreign(dir[p])
    <2> SUFFICES ASSUME NEW p \in Slots, p >= b PROVE Foreign(dir[p])
      OBVIOUS
    <2>1. p \in Nat /\ cnt \in Nat  BY SlotIs DEF Counts
    <2>2. CASE b >= cnt  BY <2>1, <2>2 DEF Good
    <2>3. CASE dir[b].mark = "last"
      <3>1. b \in 0 .. p  BY <2>1
      <3>2. ~Before(dir, p)  BY <2>3, <3>1 DEF Before
      <3> QED BY <3>2 DEF Good
    <2> QED BY <2>2, <2>3
  <1>2. \A p \in Slots : HeadAt(dir, p) \/ SfnAt(dir, p) => p < b
    <2> TAKE p \in Slots
    <2>1. p \in Nat  BY SlotIs
    <2>2. p >= b => ~HeadAt(dir, p) /\ ~SfnAt(dir, p)  BY <1>1 DEF Foreign, HeadAt, SfnAt
    <2> QED BY <2>1, <2>2
  <1> QED BY <1>2 DEF Missing, Passed

LEMMA ParseBegins ==
    ASSUME NEW dir \in Dirs, NEW n \in Names, NEW b \in Slots, Passed(dir, n, b), HeadAt(dir, b),
           NEW match, match = (Frags[dir[b].n] = Frags[n])
    PROVE  Parsing(dir, n, b, Frags[dir[b].n], match, b)
  <1>1. b \in Nat /\ Frags[dir[b].n] \in 1 .. 20 /\ Frags[n] \in 1 .. 20  BY SlotIs, SlotShapes, Constants
  <1>2. b = Reach(dir, b) - Frags[dir[b].n]  BY <1>1 DEF Reach
  <1>3. match => Frags[dir[b].n] = Frags[n]  OBVIOUS
  <1>4. dir[b].n = n => match  OBVIOUS
  <1>5. ~(Frags[n] < Frags[n])  BY <1>1
  <1>6. Frags[dir[b].n] \in 0 .. Frags[dir[b].n]  BY <1>1
  <1> QED BY <1>2, <1>3, <1>4, <1>5, <1>6 DEF Parsing

LEMMA ParseIs ==
    ASSUME NEW dir \in Dirs, NEW cnt \in Counts, Good(dir, cnt), NEW n, NEW loc, NEW left, NEW match, NEW b,
           Parsing(dir, n, loc, left, match, b)
    PROVE  /\ loc \in Slots /\ loc \in Nat /\ HeadAt(dir, loc) /\ dir[loc].n \in Names
           /\ Frags[dir[loc].n] \in 1 .. 20 /\ left \in 0 .. Frags[dir[loc].n]
           /\ b \in Slots /\ b \in Nat /\ b < cnt /\ loc <= b
           /\ b = loc + (Frags[dir[loc].n] - left) /\ Reach(dir, loc) = b + left
           /\ Whole(dir, loc) => dir[b] = Part(dir[loc].n, Frags[dir[loc].n] - left)
  <1>1. loc \in Slots /\ HeadAt(dir, loc) /\ left \in 0 .. Frags[dir[loc].n] /\ b = Reach(dir, loc) - left
    BY DEF Parsing
  <1>2. loc \in Nat /\ Frags[dir[loc].n] \in 1 .. 20 /\ dir[loc].n \in Names /\ cnt \in Nat /\ cnt <= Size /\ Size \in Nat
        /\ Reach(dir, loc) < cnt
    BY <1>1, SlotIs, SlotShapes DEF Counts, Good
  <1>3. b \in Nat /\ b < cnt /\ loc <= b /\ b = loc + (Frags[dir[loc].n] - left) /\ Reach(dir, loc) = b + left
    BY <1>1, <1>2 DEF Reach
  <1>4. b \in Slots  BY <1>2, <1>3, SlotIs
  <1>5. Whole(dir, loc) => dir[b] = Part(dir[loc].n, Frags[dir[loc].n] - left)
    <2> SUFFICES ASSUME Whole(dir, loc) PROVE dir[b] = Part(dir[loc].n, Frags[dir[loc].n] - left)
      OBVIOUS
    <2>1. b <= Reach(dir, loc) /\ b - loc = Frags[dir[loc].n] - left  BY <1>1, <1>2, <1>3
    <2>2. dir[b] = Part(dir[loc].n, b - loc)  BY <1>1, <1>3, <1>4, <2>1 DEF Good
    <2> QED BY <2>1, <2>2
  <1> QED BY <1>1, <1>2, <1>3, <1>4, <1>5

LEMMA ParseGoes ==
    ASSUME NEW dir \in Dirs, NEW cnt \in Counts, Good(dir, cnt), NEW n \in Names, NEW loc, NEW left, NEW match, NEW b,
           Parsing(dir, n, loc, left, match, b), left > 0,
           NEW new, new = (match /\ dir[b].n = n /\ dir[b].k = left)
    PROVE  Parsing(dir, n, loc, left - 1, new, b + 1)
  <1>1. /\ loc \in Slots /\ loc \in Nat /\ HeadAt(dir, loc) /\ dir[loc].n \in Names
        /\ Frags[dir[loc].n] \in 1 .. 20 /\ left \in 0 .. Frags[dir[loc].n]
        /\ b \in Slots /\ b \in Nat
        /\ b = loc + (Frags[dir[loc].n] - left) /\ Reach(dir, loc) = b + left
        /\ Whole(dir, loc) => dir[b] = Part(dir[loc].n, Frags[dir[loc].n] - left)
    BY ParseIs
  <1>2. left - 1 \in 0 .. Frags[dir[loc].n] /\ b + 1 = Reach(dir, loc) - (left - 1)  BY <1>1
  <1>3. new => Frags[dir[loc].n] = Frags[n] /\ dir[loc].n = n
    <2> SUFFICES ASSUME new PROVE Frags[dir[loc].n] = Frags[n] /\ dir[loc].n = n
      OBVIOUS
    <2>1. match /\ dir[b].n = n  OBVIOUS
    <2>2. Frags[dir[loc].n] = Frags[n] /\ (left < Frags[n] => dir[loc].n = n)  BY <2>1 DEF Parsing
    <2>3. CASE left = Frags[n]
      <3>1. b = loc  BY <1>1, <2>2, <2>3
      <3> QED BY <2>1, <2>2, <3>1
    <2>4. left <= Frags[n]  BY <1>1, <2>2
    <2>5. Frags[n] \in Nat /\ left \in Nat  BY <1>1, <2>2
    <2> QED BY <2>2, <2>3, <2>4, <2>5
  <1>4. dir[loc].n = n /\ Whole(dir, loc) => new
    <2> SUFFICES ASSUME dir[loc].n = n, Whole(dir, loc) PROVE new
      OBVIOUS
    <2>1. match  BY DEF Parsing
    <2>2. dir[b] = Part(n, Frags[n] - left) /\ Frags[n] - left \in 0 .. Frags[n] /\ Frags[n] - left < Frags[n]
      BY <1>1
    <2>3. dir[b].n = n /\ dir[b].k = Frags[n] - (Frags[n] - left)  BY <2>2, PartIs
    <2>4. dir[b].k = left  BY <1>1, <2>3
    <2> QED BY <2>1, <2>3, <2>4
  <1>5. Passed(dir, n, loc)  BY DEF Parsing
  <1> QED BY <1>1, <1>2, <1>3, <1>4, <1>5 DEF Parsing

LEMMA ParseEnds ==
    ASSUME NEW dir \in Dirs, NEW cnt \in Counts, Good(dir, cnt), NEW n \in Names, NEW loc, NEW match, NEW b,
           Parsing(dir, n, loc, 0, match, b), SfnAt(dir, b)
    PROVE  /\ Whole(dir, loc) /\ Reach(dir, loc) = b
           /\ match => dir[loc].n = n
           /\ ~match => Passed(dir, n, b + 1)
  <1>1. /\ loc \in Slots /\ loc \in Nat /\ HeadAt(dir, loc) /\ dir[loc].n \in Names
        /\ b \in Slots /\ b \in Nat /\ loc <= b /\ Reach(dir, loc) = b + 0
    BY ParseIs
  <1>2. Reach(dir, loc) = b /\ Whole(dir, loc)  BY <1>1 DEF Whole
  <1>3. match => dir[loc].n = n
    <2>1. 0 < Frags[n]  BY PartIs
    <2> QED BY <2>1 DEF Parsing
  <1>4. ASSUME ~match PROVE Passed(dir, n, b + 1)
    <2>1. dir[loc].n # n /\ Passed(dir, n, loc)  BY <1>2, <1>4 DEF Parsing
    <2>2. \A p \in Slots : p \in Nat  BY SlotIs
    <2>3. \A p \in Slots : p < b + 1 /\ ~(p < loc) => loc <= p /\ p <= Reach(dir, loc)  BY <1>1, <1>2, <2>2
    <2>4. ASSUME NEW p \in Slots, loc <= p, p <= Reach(dir, loc)
          PROVE  dir[p].mark # "last" /\ dir[p].n # n /\ (HeadAt(dir, p) => p = loc)
      <3>1. dir[p].mark = "used"  BY <1>2, <1>1, <2>4, WholeShapes
      <3>2. dir[p] = Part(dir[loc].n, p - loc) /\ p - loc \in 0 .. Frags[dir[loc].n]
        <4>1. dir[p] = Part(dir[loc].n, p - loc)  BY <1>1, <1>2, <2>4 DEF Good
        <4>2. Frags[dir[loc].n] \in Nat  BY <1>1, PartIs
        <4>3. p - loc \in 0 .. Frags[dir[loc].n]
          <5>1. p \in Nat /\ loc \in Nat  BY <1>1, <2>2
          <5>2. p <= loc + Frags[dir[loc].n]  BY <2>4 DEF Reach
          <5>3. \A x, y, f \in Nat : y <= x /\ x <= y + f => x - y \in 0 .. f  OBVIOUS
          <5> QED BY <2>4, <4>2, <5>1, <5>2, <5>3
        <4> QED BY <4>1, <4>3
      <3>3. dir[p].n = dir[loc].n  BY <1>1, <3>2, PartIs
      <3>4. HeadAt(dir, p) => ~(loc < p)  BY <1>1, <1>2, <2>2, <2>4 DEF Good
      <3> QED BY <1>1, <2>1, <2>2, <2>4, <3>1, <3>3, <3>4
    <2>5. \A p \in Slots : p < b + 1 => dir[p].mark # "last"  BY <2>1, <2>3, <2>4 DEF Passed
    <2>6. ASSUME NEW q \in Slots, q < b + 1, HeadAt(dir, q)
          PROVE  Whole(dir, q) /\ Reach(dir, q) < b + 1 /\ dir[q].n # n
      <3>1. CASE q < loc
        <4>1. Whole(dir, q) /\ Reach(dir, q) < loc /\ dir[q].n # n  BY <2>1, <2>6, <3>1 DEF Passed
        <4>2. Reach(dir, q) \in Nat  BY <2>6, SlotShapes
        <4> QED BY <1>1, <4>1, <4>2
      <3>2. CASE ~(q < loc)
        <4>1. q = loc  BY <2>3, <2>4, <2>6, <3>2
        <4> QED BY <1>1, <1>2, <2>1, <4>1
      <3> QED BY <3>1, <3>2
    <2>7. \A p \in Slots : p < b + 1 /\ SfnAt(dir, p) => dir[p].n # n  BY <2>1, <2>3, <2>4 DEF Passed
    <2> QED BY <2>5, <2>6, <2>7 DEF Passed
  <1> QED BY <1>2, <1>3, <1>4

(* Looking for room. *)
LEMMA RunNone == ASSUME NEW dir, NEW loc PROVE Run(dir, loc, 0, FALSE, 0)
  BY SlotIs DEF Run

LEMMA RunGoes ==
    ASSUME NEW dir \in Dirs, NEW cnt \in Counts, Good(dir, cnt), NEW loc \in Nat, NEW k \in Nat, NEW eod \in BOOLEAN,
           NEW b \in Slots, Run(dir, loc, k, eod, b), eod \/ dir[b].mark # "used"
    PROVE  Run(dir, IF k = 0 THEN b ELSE loc, k + 1, eod \/ dir[b].mark = "last", b + 1)
  <1>1. \A p \in Slots : p \in Nat /\ (p < b + 1 <=> p < b \/ p = b)  BY SlotIs
  <1>2. Open(dir[b])
    <2>1. CASE eod
      <3>1. ~Before(dir, b)
        <4>1. \E p \in Slots : p < b /\ dir[p].mark = "last"  BY <2>1 DEF Run
        <4> QED BY <1>1, <4>1 DEF Before
      <3> QED BY <3>1 DEF Good, Open
    <2> QED BY <2>1 DEF Open
  <1> DEFINE l == IF k = 0 THEN b ELSE loc
             e == eod \/ dir[b].mark = "last"
  <1>3. l + (k + 1) = b + 1 /\ l \in Nat /\ (k = 0 => l = b) /\ (k > 0 => l = loc /\ loc + k = b)
    BY <1>1 DEF Run
  <1>4. ~e => ~eod /\ dir[b].mark # "last"  OBVIOUS
  <1>5. e => eod \/ dir[b].mark = "last"  OBVIOUS
  <1> HIDE DEF l, e
  <1>6. \A p \in Slots : l <= p /\ p < b + 1 => Open(dir[p])
    <2> SUFFICES ASSUME NEW p \in Slots, l <= p, p < b + 1 PROVE Open(dir[p])
      OBVIOUS
    <2>1. CASE p = b  BY <1>2, <2>1
    <2>2. CASE p < b
      <3>1. k > 0 /\ l = loc  BY <1>1, <1>3, <2>2
      <3> QED BY <2>2, <3>1 DEF Run
    <2> QED BY <1>1, <2>1, <2>2
  <1>7. \A p \in Slots : p < l => dir[p].mark # "last"
    <2> SUFFICES ASSUME NEW p \in Slots, p < l PROVE dir[p].mark # "last"
      OBVIOUS
    <2>1. p < b /\ (k > 0 => p < loc)  BY <1>1, <1>3
    <2> QED BY <2>1 DEF Run
  <1>8. ~e => \A p \in Slots : p < b + 1 => dir[p].mark # "last"  BY <1>1, <1>4 DEF Run
  <1>9. e => \E p \in Slots : p < b + 1 /\ dir[p].mark = "last"
    <2>1. CASE dir[b].mark = "last"  BY <1>1, <2>1
    <2>2. CASE eod
      <3>1. \E p \in Slots : p < b /\ dir[p].mark = "last"  BY <2>2 DEF Run
      <3> QED BY <1>1, <3>1
    <2> QED BY <1>5, <2>1, <2>2
  <1>10. k + 1 > 0 /\ k + 1 # 0  OBVIOUS
  <1>11. Run(dir, l, k + 1, e, b + 1)  BY <1>3, <1>6, <1>7, <1>8, <1>9, <1>10 DEF Run
  <1> QED BY <1>11 DEF l, e

LEMMA RunBreaks ==
    ASSUME NEW dir \in Dirs, NEW loc, NEW new, NEW k, NEW b \in Slots, Run(dir, loc, k, FALSE, b), dir[b].mark = "used"
    PROVE  Run(dir, new, 0, FALSE, b + 1)
  <1>1. \A p \in Slots : p \in Nat /\ (p < b + 1 <=> p < b \/ p = b)  BY SlotIs
  <1>2. \A p \in Slots : p < b + 1 => dir[p].mark # "last"  BY <1>1 DEF Run
  <1> QED BY <1>2 DEF Run

(* What comes after the run does not matter to it. *)
LEMMA RunStays ==
    ASSUME NEW dir, NEW new, NEW loc, NEW k, NEW eod, NEW b, Run(dir, loc, k, eod, b),
           \A p \in Slots : p < b => new[p] = dir[p]
    PROVE  Run(new, loc, k, eod, b)
  BY DEF Run

(* Where the run is long enough the entry can be written. *)
LEMMA RunFills ==
    ASSUME NEW dir \in Dirs, NEW cnt \in Counts, NEW n \in Names, Missing(dir, n),
           NEW loc \in Nat, NEW eod, NEW b \in Nat, Run(dir, loc, Frags[n] + 1, eod, b),
           b < cnt, eod => dir[b].mark = "last"
    PROVE  Filling(dir, cnt, n, loc, loc)
  <1>1. Frags[n] \in 1 .. 20 /\ cnt \in Nat /\ \A p \in Slots : p \in Nat  BY PartIs, SlotIs DEF Counts
  <1>2. loc + (Frags[n] + 1) = b /\ \A p \in Slots : loc <= p /\ p < b => Open(dir[p])
    BY <1>1 DEF Run
  <1>3. \A p \in Slots : p < loc => dir[p].mark # "last"
    BY <1>1, <1>2 DEF Run
  <1>4. loc <= loc /\ loc <= loc + Frags[n] + 1 /\ loc + Frags[n] < cnt  BY <1>1, <1>2
  <1>5. \A p \in Slots : loc <= p /\ p <= loc + Frags[n] => Open(dir[p])  BY <1>1, <1>2
  <1>6. ~eod => \A p \in Slots : loc <= p /\ p <= loc + Frags[n] => dir[p].mark # "last"
    BY <1>1, <1>2 DEF Run
  <1>7. eod => loc + Frags[n] + 1 < cnt /\ dir[loc + Frags[n] + 1].mark = "last"
    <2>1. loc + Frags[n] + 1 = b  BY <1>1, <1>2
    <2> QED BY <2>1
  <1>8. \A p \in Slots : ~(loc <= p /\ p < loc)  BY <1>1
  <1>9. /\ \A q \in Slots : q # loc /\ HeadAt(dir, q) => Whole(dir, q) /\ dir[q].n # n
        /\ \A p \in Slots : p # loc + Frags[n] /\ SfnAt(dir, p) => dir[p].n # n
    BY DEF Missing
  <1> QED BY <1>3, <1>4, <1>5, <1>6, <1>7, <1>8, <1>9 DEF Filling

(* dir_add puts the new end mark behind the run when the old one is in it.  *)
EndsAt(dir, cnt, n, loc, b, new) ==
    /\ new = [dir EXCEPT ![b] = [dir[b] EXCEPT !.mark = "last"]] /\ [dir[b] EXCEPT !.mark = "last"] \in SlotVals
    /\ new \in Dirs /\ Good(new, cnt) /\ Filling(new, cnt, n, loc, loc)
    /\ NamesIn(new) = NamesIn(dir)
    /\ \A p \in Slots : Whole(dir, p) => Whole(new, p) /\ Reach(new, p) = Reach(dir, p)
    /\ \A p \in Slots : new[p].kind = dir[p].kind /\ (new[p].mark = dir[p].mark \/ new[p].mark = "last")

LEMMA MarkStep ==
    ASSUME NEW dir \in Dirs, NEW cnt \in Counts, Good(dir, cnt), NEW n \in Names, Missing(dir, n),
           NEW loc \in Nat, NEW b \in Slots, Run(dir, loc, Frags[n] + 1, TRUE, b), b < cnt,
           NEW new, Ends(dir, new, b)
    PROVE  EndsAt(dir, cnt, n, loc, b, new)
  <1>1. b \in Nat /\ \A p \in Slots : p \in Nat  BY SlotIs
  <1> DEFINE v == [dir[b] EXCEPT !.mark = "last"]
  <1>2. dir[b] \in SlotVals  BY SlotShapes
  <1>3. v \in SlotVals /\ v.mark = "last" /\ v.kind = dir[b].kind  BY <1>2 DEF SlotVals, Marks
  <1>4. new = [dir EXCEPT ![b] = v]  BY DEF Ends
  <1> HIDE DEF v
  <1>5. new \in Dirs /\ new[b] = v /\ \A p \in Slots : p # b => new[p] = dir[p]
    BY <1>3, <1>4 DEF Dirs
  <1>6. \A p \in Slots : new[p].kind = dir[p].kind /\ (new[p].mark = dir[p].mark \/ new[p].mark = "last")
    BY <1>3, <1>5
  <1>7. \A p \in Slots : p < b => new[p] = dir[p]  BY <1>1, <1>5
  <1>8. \A p \in Slots : b <= p => Foreign(dir[p]) /\ Foreign(new[p])
    <2> SUFFICES ASSUME NEW p \in Slots, b <= p PROVE Foreign(dir[p]) /\ Foreign(new[p])
      OBVIOUS
    <2>1. PICK q \in Slots : q < b /\ dir[q].mark = "last"  BY DEF Run
    <2>2. q \in 0 .. p  BY <1>1, <2>1
    <2>3. ~Before(dir, p)  BY <2>1, <2>2 DEF Before
    <2>4. Foreign(dir[p])  BY <2>3 DEF Good
    <2> QED BY <1>6, <2>4 DEF Foreign
  <1>9. /\ Good(new, cnt)
        /\ \A p \in Slots : /\ HeadAt(new, p) <=> HeadAt(dir, p)
                            /\ SfnAt(new, p) <=> SfnAt(dir, p)
                            /\ Whole(new, p) <=> Whole(dir, p)
                            /\ HeadAt(dir, p) \/ SfnAt(dir, p) => new[p] = dir[p]
                            /\ HeadAt(dir, p) => Reach(new, p) = Reach(dir, p)
        /\ NamesIn(new) = NamesIn(dir)
    <2>1. new \in Dirs /\ Differs(dir, new, b)  BY <1>1, <1>5, <1>7, <1>8 DEF Differs
    <2>2. Good(new, cnt)  BY <1>1, <2>1, ForeignChange
    <2>3. NamesIn(new) = NamesIn(dir)  BY <1>1, <2>1, ForeignChange
    <2>4. \A p \in Slots : /\ HeadAt(new, p) <=> HeadAt(dir, p)
                           /\ SfnAt(new, p) <=> SfnAt(dir, p)
                           /\ Whole(new, p) <=> Whole(dir, p)
                           /\ HeadAt(dir, p) \/ SfnAt(dir, p) => p < b /\ new[p] = dir[p]
                           /\ HeadAt(dir, p) => Reach(new, p) = Reach(dir, p)
      BY <1>1, <2>1, ForeignChange
    <2> QED BY <2>2, <2>3, <2>4
  <1>10. Missing(new, n)  BY <1>9 DEF Missing
  <1>11. Run(new, loc, Frags[n] + 1, TRUE, b)  BY <1>7, RunStays
  <1>12. Filling(new, cnt, n, loc, loc)  BY <1>1, <1>3, <1>5, <1>10, <1>11, RunFills
  <1>13. \A p \in Slots : Whole(dir, p) => Whole(new, p) /\ Reach(new, p) = Reach(dir, p)
    BY <1>9 DEF Whole
  <1>14. new \in Dirs /\ Good(new, cnt) /\ NamesIn(new) = NamesIn(dir)  BY <1>5, <1>9
  <1> QED BY <1>3, <1>4, <1>6, <1>12, <1>13, <1>14, Zenon DEF v, EndsAt

(* What a search has found is freed from its head on, or it is a short name *)
(* alone.                                                                   *)
LEMMA UnmarkBegins ==
    ASSUME NEW dir \in Dirs, NEW cnt \in Counts, Good(dir, cnt), NEW q \in Slots, Whole(dir, q)
    PROVE  Unmarking(dir, cnt, dir[q].n, Reach(dir, q), q)
  <1>1. /\ HeadAt(dir, q) /\ Reach(dir, q) \in Slots /\ Reach(dir, q) < cnt /\ q < Reach(dir, q)
        /\ \A p \in Slots : q <= p /\ p <= Reach(dir, q) => dir[p].mark = "used"
    BY WholeShapes
  <1>2. \A p \in Slots : p \in Nat  BY SlotIs
  <1>3. \A p \in Slots : HeadAt(dir, p) => p = q \/ Reach(dir, p) < q \/ Reach(dir, q) < p
    BY <1>1, <1>2 DEF Good
  <1>4. q <= Reach(dir, q)  BY <1>1, <1>2
  <1> QED BY <1>1, <1>3, <1>4 DEF Unmarking

LEMMA UnmarkLone ==
    ASSUME NEW dir \in Dirs, NEW cnt \in Counts, Good(dir, cnt), NEW m, NEW n \in Names,
           NEW p \in Slots, Passed(dir, m, p), SfnAt(dir, p)
    PROVE  /\ Unmarking(dir, cnt, n, p, p) /\ ~HeadAt(dir, p)
           /\ dir[p].n = n => n \notin NamesIn(dir)
  <1>1. p \in Nat /\ cnt \in Nat /\ \A q \in Slots : q \in Nat  BY SlotIs DEF Counts
  <1>2. ~HeadAt(dir, p)  BY DEF HeadAt, SfnAt
  <1>3. p < cnt
    <2>1. ~Foreign(dir[p])  BY DEF Foreign, SfnAt
    <2>2. ~(p >= cnt)  BY <2>1 DEF Good
    <2> QED BY <1>1, <2>2
  <1>4. \A q \in Slots : HeadAt(dir, q) => q = p \/ Reach(dir, q) < p \/ p < q
    <2>1. \A q \in Slots : q < p /\ HeadAt(dir, q) => Reach(dir, q) < p  BY DEF Passed
    <2> QED BY <1>1, <2>1
  <1>5. \A q \in Slots : p <= q /\ q <= p => dir[q].mark = "used"
    <2>1. dir[p].mark = "used"  BY DEF SfnAt
    <2>2. \A q \in Slots : p <= q /\ q <= p => q = p  BY <1>1
    <2> QED BY <2>1, <2>2
  <1>6. ASSUME dir[p].n = n, NEW q \in Slots, Whole(dir, q), dir[q].n = n PROVE FALSE
    <2>1. p = Reach(dir, q) /\ HeadAt(dir, q) /\ q < Reach(dir, q)
      BY <1>6, WholeShapes DEF Good
    <2>2. Reach(dir, q) < p  BY <1>1, <1>4, <2>1
    <2> QED BY <1>1, <2>1, <2>2
  <1> QED BY <1>1, <1>2, <1>3, <1>4, <1>5, <1>6 DEF Unmarking, NamesIn

(* Until the first failure no slot that is in use is in pieces, but where   *)
(* a call is at work, and no slot of the chain was never written.           *)
Covered(dir, p) == \E q \in Slots : Whole(dir, q) /\ q <= p /\ p <= Reach(dir, q)
Tidy(dir, lim, from, to) ==
    \A p \in Slots : p < lim =>
        /\ dir[p].kind \notin {"junk", "alien"}
        /\ dir[p].mark = "used" => (from <= p /\ p <= to) \/ Covered(dir, p)

LEMMA TidySearch ==
    ASSUME NEW dir \in Dirs, NEW cnt \in Counts, Good(dir, cnt), Tidy(dir, cnt, 1, 0), NEW n, NEW b \in Slots,
           Passed(dir, n, b), dir[b].mark = "used", b < cnt
    PROVE  Whole(dir, b)
  <1>1. \A p \in Slots : p \in Nat  BY SlotIs
  <1>2. PICK q \in Slots : Whole(dir, q) /\ q <= b /\ b <= Reach(dir, q)
    BY <1>1 DEF Tidy, Covered
  <1>3. HeadAt(dir, q) /\ Reach(dir, q) \in Slots  BY <1>2, WholeShapes
  <1>4. ~(q < b)  BY <1>1, <1>2, <1>3 DEF Passed
  <1>5. q = b  BY <1>1, <1>2, <1>4
  <1> QED BY <1>2, <1>5

LEMMA TidyChange ==
    ASSUME NEW dir \in Dirs, NEW new \in Dirs, NEW lim, NEW from, NEW to, Tidy(dir, lim, from, to),
           \A p \in Slots : Whole(dir, p) => Whole(new, p) /\ Reach(new, p) = Reach(dir, p),
           \A p \in Slots : p < lim => (new[p].mark = "used" => dir[p].mark = "used"),
           \A p \in Slots : p < lim => new[p].kind \notin {"junk", "alien"} \/ new[p].kind = dir[p].kind
    PROVE  Tidy(new, lim, from, to)
  BY DEF Tidy, Covered

LEMMA TidyWider ==
    ASSUME NEW dir, NEW lim, Tidy(dir, lim, 1, 0), NEW from, NEW to PROVE Tidy(dir, lim, from, to)
  <1>1. \A p \in Slots : p \in Nat  BY SlotIs
  <1>2. \A p \in Slots : ~(1 <= p /\ p <= 0)  BY <1>1
  <1> QED BY <1>2 DEF Tidy

LEMMA TidyFill ==
    ASSUME NEW dir \in Dirs, NEW cnt \in Counts, Good(dir, cnt), NEW n \in Names, NEW a, NEW b,
           Filling(dir, cnt, n, a, b), NEW new, Fills(dir, new, n, a, b), Tidy(dir, cnt, a, a + Frags[n])
    PROVE  /\ Tidy(new, cnt, a, a + Frags[n])
           /\ b = a + Frags[n] => Tidy(new, cnt, 1, 0)
  <1>1a. new \in Dirs /\ Reach(new, a) = a + Frags[n]  BY FillStep
  <1>1b. \A q \in Slots : q # a => (Whole(new, q) <=> Whole(dir, q))  BY FillStep
  <1>1c. \A q \in Slots : Whole(dir, q) => Reach(new, q) = Reach(dir, q)  BY FillStep
  <1>1d. Whole(new, a) <=> b = a + Frags[n]  BY FillStep
  <1>1. /\ new \in Dirs
        /\ \A q \in Slots : q # a => (Whole(new, q) <=> Whole(dir, q))
        /\ \A q \in Slots : Whole(dir, q) => Reach(new, q) = Reach(dir, q)
        /\ Whole(new, a) <=> b = a + Frags[n]
        /\ Reach(new, a) = a + Frags[n]
    BY <1>1a, <1>1b, <1>1c, <1>1d
  <1>2. b \in Nat /\ b <= a + Frags[n] /\ a \in Slots /\ b \in Slots /\ ~Whole(dir, a) /\ b - a \in 0 .. Frags[n] /\ a \in Nat /\ Frags[n] \in 1 .. 20
    BY FillingShapes DEF Fills
  <1>3. \A p \in Slots : p # b => new[p] = dir[p]  BY <1>2 DEF Fills
  <1>4. new[b] = Part(n, b - a)  BY <1>2 DEF Dirs, Fills
  <1>5. new[b].kind \notin {"junk", "alien"}  BY <1>2, <1>4 DEF Part, Lfn, Sfn
  <1>6. \A p \in Slots : Covered(dir, p) => Covered(new, p)  BY <1>1, <1>2 DEF Covered
  <1>7. a <= b /\ b <= a + Frags[n]  BY <1>2
  <1>8. Tidy(new, cnt, a, a + Frags[n])  BY <1>3, <1>5, <1>6, <1>7 DEF Tidy
  <1>9. ASSUME b = a + Frags[n] PROVE Tidy(new, cnt, 1, 0)
    <2>1. \A p \in Slots : a <= p /\ p <= a + Frags[n] => Covered(new, p)
      BY <1>1, <1>2, <1>9 DEF Covered
    <2> QED BY <1>8, <2>1 DEF Tidy
  <1> QED BY <1>8, <1>9

LEMMA TidyUnmark ==
    ASSUME NEW dir \in Dirs, NEW cnt \in Counts, Good(dir, cnt), NEW n \in Names, NEW last \in Nat, NEW b \in Nat,
           Unmarking(dir, cnt, n, last, b), Tidy(dir, cnt, b, last),
           NEW new, Frees(dir, new, b)
    PROVE  /\ Tidy(new, cnt, b + 1, last)
           /\ b = last => Tidy(new, cnt, 1, 0)
  <1>1a. b \in Slots /\ new \in Dirs  BY UnmarkStep
  <1>1b. \A q \in Slots : Whole(new, q) <=> Whole(dir, q) /\ q # b  BY UnmarkStep
  <1>1c. \A q \in Slots : Whole(new, q) => Reach(new, q) = Reach(dir, q) /\ new[q] = dir[q]  BY UnmarkStep
  <1>1. /\ b \in Slots /\ new \in Dirs
        /\ \A q \in Slots : Whole(new, q) <=> Whole(dir, q) /\ q # b
        /\ \A q \in Slots : Whole(new, q) => Reach(new, q) = Reach(dir, q) /\ new[q] = dir[q]
    BY <1>1a, <1>1b, <1>1c
  <1>2. dir[b] \in SlotVals  BY <1>1, SlotShapes
  <1>3. new[b].mark = "free" /\ new[b].kind = dir[b].kind /\ \A p \in Slots : p # b => new[p] = dir[p]
    BY <1>1, <1>2 DEF Dirs, SlotVals, Frees
  <1>4. \A p \in Slots : p \in Nat  BY SlotIs
  <1>5. \A p \in Slots : Covered(dir, p) => Covered(new, p) \/ (b <= p /\ p <= last)
    <2> SUFFICES ASSUME NEW p \in Slots, Covered(dir, p) PROVE Covered(new, p) \/ (b <= p /\ p <= last)
      OBVIOUS
    <2>1. PICK q \in Slots : Whole(dir, q) /\ q <= p /\ p <= Reach(dir, q)  BY DEF Covered
    <2>2. CASE q # b  BY <1>1, <2>1, <2>2 DEF Covered
    <2>3. CASE q = b
      <3>1. Reach(dir, b) = last  BY <2>1, <2>3 DEF Unmarking, Whole
      <3> QED BY <2>1, <2>3, <3>1
    <2> QED BY <2>2, <2>3
  <1>6. ASSUME NEW p \in Slots, p < cnt
        PROVE  /\ new[p].kind \notin {"junk", "alien"}
               /\ new[p].mark = "used" => (b + 1 <= p /\ p <= last) \/ Covered(new, p)
    <2>1. CASE p = b  BY <1>3, <1>6, <2>1 DEF Tidy
    <2>2. CASE p # b
      <3>1. new[p] = dir[p]  BY <1>3, <2>2
      <3>2. dir[p].kind \notin {"junk", "alien"} /\ (dir[p].mark = "used" => (b <= p /\ p <= last) \/ Covered(dir, p))
        BY <1>6 DEF Tidy
      <3>3. b <= p => b + 1 <= p  BY <1>4, <2>2
      <3> QED BY <1>5, <3>1, <3>2, <3>3
    <2> QED BY <2>1, <2>2
  <1>7. Tidy(new, cnt, b + 1, last)  BY <1>6 DEF Tidy
  <1>8. b = last => \A p \in Slots : ~(b + 1 <= p /\ p <= last)  BY <1>4
  <1> QED BY <1>7, <1>8 DEF Tidy

(* An end mark in the chain, and nothing before it that was never written.  *)
MarkedIn(dir, cnt) == \E p \in Slots : p < cnt /\ ~Before(dir, p)
HiddenIn(dir, cnt) == \A p \in Slots : p < cnt /\ Before(dir, p) => dir[p].kind \notin {"junk", "alien"}
Marked2(dir, cnt)  == MarkedIn(dir, cnt) /\ HiddenIn(dir, cnt)

LEMMA MarkedIs ==
    ASSUME NEW dir, NEW cnt \in Counts
    PROVE  MarkedIn(dir, cnt) <=> \E p \in Slots : p < cnt /\ dir[p].mark = "last"
  <1>1. cnt \in Nat /\ \A p \in Slots : p \in Nat /\ p \in 0 .. p /\ \A q \in 0 .. p : q \in Slots /\ q <= p
    BY SlotIs DEF Counts
  <1>2. ASSUME MarkedIn(dir, cnt) PROVE \E p \in Slots : p < cnt /\ dir[p].mark = "last"
    <2>1. PICK p \in Slots : p < cnt /\ ~Before(dir, p)  BY <1>2 DEF MarkedIn
    <2>2. PICK q \in 0 .. p : dir[q].mark = "last"  BY <2>1 DEF Before
    <2>3. q \in Slots /\ q < cnt  BY <1>1, <2>1
    <2> QED BY <2>2, <2>3
  <1>3. ASSUME NEW p \in Slots, p < cnt, dir[p].mark = "last" PROVE MarkedIn(dir, cnt)
    <2>1. ~Before(dir, p)  BY <1>1, <1>3 DEF Before
    <2> QED BY <1>3, <2>1 DEF MarkedIn
  <1> QED BY <1>2, <1>3

LEMMA TidyHides ==
    ASSUME NEW dir, NEW cnt, NEW from, NEW to, Tidy(dir, cnt, from, to) PROVE HiddenIn(dir, cnt)
  BY DEF Tidy, HiddenIn

LEMMA MarkedGrows ==
    ASSUME NEW dir, NEW cnt \in Counts, NEW more \in Counts, cnt <= more, Marked2(dir, cnt)
    PROVE  Marked2(dir, more)
  <1>1. cnt \in Nat /\ more \in Nat /\ \A p \in Slots : p \in Nat  BY SlotIs DEF Counts
  <1>2. PICK q \in Slots : q < cnt /\ dir[q].mark = "last"  BY MarkedIs DEF Marked2
  <1>3. MarkedIn(dir, more)  BY <1>1, <1>2, MarkedIs
  <1>4. ASSUME NEW p \in Slots, p < more, Before(dir, p) PROVE dir[p].kind \notin {"junk", "alien"}
    <2>1. ~(q \in 0 .. p)  BY <1>2, <1>4 DEF Before
    <2>2. p < cnt  BY <1>1, <1>2, <2>1
    <2> QED BY <1>4, <2>2 DEF Marked2, HiddenIn
  <1> QED BY <1>3, <1>4 DEF Marked2, HiddenIn

LEMMA MarkedStays ==
    ASSUME NEW dir, NEW new, NEW cnt \in Counts, Marked2(dir, cnt),
           \A p \in Slots : dir[p].mark = "last" => new[p].mark = "last",
           \A p \in Slots : p < cnt /\ new[p].mark # "last" => new[p].kind \notin {"junk", "alien"} \/ new[p].kind = dir[p].kind
    PROVE  Marked2(new, cnt)
  <1>1. MarkedIn(new, cnt)  BY MarkedIs DEF Marked2
  <1>2. \A p \in Slots : p \in 0 .. p /\ \A q \in 0 .. p : q \in Slots  BY SlotIs
  <1>3. ASSUME NEW p \in Slots, p < cnt, Before(new, p) PROVE new[p].kind \notin {"junk", "alien"}
    <2>1. new[p].mark # "last" /\ Before(dir, p)  BY <1>2, <1>3 DEF Before
    <2>2. dir[p].kind \notin {"junk", "alien"}  BY <1>3, <2>1 DEF Marked2, HiddenIn
    <2> QED BY <1>3, <2>1, <2>2
  <1> QED BY <1>1, <1>3 DEF Marked2, HiddenIn

LEMMA MarkedFill ==
    ASSUME NEW dir \in Dirs, NEW cnt \in Counts, Good(dir, cnt), NEW n \in Names, NEW a, NEW b,
           Filling(dir, cnt, n, a, b), NEW new, Fills(dir, new, n, a, b), MarkedIn(dir, cnt)
    PROVE  MarkedIn(new, cnt)
  <1>1. a \in Slots /\ b \in Slots /\ b - a \in 0 .. Frags[n] /\ a \in Nat /\ Frags[n] \in 1 .. 20
    BY FillingShapes DEF Fills
  <1>2. \A p \in Slots : p # b => new[p] = dir[p]  BY <1>1 DEF Fills
  <1>3. CASE \A p \in Slots : b <= p /\ p <= a + Frags[n] => dir[p].mark # "last"
    <2>1. PICK q \in Slots : q < cnt /\ dir[q].mark = "last"  BY MarkedIs
    <2>2. q # b  BY <1>1, <1>3, <2>1
    <2> QED BY <1>2, <2>1, <2>2, MarkedIs
  <1>4. CASE a + Frags[n] + 1 < cnt /\ dir[a + Frags[n] + 1].mark = "last"
    <2>1. a + Frags[n] + 1 \in Slots /\ a + Frags[n] + 1 # b
      BY <1>1, <1>4, SlotIs DEF Counts
    <2> QED BY <1>2, <1>4, <2>1, MarkedIs
  <1> QED BY <1>3, <1>4 DEF Filling
-----------------------------------------------------------------------------
(* The inductive invariant.  At is the slot a call has come to, and Place  *)
(* where it goes on there, with dir_next's question to the FAT left out.   *)
At    == IF pc \in {"next", "grow", "growSync"} THEN call.pos + 1 ELSE call.pos
Place == IF pc = "next" THEN call.then ELSE pc

Walks == {"search", "parse", "room", "fill", "unmark"}
Calls == [op : Ops \cup {"none"}, n : Names \cup {"none"}, pos : Slots, loc : Slots, left : Nat,
          match : BOOLEAN, crc : {0} \cup {Short[n] : n \in Names}, cnt : Nat, eod : BOOLEAN,
          then : Walks \cup {"none"}]

CallOk ==
    /\ pc \in Pcs /\ call \in Calls
    /\ pc = "idle" => call = NoCall
    /\ pc # "idle" => call.op \in Ops /\ call.pos < InView /\ res = NoRes
    /\ pc \notin {"idle", "flush"} => call.op # "sync" /\ call.n \in Names
    /\ pc = "next" => call.then \in Walks
    /\ call.left = 0 \/ Place \in {"parse", "fill", "clear"}
    /\ call.cnt = 0 \/ Place \in {"room", "grow", "growSync", "clear"}

Shared(f, n) == f > 0 /\ \E m \in Names \ {n} : Short[m] = Short[n]

ResOk ==
    /\ res.err \in Errs \cup {"none"}
    /\ res.err = "NONE" /\ res.op \in {"add", "mkdir", "find"} /\ faults = 0 => res.n \in NamesIn(Driver)
    /\ res.err = "NONE" /\ res.op = "remove" => res.n \notin NamesIn(Medium) \/ Shared(faults, res.n)

(* What holds at each place, of the directory d with v slots that the       *)
(* driver sees, the medium m, the call c and the slot b it has come to.     *)
SearchOk(d, c, b) == Passed(d, c.n, b)
ParseOk(d, c, b)  == Parsing(d, c.n, c.loc, c.left, c.match, b) /\ c.crc = Short[d[c.loc].n]
AllocOk(d, c)     == c.op \in {"add", "mkdir"} /\ Missing(d, c.n) /\ c.pos = 0 /\ c.cnt = 0 /\ c.eod = FALSE
DotsOk(d, m, c)   == AllocOk(d, c) /\ c.n \notin NamesIn(m)
RoomOk(d, m, c, b) ==
    /\ c.op \in {"add", "mkdir"} /\ Missing(d, c.n) /\ c.n \notin NamesIn(m)
    /\ c.cnt <= Frags[c.n] + 1 /\ Run(d, c.loc, c.cnt, c.eod, b)
GrowOk(d, v, m, c, b) == RoomOk(d, m, c, b) /\ b = v
FreshOk(d, v, m, c, b) ==
    /\ RoomOk(d, m, c, b) /\ b + ClustSlots = v
    /\ \A p \in Slots : b <= p => Foreign(d[p])
ClearOk(d, v, m, c, b, w) ==
    /\ FreshOk(d, v, m, c, b) /\ ~w.dirty /\ c.left < SectsPerClust
    /\ \A p \in Slots : b <= p /\ SectOf(p) < SectOf(b) + c.left => d[p] = Zero
First(c, b) == b - (Frags[c.n] - c.left)
FillOk(d, v, m, c, b) ==
    /\ c.op \in {"add", "mkdir"} /\ c.n \notin NamesIn(m) /\ c.left <= Frags[c.n]
    /\ Filling(d, v, c.n, First(c, b), b)
FoundOk(d, c, f) ==
    /\ c.op = "remove" /\ Passed(d, c.n, c.loc)
    /\ \/ Whole(d, c.loc) /\ d[c.loc].n = c.n /\ c.pos = Reach(d, c.loc)
       \/ c.loc = c.pos /\ SfnAt(d, c.pos) /\ Short[d[c.pos].n] = Short[c.n] /\ f > 0
UnmarkOk(d, v, m, c, b, f) ==
    /\ c.op = "remove" /\ Unmarking(d, v, c.n, c.loc, b)
    /\ HeadAt(d, b) => c.n \in NamesIn(m)
    /\ HeadAt(d, b) \/ c.n \notin NamesIn(d) \/ Shared(f, c.n)
FlushOk(d, c, f) ==
    /\ c.op \in {"remove", "mkdir", "sync"}
    /\ c.op = "remove" => c.n \notin NamesIn(d) \/ Shared(f, c.n)
    /\ c.op = "mkdir" => c.n \in NamesIn(d)

PlaceOk ==
    /\ Place = "search" => SearchOk(Driver, call, At)
    /\ Place = "parse" => ParseOk(Driver, call, At)
    /\ Place \in {"alloc", "allocSync"} => AllocOk(Driver, call)
    /\ Place = "dots" => DotsOk(Driver, Medium, call)
    /\ Place = "room" => RoomOk(Driver, Medium, call, At)
    /\ Place = "grow" => GrowOk(Driver, InView, Medium, call, At)
    /\ Place = "growSync" => FreshOk(Driver, InView, Medium, call, At)
    /\ Place = "clear" => ClearOk(Driver, InView, Medium, call, At, win)
    /\ Place = "fill" => FillOk(Driver, InView, Medium, call, At)
    /\ Place \in {"release", "releaseSync"} => FoundOk(Driver, call, faults)
    /\ Place = "unmark" => UnmarkOk(Driver, InView, Medium, call, At, faults)
    /\ Place = "flush" => FlushOk(Driver, call, faults)

TidyOk ==
    faults = 0 =>
      /\ Place \notin {"growSync", "clear", "fill", "unmark"} => Tidy(Driver, InView, 1, 0)
      /\ Place \in {"growSync", "clear"} => Tidy(Driver, At, 1, 0)
      /\ Place = "fill" => Tidy(Driver, InView, First(call, At), First(call, At) + Frags[call.n])
      /\ Place = "unmark" => Tidy(Driver, InView, At, call.loc)

MarkOk == faults = 0 /\ Marked2(Medium, OnDisk) => Marked2(Driver, InView)

Ground == MediumFits /\ Good(Driver, InView) /\ Good(Medium, OnDisk) /\ MarkOk
Rest   == CallOk /\ ResOk /\ PlaceOk /\ TidyOk
IInv   == Ground /\ Rest

(* What every step does: it keeps the invariant, it is one of DirStore's,   *)
(* and it leaves hidden what was hidden.                                    *)
KeepsHidden == faults = 0 /\ Marked2(Medium, OnDisk) => HiddenIn(Medium', OnDisk')
Moves == Store!Next
Fine == IInv' /\ Moves /\ KeepsHidden

LEMMA CountsAre == \A n \in 1 .. MaxClust : n * ClustSlots \in Counts
  <1> TAKE n \in 1 .. MaxClust
  <1>1. \A a, b, c \in Nat : b > 0 /\ c > 0 /\ b <= a => b * c \in Nat /\ b * c > 0 /\ b * c <= a * c
    <2> TAKE a, b, c \in Nat
    <2> HAVE b > 0 /\ c > 0 /\ b <= a
    <2>1. a - b \in Nat /\ (a - b) * c \in Nat  OBVIOUS
    <2>2. (a - b) * c = a * c - b * c  OBVIOUS
    <2>3. b * c \in Nat /\ a * c \in Nat /\ b * c > 0  OBVIOUS
    <2> QED BY <2>1, <2>2, <2>3
  <1>2. n \in Nat /\ n > 0 /\ n <= MaxClust /\ MaxClust \in Nat /\ ClustSlots \in Nat /\ ClustSlots > 0
    BY Constants
  <1> QED BY <1>1, <1>2 DEF Counts, Size

LEMMA GroundIs ==
    Ground =>
           /\ Driver \in Dirs /\ Medium \in Dirs /\ InView \in Counts /\ OnDisk \in Counts
           /\ Good(Driver, InView) /\ Good(Medium, OnDisk) /\ MediumFits
           /\ Seen = NamesIn(Driver) /\ Kept = NamesIn(Medium)
           /\ \E n \in 1 .. MaxClust : InView = n * ClustSlots
           /\ faults \in 0 .. MaxFaults
  <1> HAVE Ground
  <1>1. /\ Driver \in Dirs /\ Medium \in Dirs
        /\ View(OtherSect).links \in 1 .. MaxClust /\ disk[OtherSect].links \in 1 .. MaxClust
    BY ViewTypes DEF Ground, LinkVals
  <1>3. InView \in Counts /\ OnDisk \in Counts  BY <1>1, CountsAre DEF InView, OnDisk
  <1>4. Good(Driver, InView) /\ Good(Medium, OnDisk) /\ MediumFits /\ faults \in 0 .. MaxFaults
    BY DEF Ground, MediumFits
  <1>5. Seen = NamesIn(Driver) /\ Kept = NamesIn(Medium)
    BY <1>1, <1>3, <1>4, NamesAre DEF Seen, Kept
  <1>6. \E n \in 1 .. MaxClust : InView = n * ClustSlots  BY <1>1 DEF InView
  <1> QED BY <1>1, <1>3, <1>4, <1>5, <1>6

Shapes ==
    /\ Driver \in Dirs /\ Medium \in Dirs /\ InView \in Counts /\ OnDisk \in Counts
    /\ Seen = NamesIn(Driver) /\ Kept = NamesIn(Medium)

LEMMA GroundThen ==
    Ground' => /\ Driver' \in Dirs /\ Medium' \in Dirs /\ InView' \in Counts /\ OnDisk' \in Counts
               /\ Seen' = NamesIn(Driver') /\ Kept' = NamesIn(Medium')
  <1>1. Ground => Shapes  BY GroundIs DEF Shapes
  <1>2. Ground' => Shapes'  BY <1>1, PTL
  <1> QED BY <1>2 DEF Shapes

(* The medium follows what the driver saw, and keeps hidden what it hides.  *)
LEMMA Turns ==
    ASSUME Ground, MediumFits', Calm, Good(Driver, InView)',
           Stays \/ Settles \/ (Medium' = Driver' /\ OnDisk' = InView'),
           faults = 0 /\ Marked2(Driver, InView) => Marked2(Driver, InView)'
    PROVE  Ground' /\ KeepsHidden
  <1>1. Good(Medium', OnDisk')  BY DEF Ground, Stays, Settles
  <1>2. faults' = 0 => faults = 0  BY DEF Calm
  <1>3. faults = 0 /\ Marked2(Medium, OnDisk) => Marked2(Driver, InView)  BY DEF Ground, MarkOk
  <1>4. MarkOk'  BY <1>2, <1>3 DEF MarkOk, Stays, Settles
  <1>5. KeepsHidden
    <2>1. CASE Stays  BY <2>1 DEF KeepsHidden, Marked2, Stays
    <2>2. CASE Settles  BY <1>3, <2>2 DEF KeepsHidden, Marked2, Settles
    <2>3. CASE Medium' = Driver' /\ OnDisk' = InView'
      <3>1. faults = 0 /\ Marked2(Medium, OnDisk) => Marked2(Driver', InView')  BY <1>3
      <3> QED BY <2>3, <3>1 DEF KeepsHidden, Marked2
    <2> QED BY <2>1, <2>2, <2>3
  <1> QED BY <1>1, <1>4, <1>5 DEF Ground

LEMMA RequestIs ==
    ASSUME CallOk' PROVE Request(call)' \in [op : Ops, n : Names \cup {"none"}] \cup {Request(NoCall)}
  <1>1. CASE pc' = "idle"  BY <1>1 DEF CallOk
  <1>2. CASE pc' # "idle"
    <2>1. call'.op \in Ops /\ call'.n \in Names \cup {"none"}  BY <1>2 DEF CallOk, Calls
    <2> QED BY <2>1 DEF Request
  <1> QED BY <1>1, <1>2

(* The names of a step, as DirStore has them. *)
LEMMA NamesStay ==
    ASSUME Ground, Ground', CallOk', NamesIn(Driver') = NamesIn(Driver),
           NamesIn(Medium') \in {NamesIn(Medium), NamesIn(Driver)}
    PROVE  Moves
  <1>1. Seen' = Seen /\ Kept' \in {Kept, Seen}  BY GroundIs, GroundThen
  <1> QED BY <1>1, RequestIs DEF Moves, Store!Next, Store!Follows, Store!Settle

LEMMA NamesGain ==
    ASSUME Ground, Ground', CallOk', call.op \in {"add", "mkdir"},
           NamesIn(Driver') = NamesIn(Driver) \cup {call.n}, call.n \notin NamesIn(Driver),
           call.n \notin NamesIn(Medium), NamesIn(Medium') \in {NamesIn(Medium), NamesIn(Driver)}
    PROVE  Moves
  <1>1. Seen' = Seen \cup {call.n} /\ Kept' \in {Kept, Seen} /\ call.n \notin Kept  BY GroundIs, GroundThen
  <1>2. Request(call).op \in {"add", "mkdir"} /\ Request(call).n = call.n  BY DEF Request
  <1> QED BY <1>1, <1>2, RequestIs DEF Moves, Store!Next, Store!Follows, Store!Add

LEMMA NamesLose ==
    ASSUME Ground, Ground', CallOk', call.op = "remove",
           NamesIn(Driver') = NamesIn(Driver) \ {call.n},
           call.n \in NamesIn(Medium), NamesIn(Medium') \in {NamesIn(Medium), NamesIn(Driver)}
    PROVE  Moves
  <1>1. Seen' = Seen \ {call.n} /\ Kept' \in {Kept, Seen} /\ call.n \in Kept  BY GroundIs, GroundThen
  <1>2. Request(call).op = "remove" /\ Request(call).n = call.n  BY DEF Request
  <1> QED BY <1>1, <1>2, RequestIs DEF Moves, Store!Next, Store!Follows, Store!Remove

(* A step that only looks: what is left to show is about the call. *)
LEMMA LooksFine ==
    ASSUME IInv, Looks
    PROVE  /\ Ground' /\ KeepsHidden
           /\ Driver' = Driver /\ InView' = InView
           /\ NamesIn(Medium') \in {NamesIn(Medium), NamesIn(Driver)}
           /\ Rest' => Fine
  <1>1. /\ MediumFits' /\ Calm /\ Driver' = Driver /\ InView' = InView /\ (Stays \/ Settles)
        /\ Ground
    BY DEF Looks, Still, IInv
  <1>2. Ground' /\ KeepsHidden
    <2>1. Good(Driver, InView)'  BY <1>1 DEF Ground
    <2>2. Marked2(Driver, InView) => Marked2(Driver, InView)'  BY <1>1
    <2> QED BY <1>1, <2>1, <2>2, Turns
  <1>3. NamesIn(Medium') \in {NamesIn(Medium), NamesIn(Driver)}  BY <1>1 DEF Stays, Settles
  <1>4. NamesIn(Driver') = NamesIn(Driver)  BY <1>1
  <1>5. Rest' => Fine  BY <1>1, <1>2, <1>3, <1>4, NamesStay DEF Rest, Fine, IInv
  <1> QED BY <1>1, <1>2, <1>3, <1>5

(* A call that returns. *)
LEMMA NoCallIs == NoCall \in Calls /\ 0 \in Slots
  <1>1. 0 \in Slots
    <2>1. \A m, n \in Nat : m > 0 /\ n > 0 => m * n > 0  OBVIOUS
    <2> QED BY <2>1, Constants, SlotIs DEF Size
  <1> QED BY <1>1 DEF NoCall, Calls

LEMMA ReturnRest ==
    ASSUME NEW e \in Errs, Return(e), ResOk', faults' = 0 => Tidy(Driver', InView', 1, 0)
    PROVE  Rest'
  <1>1. pc' = "idle" /\ call' = NoCall  BY DEF Return
  <1>2. Place' = "idle"  BY <1>1 DEF Place
  <1>3. call'.left = 0 /\ call'.cnt = 0  BY <1>1 DEF NoCall
  <1>4. CallOk'  BY <1>1, <1>3, NoCallIs DEF CallOk, Pcs
  <1>5. PlaceOk'  BY <1>2 DEF PlaceOk
  <1>6. TidyOk'  BY <1>2 DEF TidyOk
  <1> QED BY <1>4, <1>5, <1>6 DEF Rest

(* With any other code than success, nothing is said of the directory. *)
LEMMA ErrorRest ==
    ASSUME NEW e \in Errs, e # "NONE", Return(e), faults' = 0 => Tidy(Driver', InView', 1, 0)
    PROVE  Rest'
  <1>1. res'.err = e  BY DEF Return
  <1>2. ResOk'  BY <1>1 DEF ResOk
  <1> QED BY <1>2, ReturnRest

LEMMA FailsFine ==
    ASSUME IInv, Looks, NEW o, Fails(o) PROVE Fine
  <1>1. faults' = faults + 1 /\ Return("IO") /\ faults \in Nat
    BY Constants DEF Fails, Took, IInv, Ground, MediumFits
  <1>2. Rest'  BY <1>1, ErrorRest DEF Errs
  <1> QED BY <1>2, LooksFine

(* A call that goes on elsewhere, or at the next slot. *)
LEMMA GotoRest ==
    ASSUME CallOk, pc # "idle", InView' = InView, NEW l \in Pcs, l \notin {"idle", "next"}, NEW c \in Calls, Goto(l, c),
           c.op = call.op, c.n = call.n, c.pos < InView, call.op = "sync" => l = "flush",
           call.n \in Names \/ l = "flush",
           c.left = 0 \/ l \in {"parse", "fill", "clear"},
           c.cnt = 0 \/ l \in {"room", "grow", "growSync", "clear"}
    PROVE  /\ CallOk' /\ ResOk' /\ Place' = l /\ call' = c
           /\ PlaceOk' /\ TidyOk' => Rest'
  <1>1. pc' = l /\ call' = c /\ res' = NoRes  BY DEF Goto, CallOk
  <1>2. Place' = l  BY <1>1 DEF Place
  <1>3. ResOk'  BY <1>1 DEF ResOk, NoRes
  <1>4. CallOk'  BY <1>1, <1>2 DEF CallOk
  <1> QED BY <1>1, <1>2, <1>3, <1>4 DEF Rest

LEMMA AdvanceRest ==
    ASSUME Ground, CallOk, pc \notin {"idle", "flush"}, InView' = InView, NEW l \in Walks, NEW c \in Calls, Advance(l, c),
           c.op = call.op, c.n = call.n, c.pos = call.pos,
           c.left = 0 \/ l \in {"parse", "fill"}, c.cnt = 0 \/ l = "room"
    PROVE  /\ CallOk' /\ ResOk' /\ Place' = l /\ At' = call.pos + 1
           /\ call'.op = call.op /\ call'.n = call.n /\ call'.loc = c.loc /\ call'.left = c.left
           /\ call'.match = c.match /\ call'.crc = c.crc /\ call'.cnt = c.cnt /\ call'.eod = c.eod
           /\ PlaceOk' /\ TidyOk' => Rest'
  <1>1. PICK n \in 1 .. MaxClust : InView = n * ClustSlots  BY GroundIs
  <1>2. call.pos \in Nat /\ call.pos < InView /\ call.pos \in Slots /\ InView \in Nat /\ InView <= Size /\ res = NoRes
        /\ call.op \in Ops /\ call.op # "sync" /\ call.n \in Names
    BY GroundIs, SlotIs DEF CallOk, Calls, Counts
  <1>3. ASSUME (call.pos + 1) % ClustSlots # 0 PROVE call.pos + 1 < InView
    <2>1. call.pos + 1 # n * ClustSlots
      <3>1. \A m, k \in Nat : k > 0 => (m * k) % k = 0
        <4> TAKE m, k \in Nat
        <4> HAVE k > 0
        <4>1. m * k \in Nat /\ k * m = m * k  OBVIOUS
        <4> DEFINE x == m * k
        <4>2. \A y \in Nat : y = k * (y \div k) + (y % k) /\ y % k \in 0 .. (k - 1)  OBVIOUS
        <4>3. x \div k = m
          <5>1. m * k <= x /\ x < (m + 1) * k  BY <4>1
          <5> QED BY <4>1, <5>1, Division
        <4>4. x = k * (x \div k) + (x % k) /\ x % k \in Nat  BY <4>1, <4>2
        <4>5. k * (x \div k) = x  BY <4>1, <4>3
        <4> DEFINE r == x % k
        <4>6. x = x + r /\ r \in Nat /\ x \in Nat  BY <4>1, <4>4, <4>5
        <4> HIDE DEF x, r
        <4>7. r = 0  BY <4>6
        <4> QED BY <4>7 DEF r, x
      <3>2. (n * ClustSlots) % ClustSlots = 0  BY <3>1, Constants
      <3> QED BY <1>3, <3>2
    <2>2. call.pos + 1 <= InView  BY <1>2
    <2> QED BY <1>1, <1>2, <2>1, <2>2
  <1>4. CASE (call.pos + 1) % ClustSlots # 0
    <2>1. pc' = l /\ call' = [c EXCEPT !.pos = @ + 1] /\ res' = res  BY <1>4 DEF Advance, Goto
    <2>2. call.pos + 1 \in Slots /\ call.pos + 1 < InView  BY <1>2, <1>3, <1>4, SlotIs
    <2> DEFINE x == call.pos + 1
    <2>3. call' = [c EXCEPT !.pos = x] /\ x \in Slots  BY <2>1, <2>2
    <2> HIDE DEF x
    <2>4. /\ call' \in Calls /\ call'.pos = x
          /\ call'.op = c.op /\ call'.n = c.n /\ call'.loc = c.loc /\ call'.left = c.left
          /\ call'.match = c.match /\ call'.crc = c.crc /\ call'.cnt = c.cnt /\ call'.eod = c.eod
      BY <2>3 DEF Calls
    <2>5. Place' = l /\ At' = call'.pos  BY <2>1 DEF Place, At, Walks
    <2>6. call'.pos = call.pos + 1 /\ call'.pos < InView  BY <2>2, <2>4 DEF x
    <2>7. ResOk'  BY <1>2, <2>1 DEF ResOk, NoRes
    <2>8. l \in Pcs /\ l \notin {"idle", "flush", "next", "grow", "growSync", "clear"}  BY DEF Pcs, Walks
    <2>9. CallOk'  BY <1>2, <2>1, <2>4, <2>5, <2>6, <2>8 DEF CallOk
    <2> QED BY <1>2, <2>4, <2>5, <2>6, <2>7, <2>9 DEF Rest
  <1>5. CASE (call.pos + 1) % ClustSlots = 0
    <2>1. pc' = "next" /\ call' = [c EXCEPT !.then = l] /\ res' = res  BY <1>2, <1>5 DEF Advance, Goto
    <2>4. /\ call' \in Calls /\ call'.pos = c.pos /\ call'.then = l
          /\ call'.op = c.op /\ call'.n = c.n /\ call'.loc = c.loc /\ call'.left = c.left
          /\ call'.match = c.match /\ call'.crc = c.crc /\ call'.cnt = c.cnt /\ call'.eod = c.eod
      BY <2>1 DEF Calls
    <2>5. Place' = l /\ At' = call.pos + 1  BY <2>1, <2>4 DEF Place, At
    <2>7. ResOk'  BY <1>2, <2>1 DEF ResOk, NoRes
    <2>9. CallOk'  BY <1>2, <2>1, <2>4, <2>5 DEF CallOk, Pcs
    <2> QED BY <1>2, <2>4, <2>5, <2>7, <2>9 DEF Rest
  <1> QED BY <1>4, <1>5

LEMMA UnchangedLooks ==
    ASSUME MediumFits, UNCHANGED <<disk, win, faults>> PROVE Looks /\ Stays /\ faults' = faults
  <1>1. \A t \in Sects : View(t)' = View(t)  BY DEF View
  <1>2. MediumFits'  BY <1>1 DEF MediumFits, WindowFits
  <1>3. Stays  BY MediumIs
  <1> QED BY <1>1, <1>2, <1>3, StillIs DEF Looks, Calm

LEMMA SlotLooks ==
    ASSUME IInv, NEW o \in UpdateBuf(SectOf(call.pos)), Took(o)
    PROVE  /\ Looks /\ call.pos \in Slots
           /\ o.ok => o.win.buf[call.pos] = Driver[call.pos] /\ faults' = faults
  <1>1. call.pos \in Slots /\ MediumFits  BY DEF IInv, Rest, CallOk, Calls, Ground
  <1>2. SectOf(call.pos) \in Sects  BY <1>1, SectorsFit
  <1>3. Looks /\ (o.ok => o.win.buf = View(SectOf(call.pos)))  BY <1>1, <1>2, UpdateLooks
  <1>4. View(SectOf(call.pos))[call.pos] = Driver[call.pos]  BY <1>1 DEF Driver
  <1>5. o.ok => faults' = faults  BY DEF Took
  <1> QED BY <1>1, <1>3, <1>4, <1>5

(* What SearchIsRight says of a step. *)
Right ==
    (Searching /\ ~Searching' /\ faults' = faults) =>
        /\ (faults = 0 /\ (pc' = "release" \/ res'.err = "NONE")) => FindsName
        /\ (pc' = "alloc" \/ res'.err \in {"EOF", "DENIED"}) => call.n \notin Seen
        /\ res'.err = "BROKEN" => faults > 0

LEMMA BeginFine ==
    ASSUME IInv, NEW op \in Ops \ {"sync"}, NEW n \in Names, Begin(op, n) PROVE Fine
  <1>1. pc = "idle" /\ pc' = "search" /\ call' = [NoCall EXCEPT !.op = op, !.n = n] /\ res' = NoRes
        /\ UNCHANGED <<disk, win, faults>>
    BY DEF Begin
  <1>2. Looks /\ faults' = faults  BY <1>1, UnchangedLooks DEF IInv, Ground
  <1>3. Driver' = Driver /\ InView' = InView /\ (Rest' => Fine)  BY <1>2, LooksFine
  <1>4. /\ call' \in Calls /\ call'.op = op /\ call'.n = n /\ call'.pos = 0 /\ call'.left = 0 /\ call'.cnt = 0
    BY <1>1, NoCallIs DEF NoCall, Calls
  <1>5. Place' = "search" /\ At' = 0 /\ Place = "idle"  BY <1>1, <1>4 DEF Place, At
  <1>6. 0 < InView  BY GroundIs DEF IInv, Counts
  <1>7. CallOk'  BY <1>1, <1>3, <1>4, <1>5, <1>6 DEF CallOk, Pcs
  <1>8. ResOk'  BY <1>1 DEF ResOk, NoRes
  <1>9. SearchOk(Driver', call', At')  BY <1>5, PassedNone DEF SearchOk
  <1>10. PlaceOk'  BY <1>5, <1>9 DEF PlaceOk
  <1>11. TidyOk'  BY <1>2, <1>3, <1>5 DEF TidyOk, IInv, Rest
  <1> QED BY <1>3, <1>7, <1>8, <1>10, <1>11 DEF Rest

LEMMA BeginSyncFine ==
    ASSUME IInv, BeginSync PROVE Fine
  <1>1. pc = "idle" /\ pc' = "flush" /\ call' = [NoCall EXCEPT !.op = "sync"] /\ res' = NoRes
        /\ UNCHANGED <<disk, win, faults>>
    BY DEF BeginSync
  <1>2. Looks /\ faults' = faults  BY <1>1, UnchangedLooks DEF IInv, Ground
  <1>3. Driver' = Driver /\ InView' = InView /\ (Rest' => Fine)  BY <1>2, LooksFine
  <1>4. /\ call' \in Calls /\ call'.op = "sync" /\ call'.pos = 0 /\ call'.left = 0 /\ call'.cnt = 0
    BY <1>1, NoCallIs DEF NoCall, Calls, Ops
  <1>5. Place' = "flush" /\ Place = "idle"  BY <1>1 DEF Place
  <1>6. 0 < InView  BY GroundIs DEF IInv, Counts
  <1>7. CallOk'  BY <1>1, <1>3, <1>4, <1>5, <1>6 DEF CallOk, Pcs, Ops
  <1>8. ResOk'  BY <1>1 DEF ResOk, NoRes
  <1>9. FlushOk(Driver', call', faults')  BY <1>4 DEF FlushOk
  <1>10. PlaceOk'  BY <1>5, <1>9 DEF PlaceOk
  <1>11. TidyOk'  BY <1>2, <1>3, <1>5 DEF TidyOk, IInv, Rest
  <1> QED BY <1>3, <1>7, <1>8, <1>10, <1>11 DEF Rest

(* A search that comes to its end. *)
LEMMA MissedFine ==
    ASSUME IInv, Looks, faults' = faults, pc \notin {"idle", "flush"}, Place = "search", Missing(Driver, call.n), Missed
    PROVE  Fine /\ Right
  <1>1. Driver' = Driver /\ InView' = InView /\ (Rest' => Fine)  BY LooksFine
  <1>2. CallOk /\ Ground /\ TidyOk  BY DEF IInv, Rest
  <1>3. faults' = 0 => Tidy(Driver', InView', 1, 0)  BY <1>1, <1>2 DEF TidyOk
  <1>4. call.op \in Ops \ {"sync"} /\ call.n \in Names /\ res = NoRes  BY <1>2 DEF CallOk
  <1>5. call.n \notin NamesIn(Driver) /\ Seen = NamesIn(Driver)
    BY <1>2, GroundIs DEF Missing, NamesIn, Whole
  <1>6. CASE call.op \in {"add", "mkdir"}
    <2> DEFINE c == [NoCall EXCEPT !.op = call.op, !.n = call.n]
    <2>1. Goto("alloc", c)  BY <1>6 DEF Missed
    <2>2. /\ c \in Calls /\ c.op = call.op /\ c.n = call.n /\ c.pos = 0 /\ c.left = 0 /\ c.cnt = 0 /\ c.eod = FALSE
      BY <1>4, NoCallIs DEF NoCall, Calls
    <2> HIDE DEF c
    <2>3. 0 < InView  BY <1>2, GroundIs DEF Counts
    <2>4. Place' = "alloc" /\ call' = c /\ (PlaceOk' /\ TidyOk' => Rest')
      BY <1>1, <1>2, <1>4, <1>6, <2>1, <2>2, <2>3, GotoRest DEF Pcs
    <2>5. AllocOk(Driver', call')  BY <1>1, <1>6, <2>2, <2>4, Zenon DEF AllocOk
    <2>6. PlaceOk'  BY <2>4, <2>5 DEF PlaceOk
    <2>7. TidyOk'  BY <1>3, <2>4 DEF TidyOk
    <2>8. res'.err = "none"  BY <1>4, <2>1 DEF Goto, NoRes
    <2>9. pc' = "alloc"  BY <2>1 DEF Goto
    <2>10. Right  BY <1>5, <2>8, <2>9 DEF Right
    <2> QED BY <1>1, <2>4, <2>6, <2>7, <2>10
  <1>7. CASE call.op = "find"
    <2>1. Return("DENIED")  BY <1>7 DEF Missed
    <2>2. Rest'  BY <1>3, <2>1, ErrorRest DEF Errs
    <2>3. res'.err = "DENIED" /\ pc' = "idle"  BY <2>1 DEF Return
    <2>4. Right  BY <1>5, <2>3 DEF Right
    <2> QED BY <1>1, <2>2, <2>4
  <1>8. CASE call.op = "remove"
    <2>1. Return("EOF")  BY <1>8 DEF Missed
    <2>2. Rest'  BY <1>3, <2>1, ErrorRest DEF Errs
    <2>3. res'.err = "EOF" /\ pc' = "idle"  BY <2>1 DEF Return
    <2>4. Right  BY <1>5, <2>3 DEF Right
    <2> QED BY <1>1, <2>2, <2>4
  <1> QED BY <1>4, <1>6, <1>7, <1>8 DEF Ops

(* A search that has found its name, or a short name like it. *)
LEMMA FoundFine ==
    ASSUME IInv, Looks, faults' = faults, pc \notin {"idle", "flush"}, Place \in {"search", "parse"}, pc # "next",
           NEW c \in Calls, c.op = call.op, c.n = call.n, c.pos = call.pos, c.left = 0, c.cnt = 0, Found(c),
           Passed(Driver, c.n, c.loc),
           \/ /\ Whole(Driver, c.loc) /\ Driver[c.loc].n = c.n /\ c.pos = Reach(Driver, c.loc) /\ c.loc = call.loc
              /\ faults = 0 => Tidy(Driver, InView, 1, 0)
           \/ c.loc = c.pos /\ SfnAt(Driver, c.pos) /\ Short[Driver[c.pos].n] = Short[c.n] /\ faults > 0
    PROVE  Fine /\ Right
  <1>1. Driver' = Driver /\ InView' = InView /\ (Rest' => Fine)  BY LooksFine
  <1>2. CallOk /\ Ground  BY DEF IInv, Rest
  <1>3. faults' = 0 => Tidy(Driver', InView', 1, 0)  BY <1>1
  <1>4. /\ call.op \in Ops \ {"sync"} /\ call.n \in Names /\ res = NoRes /\ call.pos < InView
        /\ call.loc \in Slots /\ c.loc \in Slots
    BY <1>2 DEF CallOk, Calls
  <1>5. faults = 0 => FindsName /\ call.n \in NamesIn(Driver)
    <2> SUFFICES ASSUME faults = 0 PROVE FindsName /\ call.n \in NamesIn(Driver)
      OBVIOUS
    <2>0. ~(faults > 0)  OBVIOUS
    <2>1. Whole(Driver, call.loc) /\ Driver[call.loc].n = call.n /\ call.pos = Reach(Driver, call.loc)
      BY <2>0, Zenon
    <2>2. Driver \in Dirs /\ InView \in Counts /\ Good(Driver, InView)  BY <1>2, GroundIs
    <2>3. Stands(Driver, InView, call.n, call.loc)  BY <1>4, <2>1, <2>2, StandsIs
    <2>4. call.pos = call.loc + Frags[call.n]  BY <2>1 DEF Reach
    <2> QED BY <1>4, <2>1, <2>3, <2>4 DEF FindsName, NamesIn
  <1>6. CASE call.op = "remove"
    <2>1. Goto("release", c)  BY <1>6 DEF Found
    <2>2. Place' = "release" /\ call' = c /\ (PlaceOk' /\ TidyOk' => Rest')
      BY <1>1, <1>2, <1>4, <2>1, GotoRest DEF Pcs
    <2>3. FoundOk(Driver', call', faults')  BY <1>1, <1>6, <2>2 DEF FoundOk
    <2>4. PlaceOk'  BY <2>2, <2>3 DEF PlaceOk
    <2>5. TidyOk'  BY <1>3, <2>2 DEF TidyOk
    <2>6. res'.err = "none" /\ pc' = "release"  BY <1>4, <2>1 DEF Goto, NoRes
    <2>7. Right  BY <1>5, <2>6 DEF Right
    <2> QED BY <1>1, <2>2, <2>4, <2>5, <2>7
  <1>7. CASE call.op # "remove"
    <2>1. Return("NONE")  BY <1>7 DEF Found
    <2>2. res'.err = "NONE" /\ res'.op = call.op /\ res'.n = call.n /\ pc' = "idle"  BY <2>1 DEF Return
    <2>3. ResOk'
      <3>1. res'.err \in Errs  BY <2>2 DEF Errs
      <3>2. faults' = 0 => res'.n \in NamesIn(Driver')  BY <1>1, <1>5, <2>2
      <3> QED BY <1>7, <2>2, <3>1, <3>2 DEF ResOk
    <2>4. Rest'  BY <1>3, <2>1, <2>3, ReturnRest DEF Errs
    <2>5. Right  BY <1>5, <2>2 DEF Right
    <2> QED BY <1>1, <2>4, <2>5
  <1> QED BY <1>6, <1>7

LEMMA RightOtherwise ==
    /\ ~Searching => Right
    /\ Searching' => Right
    /\ faults' # faults => Right
    /\ Searching' <=> Place' \in {"search", "parse"}
    /\ Searching <=> Place \in {"search", "parse"}
  <1>1. (Searching <=> Place \in {"search", "parse"}) /\ (Searching' <=> Place' \in {"search", "parse"})
    BY DEF Searching, Place
  <1> QED BY <1>1 DEF Right

LEMMA FailsRight == ASSUME IInv, NEW o, Fails(o) PROVE Right
  <1>1. faults' = faults + 1 /\ faults \in Nat  BY Constants DEF Fails, Took, IInv, Ground, MediumFits
  <1>2. faults' # faults  BY <1>1
  <1> QED BY <1>2, RightOtherwise

(* A search that goes on with the next slot. *)
LEMMA SkipsFine ==
    ASSUME IInv, Looks, faults' = faults, pc # "next", pc \notin {"idle", "flush"}, Place \in {"search", "parse"},
           NEW c \in Calls, c.op = call.op, c.n = call.n, c.pos = call.pos, c.left = 0, c.cnt = 0,
           Advance("search", c), Passed(Driver, call.n, call.pos + 1)
    PROVE  Fine /\ Right
  <1>1. Driver' = Driver /\ InView' = InView /\ (Rest' => Fine)  BY LooksFine
  <1>2. CallOk /\ Ground /\ TidyOk  BY DEF IInv, Rest
  <1>3. faults' = 0 => Tidy(Driver', InView', 1, 0)  BY <1>1, <1>2 DEF TidyOk
  <1>4. /\ Place' = "search" /\ At' = call.pos + 1 /\ call'.n = c.n
        /\ PlaceOk' /\ TidyOk' => Rest'
    BY <1>1, <1>2, AdvanceRest DEF Walks
  <1>5. SearchOk(Driver', call', At')  BY <1>1, <1>4 DEF SearchOk
  <1>6. PlaceOk'  BY <1>4, <1>5 DEF PlaceOk
  <1>7. TidyOk'  BY <1>3, <1>4 DEF TidyOk
  <1>8. Right  BY <1>4, RightOtherwise
  <1> QED BY <1>1, <1>4, <1>6, <1>7, <1>8

LEMMA BrokenFine ==
    ASSUME IInv, Looks, faults' = faults, faults > 0, Return("BROKEN") PROVE Fine /\ Right
  <1>1. res'.err = "BROKEN" /\ pc' = "idle"  BY DEF Return
  <1>2. faults' # 0  BY Constants DEF IInv, Ground, MediumFits
  <1>3. Rest'  BY <1>2, ErrorRest DEF Errs
  <1>4. Right  BY <1>1 DEF Right
  <1> QED BY <1>3, <1>4, LooksFine

LEMMA SearchFine == ASSUME IInv, Search PROVE Fine /\ Right
  <1> DEFINE s == Driver[call.pos]
             c == [call EXCEPT !.loc = call.pos]
  <1>1. /\ pc = "search" /\ Place = "search" /\ At = call.pos
        /\ CallOk /\ Ground /\ TidyOk /\ PlaceOk
    BY DEF Search, Place, At, IInv, Rest
  <1>2. /\ call.pos \in Slots /\ call.loc \in Slots /\ call.pos < InView /\ call.n \in Names /\ call \in Calls
        /\ call.left = 0 /\ call.cnt = 0 /\ call.op \in Ops \ {"sync"}
    BY <1>1 DEF CallOk, Calls
  <1>3. Passed(Driver, call.n, call.pos)  BY <1>1 DEF PlaceOk, SearchOk
  <1>4. Driver \in Dirs /\ InView \in Counts /\ Good(Driver, InView) /\ faults \in Nat
    BY <1>1, GroundIs, Constants
  <1>5. faults = 0 => Tidy(Driver, InView, 1, 0)  BY <1>1, Zenon DEF TidyOk
  <1>6. PICK o \in UpdateBuf(SectOf(call.pos)) :
           \/ Fails(o)
           \/ /\ o.ok /\ Took(o)
              /\ LET z == o.win.buf[call.pos]
                 IN  \/ z.mark = "last" /\ Missed
                     \/ z.mark = "free" /\ Advance("search", call)
                     \/ /\ z.mark = "used" /\ IsHead(z)
                        /\ Goto("parse", [c EXCEPT !.left = z.k, !.crc = Short[z.n],
                                                   !.match = (z.k = Frags[call.n])])
                     \/ /\ z.mark = "used" /\ z.kind \in {"lfn", "junk"} /\ ~IsHead(z)
                        /\ Return("BROKEN")
                     \/ /\ z.mark = "used" /\ z.kind \in {"sfn", "alien"}
                        /\ IF z.kind = "sfn" /\ Short[z.n] = Short[call.n]
                           THEN Found(c) ELSE Advance("search", c)
    BY Zenon DEF Search
  <1>7. CASE Fails(o)
    <2>1. Took(o)  BY <1>7 DEF Fails
    <2>2. Looks  BY <2>1, SlotLooks
    <2> QED BY <1>7, <2>2, FailsFine, FailsRight
  <1>8. CASE o.ok /\ Took(o)
    <2>1. Looks /\ faults' = faults /\ o.win.buf[call.pos] = s  BY <1>8, SlotLooks
    <2>2. Driver' = Driver /\ InView' = InView /\ (Rest' => Fine)  BY <2>1, LooksFine
    <2>3. s.mark \in Marks /\ s.kind \in Kinds /\ (HeadAt(Driver, call.pos) => s.n \in Names /\ Frags[s.n] \in 1 .. 20)
      BY <1>2, <1>4, SlotShapes
    <2>4. c \in Calls /\ c.op = call.op /\ c.n = call.n /\ c.pos = call.pos /\ c.loc = call.pos /\ c.left = 0 /\ c.cnt = 0
      BY <1>2 DEF Calls
    <2> HIDE DEF s, c
    <2>5. CASE s.mark = "last" /\ Missed
      <3>1. Missing(Driver, call.n)
        <4>1. call.pos \in Nat  BY <1>2, SlotIs
        <4> QED BY <1>2, <1>3, <1>4, <2>5, <4>1, SearchMisses DEF s
      <3> QED BY <1>1, <2>1, <2>5, <3>1, MissedFine
    <2>6. CASE s.mark = "free" /\ Advance("search", call)
      <3>1. Driver[call.pos].mark # "last" /\ ~HeadAt(Driver, call.pos) /\ ~SfnAt(Driver, call.pos)
        BY <2>6 DEF s, HeadAt, SfnAt
      <3>2. Passed(Driver, call.n, call.pos + 1)  BY <1>2, <1>3, <1>4, <3>1, SearchSkips
      <3> QED BY <1>1, <1>2, <2>1, <2>6, <3>2, SkipsFine
    <2>7. CASE /\ s.mark = "used" /\ IsHead(s)
               /\ Goto("parse", [c EXCEPT !.left = s.k, !.crc = Short[s.n], !.match = (s.k = Frags[call.n])])
      <3> DEFINE x == s.k
                 y == Short[s.n]
                 z == (s.k = Frags[call.n])
                 e == [c EXCEPT !.left = x, !.crc = y, !.match = z]
      <3>1. HeadAt(Driver, call.pos) /\ s.kind = "lfn" /\ s.k = Frags[s.n]  BY <2>7 DEF HeadAt, IsHead, s
      <3>2. x \in Nat /\ y \in {0} \cup {Short[n] : n \in Names} /\ z \in BOOLEAN
        BY <2>3, <3>1
      <3>3. z = (Frags[Driver[call.pos].n] = Frags[call.n]) /\ x = Frags[Driver[call.pos].n] /\ y = Short[Driver[call.pos].n]
        BY <3>1 DEF s
      <3>4. Goto("parse", e)  BY <2>7
      <3> HIDE DEF x, y, z
      <3>5. /\ e \in Calls /\ e.op = call.op /\ e.n = call.n /\ e.pos = call.pos /\ e.loc = call.pos /\ e.left = x
            /\ e.crc = y /\ e.match = z /\ e.cnt = 0
        BY <2>4, <3>2 DEF Calls
      <3> HIDE DEF e
      <3>6. Place' = "parse" /\ call' = e /\ (PlaceOk' /\ TidyOk' => Rest')
        BY <1>1, <1>2, <2>2, <3>4, <3>5, GotoRest DEF Pcs
      <3>7. At' = call.pos  BY <3>4, <3>5 DEF At, Goto
      <3>8. Parsing(Driver, call.n, call.pos, x, z, call.pos)
        BY <1>2, <1>3, <1>4, <3>1, <3>3, ParseBegins
      <3>9. ParseOk(Driver', call', At')  BY <2>2, <3>3, <3>5, <3>6, <3>7, <3>8 DEF ParseOk
      <3>10. PlaceOk'  BY <3>6, <3>9 DEF PlaceOk
      <3>11. TidyOk'  BY <1>5, <2>1, <2>2, <3>6 DEF TidyOk
      <3>12. Right  BY <3>6, RightOtherwise
      <3> QED BY <2>2, <3>6, <3>10, <3>11, <3>12
    <2>8. CASE /\ s.mark = "used" /\ s.kind \in {"lfn", "junk"} /\ ~IsHead(s) /\ Return("BROKEN")
      <3>1. faults # 0
        <4> SUFFICES ASSUME faults = 0 PROVE FALSE  OBVIOUS
        <4>1. Whole(Driver, call.pos)  BY <1>2, <1>3, <1>4, <1>5, <2>8, TidySearch DEF s
        <4> QED BY <2>8, <4>1 DEF s, Whole, HeadAt
      <3>2. faults > 0  BY <1>4, <3>1
      <3> QED BY <2>1, <2>8, <3>2, BrokenFine
    <2>9. CASE s.mark = "used" /\ s.kind = "sfn" /\ Short[s.n] = Short[call.n] /\ Found(c)
      <3>1. SfnAt(Driver, call.pos) /\ ~HeadAt(Driver, call.pos)  BY <1>2, <2>9 DEF s, SfnAt, HeadAt
      <3>2. faults # 0
        <4> SUFFICES ASSUME faults = 0 PROVE FALSE  OBVIOUS
        <4>1. Whole(Driver, call.pos)  BY <1>2, <1>3, <1>4, <1>5, <2>9, TidySearch DEF s
        <4> QED BY <3>1, <4>1 DEF Whole
      <3>3. faults > 0  BY <1>4, <3>2
      <3>4. Passed(Driver, c.n, c.loc) /\ c.loc = c.pos /\ SfnAt(Driver, c.pos) /\ Short[Driver[c.pos].n] = Short[c.n]
        BY <1>3, <2>4, <2>9, <3>1 DEF s
      <3> QED BY <1>1, <2>1, <2>4, <2>9, <3>3, <3>4, FoundFine
    <2>10. CASE /\ s.mark = "used" /\ s.kind \in {"sfn", "alien"} /\ ~(s.kind = "sfn" /\ Short[s.n] = Short[call.n])
                /\ Advance("search", c)
      <3>1. Driver[call.pos].mark # "last" /\ ~HeadAt(Driver, call.pos)
            /\ (SfnAt(Driver, call.pos) => Driver[call.pos].n # call.n)
        BY <2>10 DEF s, HeadAt, SfnAt
      <3>2. Passed(Driver, call.n, call.pos + 1)  BY <1>2, <1>3, <1>4, <3>1, SearchSkips
      <3> QED BY <1>1, <2>1, <2>4, <2>10, <3>2, SkipsFine
    <2>11. \/ s.mark = "last" /\ Missed
           \/ s.mark = "free" /\ Advance("search", call)
           \/ /\ s.mark = "used" /\ IsHead(s)
              /\ Goto("parse", [c EXCEPT !.left = s.k, !.crc = Short[s.n], !.match = (s.k = Frags[call.n])])
           \/ /\ s.mark = "used" /\ s.kind \in {"lfn", "junk"} /\ ~IsHead(s)
              /\ Return("BROKEN")
           \/ /\ s.mark = "used" /\ s.kind \in {"sfn", "alien"}
              /\ IF s.kind = "sfn" /\ Short[s.n] = Short[call.n]
                 THEN Found(c) ELSE Advance("search", c)
      <3>1. ~Fails(o)  BY <1>8 DEF Fails
      <3> QED BY <1>6, <2>1, <3>1, Zenon
    <2> QED BY <2>5, <2>6, <2>7, <2>8, <2>9, <2>10, <2>11
  <1> QED BY <1>6, <1>7, <1>8

LEMMA ParseFine == ASSUME IInv, Parse PROVE Fine /\ Right
  <1> DEFINE s == Driver[call.pos]
             same == s.kind = (IF call.left > 0 THEN "lfn" ELSE "sfn") /\ Short[s.n] = call.crc
             m == call.match /\ s.n = call.n /\ s.k = call.left
             c == [call EXCEPT !.left = @ - 1, !.match = m]
             e == [call EXCEPT !.crc = 0]
             h == Driver[call.loc].n
  <1>1. /\ pc = "parse" /\ Place = "parse" /\ At = call.pos
        /\ CallOk /\ Ground /\ TidyOk /\ PlaceOk
    BY DEF Parse, Place, At, IInv, Rest
  <1>2. /\ call.pos \in Slots /\ call.loc \in Slots /\ call.pos < InView /\ call.n \in Names /\ call \in Calls
        /\ call.cnt = 0 /\ call.op \in Ops \ {"sync"} /\ call.left \in Nat /\ call.match \in BOOLEAN
    BY <1>1 DEF CallOk, Calls
  <1>3. Parsing(Driver, call.n, call.loc, call.left, call.match, call.pos) /\ call.crc = Short[h]
    BY <1>1 DEF PlaceOk, ParseOk
  <1>4. Driver \in Dirs /\ InView \in Counts /\ Good(Driver, InView) /\ faults \in Nat
    BY <1>1, GroundIs, Constants
  <1>5. faults = 0 => Tidy(Driver, InView, 1, 0)  BY <1>1, Zenon DEF TidyOk
  <1>6. PICK o \in UpdateBuf(SectOf(call.pos)) :
           \/ Fails(o)
           \/ /\ o.ok /\ Took(o)
              /\ LET z == o.win.buf[call.pos]
                     eq == z.kind = (IF call.left > 0 THEN "lfn" ELSE "sfn") /\ Short[z.n] = call.crc
                 IN  \/ ~eq /\ Return("BROKEN")
                     \/ /\ eq /\ call.left > 0
                        /\ Advance("parse", [call EXCEPT !.left = @ - 1, !.match = @ /\ FragMatches(z, call)])
                     \/ eq /\ call.left = 0 /\ z.mark # "used" /\ Return("BROKEN")
                     \/ /\ eq /\ call.left = 0 /\ z.mark = "used"
                        /\ IF call.match THEN Found(call) ELSE Advance("search", e)
    BY Zenon DEF Parse
  <1>7. CASE Fails(o)
    <2>1. Took(o)  BY <1>7 DEF Fails
    <2>2. Looks  BY <2>1, SlotLooks
    <2> QED BY <1>7, <2>2, FailsFine, FailsRight
  <1>8. CASE o.ok /\ Took(o)
    <2>1. Looks /\ faults' = faults /\ o.win.buf[call.pos] = s  BY <1>8, SlotLooks
    <2>2. Driver' = Driver /\ InView' = InView /\ (Rest' => Fine)  BY <2>1, LooksFine
    <2>3. /\ HeadAt(Driver, call.loc) /\ h \in Names /\ Frags[h] \in 1 .. 20 /\ call.left \in 0 .. Frags[h]
          /\ call.pos < InView /\ call.loc <= call.pos /\ call.loc \in Nat /\ call.pos \in Nat
          /\ Whole(Driver, call.loc) => s = Part(h, Frags[h] - call.left)
      BY <1>3, <1>4, ParseIs
    <2>4. Passed(Driver, call.n, call.loc)  BY <1>3 DEF Parsing
    <2>5. faults = 0 => same /\ s.mark = "used"
      <3> SUFFICES ASSUME faults = 0 PROVE same /\ s.mark = "used"  OBVIOUS
      <3>1. Driver[call.loc].mark = "used" /\ call.loc < InView
        <4>1. InView \in Nat  BY <1>4 DEF Counts
        <4> QED BY <2>3, <4>1 DEF HeadAt
      <3>2. Whole(Driver, call.loc)  BY <1>2, <1>4, <1>5, <2>4, <3>1, TidySearch
      <3>3. s = Part(h, Frags[h] - call.left)  BY <2>3, <3>2
      <3> DEFINE i == Frags[h] - call.left
      <3>4. i \in 0 .. Frags[h] /\ (i < Frags[h] <=> call.left > 0)  BY <2>3
      <3>5. s.mark = "used" /\ s.n = h /\ s.kind = (IF i < Frags[h] THEN "lfn" ELSE "sfn")
        BY <2>3, <3>3, <3>4, PartIs
      <3> HIDE DEF i, s, h
      <3> QED BY <1>3, <3>4, <3>5
    <2>6. \/ ~same /\ Return("BROKEN")
          \/ same /\ call.left > 0 /\ Advance("parse", c)
          \/ same /\ call.left = 0 /\ s.mark # "used" /\ Return("BROKEN")
          \/ same /\ call.left = 0 /\ s.mark = "used" /\ IF call.match THEN Found(call) ELSE Advance("search", e)
      <3>1. ~Fails(o)  BY <1>8 DEF Fails
      <3>2. LET eq == s.kind = (IF call.left > 0 THEN "lfn" ELSE "sfn") /\ Short[s.n] = call.crc
            IN  \/ ~eq /\ Return("BROKEN")
                \/ /\ eq /\ call.left > 0
                   /\ Advance("parse", [call EXCEPT !.left = @ - 1, !.match = @ /\ FragMatches(s, call)])
                \/ eq /\ call.left = 0 /\ s.mark # "used" /\ Return("BROKEN")
                \/ /\ eq /\ call.left = 0 /\ s.mark = "used"
                   /\ IF call.match THEN Found(call) ELSE Advance("search", e)
        BY <1>6, <2>1, <3>1, Zenon
      <3>3. [call EXCEPT !.left = @ - 1, !.match = @ /\ FragMatches(s, call)] = c
        <4>1. (call.match /\ FragMatches(s, call)) = m  BY <1>2 DEF FragMatches
        <4> QED BY <4>1, Zenon
      <3> QED BY <3>2, <3>3, Zenon
    <2> HIDE DEF same
    <2>7. CASE Return("BROKEN") /\ (~same \/ s.mark # "used")
      <3>1. faults > 0  BY <1>4, <2>5, <2>7
      <3> QED BY <2>1, <2>7, <3>1, BrokenFine
    <2>8. CASE same /\ call.left > 0 /\ Advance("parse", c)
      <3> HIDE DEF m
      <3>1. m \in BOOLEAN /\ call.left - 1 \in Nat  BY <1>2, <2>8 DEF m
      <3>2. /\ c \in Calls /\ c.op = call.op /\ c.n = call.n /\ c.pos = call.pos /\ c.loc = call.loc /\ c.cnt = 0
            /\ c.left = call.left - 1 /\ c.match = m /\ c.crc = call.crc
        BY <1>2, <3>1 DEF Calls
      <3> HIDE DEF c
      <3>3. /\ Place' = "parse" /\ At' = call.pos + 1 /\ call'.n = c.n /\ call'.loc = c.loc /\ call'.left = c.left
            /\ call'.match = c.match /\ call'.crc = c.crc /\ (PlaceOk' /\ TidyOk' => Rest')
        BY <1>1, <2>2, <2>8, <3>2, AdvanceRest DEF Walks
      <3>4. Parsing(Driver, call.n, call.loc, call.left - 1, m, call.pos + 1)
        BY <1>2, <1>3, <1>4, <2>8, ParseGoes DEF m
      <3>5. ParseOk(Driver', call', At')  BY <1>3, <2>2, <3>2, <3>3, <3>4 DEF ParseOk
      <3>6. PlaceOk'  BY <3>3, <3>5 DEF PlaceOk
      <3>7. TidyOk'  BY <1>5, <2>1, <2>2, <3>3 DEF TidyOk
      <3>8. Right  BY <3>3, RightOtherwise
      <3> QED BY <2>2, <3>3, <3>6, <3>7, <3>8
    <2>9. CASE same /\ call.left = 0 /\ s.mark = "used" /\ IF call.match THEN Found(call) ELSE Advance("search", e)
      <3>1. SfnAt(Driver, call.pos)
        <4>1. s.kind = "sfn"  BY <2>9 DEF same
        <4> QED BY <1>2, <2>9, <4>1 DEF SfnAt
      <3>2. Parsing(Driver, call.n, call.loc, 0, call.match, call.pos)  BY <1>3, <2>9
      <3>3. /\ Whole(Driver, call.loc) /\ Reach(Driver, call.loc) = call.pos
            /\ call.match => h = call.n
            /\ ~call.match => Passed(Driver, call.n, call.pos + 1)
        BY <1>2, <1>4, <3>1, <3>2, ParseEnds
      <3>4. CASE call.match /\ Found(call)
        BY <1>1, <1>2, <1>5, <2>1, <2>4, <2>9, <3>3, <3>4, FoundFine
      <3>5. CASE ~call.match /\ Advance("search", e)
        <4>1. e \in Calls /\ e.op = call.op /\ e.n = call.n /\ e.pos = call.pos /\ e.left = 0 /\ e.cnt = 0
          BY <1>2, <2>9 DEF Calls
        <4> HIDE DEF e
        <4> QED BY <1>1, <2>1, <3>3, <3>5, <4>1, SkipsFine
      <3> QED BY <2>9, <3>4, <3>5
    <2> QED BY <2>6, <2>7, <2>8, <2>9
  <1> QED BY <1>6, <1>7, <1>8

(* What is said of a place still holds when the medium follows, and of a    *)
(* call that differs in its slot only.                                      *)
Same(c, e) == /\ e.op = c.op /\ e.n = c.n /\ e.loc = c.loc /\ e.left = c.left
              /\ e.match = c.match /\ e.crc = c.crc /\ e.cnt = c.cnt /\ e.eod = c.eod

LEMMA RoomFollows ==
    ASSUME NEW d, NEW m, NEW c, NEW b, RoomOk(d, m, c, b), NEW m2, NEW c2, Same(c, c2),
           NamesIn(m2) \in {NamesIn(m), NamesIn(d)}
    PROVE  RoomOk(d, m2, c2, b)
  <1>1. c.n \notin NamesIn(d)  BY DEF RoomOk, Missing, NamesIn, Whole
  <1> QED BY <1>1 DEF RoomOk, Same

LEMMA FillFollows ==
    ASSUME NEW d \in Dirs, NEW v \in Counts, Good(d, v), NEW m, NEW c, NEW b \in Nat, FillOk(d, v, m, c, b), c.left \in Nat,
           c.n \in Names, NEW m2, NEW c2, Same(c, c2), NamesIn(m2) \in {NamesIn(m), NamesIn(d)}
    PROVE  FillOk(d, v, m2, c2, b) /\ b < v /\ c.n \notin NamesIn(d) /\ b <= First(c, b) + Frags[c.n]
  <1>1. Filling(d, v, c.n, First(c, b), b) /\ c.left <= Frags[c.n] /\ Frags[c.n] \in Nat
    BY Constants DEF FillOk
  <1>2. First(c, b) \in Nat /\ First(c, b) + Frags[c.n] < v  BY <1>1 DEF Filling
  <1>3. First(c, b) = b - (Frags[c.n] - c.left)  BY DEF First
  <1>4. v \in Nat  BY DEF Counts
  <1>5. b <= First(c, b) + Frags[c.n] /\ b < v  BY <1>1, <1>2, <1>3, <1>4
  <1>6. c.n \notin NamesIn(d)  BY <1>1, <1>5, FillingShapes
  <1> QED BY <1>5, <1>6 DEF FillOk, Same, First

LEMMA UnmarkFollows ==
    ASSUME NEW d \in Dirs, NEW v \in Counts, Good(d, v), NEW m, NEW c, c.loc \in Nat, NEW b \in Slots, NEW f,
           UnmarkOk(d, v, m, c, b, f), c.n \in Names, NEW m2, NEW c2, Same(c, c2), NamesIn(m2) \in {NamesIn(m), NamesIn(d)}
    PROVE  UnmarkOk(d, v, m2, c2, b, f) /\ b < v
  <1>1. HeadAt(d, b) => c.n \in NamesIn(d)  BY DEF UnmarkOk, Unmarking, NamesIn
  <1>2. b < v
    <2>1. b \in Nat /\ v \in Nat /\ b <= c.loc /\ c.loc < v  BY SlotIs DEF Counts, UnmarkOk, Unmarking
    <2> QED BY <2>1
  <1> QED BY <1>1, <1>2 DEF UnmarkOk, Same

LEMMA NextInChainFine == ASSUME IInv, NextInChain PROVE Fine /\ Right
  <1> DEFINE more == call.pos + 1 < InView
             c == [call EXCEPT !.pos = @ + 1, !.then = "none"]
  <1>1. /\ pc = "next" /\ Place = call.then /\ At = call.pos + 1 /\ MediumFits
        /\ CallOk /\ Ground /\ TidyOk /\ PlaceOk
    BY DEF NextInChain, Place, At, IInv, Rest, Ground
  <1>2. /\ call.pos \in Slots /\ call.pos \in Nat /\ call.loc \in Slots /\ call.loc \in Nat /\ call.pos < InView
        /\ call.n \in Names /\ call \in Calls
        /\ call.op \in Ops \ {"sync"} /\ call.left \in Nat /\ call.then \in Walks
        /\ call.left = 0 \/ Place \in {"parse", "fill", "clear"}
        /\ call.cnt = 0 \/ Place \in {"room", "grow", "growSync", "clear"}
    BY <1>1, SlotIs DEF CallOk, Calls
  <1>4. Driver \in Dirs /\ InView \in Counts /\ Good(Driver, InView) /\ faults \in Nat /\ InView \in Nat /\ InView <= Size
    BY <1>1, GroundIs, Constants DEF Counts
  <1>6. PICK o \in UpdateBuf(OtherSect) :
           \/ Fails(o)
           \/ /\ o.ok /\ Took(o)
              /\ \/ call.pos + 1 < o.win.buf.links * ClustSlots /\ Goto(call.then, c)
                 \/ ~(call.pos + 1 < o.win.buf.links * ClustSlots) /\ call.then = "room" /\ Goto("grow", call)
                 \/ ~(call.pos + 1 < o.win.buf.links * ClustSlots) /\ call.then # "room" /\ Missed
    BY DEF NextInChain
  <1>7. CASE Fails(o)
    <2>1. Took(o)  BY <1>7 DEF Fails
    <2>2. Looks  BY <1>1, <2>1, SectorsFit, UpdateLooks
    <2> QED BY <1>7, <2>2, FailsFine, FailsRight
  <1>8. CASE o.ok /\ Took(o)
    <2>1. Looks /\ faults' = faults
      <3>1. faults' = faults  BY <1>8 DEF Took
      <3> QED BY <1>1, <1>8, <3>1, SectorsFit, UpdateLooks
    <2>2. Driver' = Driver /\ InView' = InView /\ (Rest' => Fine) /\ NamesIn(Medium') \in {NamesIn(Medium), NamesIn(Driver)}
      BY <2>1, LooksFine
    <2>3. o.win.buf = View(OtherSect)  BY <1>1, <1>8, SectorsFit, UpdateLooks
    <2>4. \/ more /\ Goto(call.then, c)
          \/ ~more /\ call.then = "room" /\ Goto("grow", call)
          \/ ~more /\ call.then # "room" /\ Missed
      <3>1. ~Fails(o)  BY <1>8 DEF Fails
      <3>2. o.win.buf.links * ClustSlots = InView  BY <2>3 DEF InView
      <3> QED BY <1>6, <3>1, <3>2, Zenon
    <2>5. CASE more /\ Goto(call.then, c)
      <3> DEFINE x == call.pos + 1
      <3>1. x \in Slots /\ x < InView /\ c = [call EXCEPT !.pos = x, !.then = "none"]  BY <1>2, <1>4, <2>5, SlotIs
      <3> HIDE DEF x
      <3>2. c \in Calls /\ Same(call, c) /\ c.pos = x /\ c.then = "none"
            /\ c.op = call.op /\ c.n = call.n /\ c.left = call.left /\ c.cnt = call.cnt /\ c.loc = call.loc
        BY <1>2, <3>1 DEF Calls, Same
      <3> HIDE DEF c
      <3>3. call.then \in Pcs /\ call.then \notin {"idle", "next", "grow", "growSync"}  BY <1>2 DEF Pcs, Walks
      <3>4. Place' = call.then /\ call' = c /\ (PlaceOk' /\ TidyOk' => Rest')
        BY <1>1, <1>2, <2>2, <2>5, <3>1, <3>2, <3>3, GotoRest
      <3>5. At' = At  BY <1>1, <2>5, <3>2, <3>3 DEF At, Goto, x
      <3>6. At \in Slots  BY <1>1, <3>1 DEF x
      <3>7. Place' = "search" => SearchOk(Driver', call', At')
        BY <1>1, <2>2, <3>2, <3>4, <3>5 DEF PlaceOk, SearchOk
      <3>8. Place' = "parse" => ParseOk(Driver', call', At')
        BY <1>1, <2>2, <3>2, <3>4, <3>5 DEF PlaceOk, ParseOk, Same
      <3>9. Place' = "room" => RoomOk(Driver', Medium', call', At')
        BY <1>1, <2>2, <3>2, <3>4, <3>5, RoomFollows DEF PlaceOk
      <3>10. Place' = "fill" => FillOk(Driver', InView', Medium', call', At')
        <4>1. At \in Nat  BY <3>6, SlotIs
        <4> QED BY <1>1, <1>2, <1>4, <2>2, <3>2, <3>4, <3>5, <4>1, FillFollows DEF PlaceOk
      <3>11. Place' = "unmark" => UnmarkOk(Driver', InView', Medium', call', At', faults')
        <4> SUFFICES ASSUME Place' = "unmark" PROVE UnmarkOk(Driver', InView', Medium', call', At', faults')  OBVIOUS
        <4>1. UnmarkOk(Driver, InView, Medium, call, At, faults)  BY <1>1, <3>4 DEF PlaceOk
        <4>2. UnmarkOk(Driver, InView, Medium', c, At, faults)
          BY <1>2, <1>4, <2>2, <3>2, <3>6, <4>1, UnmarkFollows
        <4> QED BY <2>1, <2>2, <3>4, <3>5, <4>2
      <3>12. PlaceOk'  BY <1>2, <3>4, <3>7, <3>8, <3>9, <3>10, <3>11 DEF PlaceOk, Walks
      <3>13. TidyOk'
        <4>1. First(call', At') = First(call, At)  BY <3>2, <3>4, <3>5 DEF First
        <4> QED BY <1>1, <2>1, <2>2, <3>2, <3>4, <3>5, <4>1 DEF TidyOk
      <3>14. Right  BY <1>1, <3>4, RightOtherwise
      <3> QED BY <2>2, <3>4, <3>12, <3>13, <3>14
    <2>6. CASE ~more /\ call.then = "room" /\ Goto("grow", call)
      <3>1. At = InView  BY <1>1, <1>2, <1>4, <2>6
      <3>2. Place = "room"  BY <1>1, <2>6
      <3>3. Place' = "grow" /\ call' = call /\ (PlaceOk' /\ TidyOk' => Rest')
        BY <1>1, <1>2, <2>2, <2>6, <3>2, GotoRest DEF Pcs
      <3>4. At' = At  BY <1>1, <2>6 DEF At, Goto
      <3>5. RoomOk(Driver', Medium', call', At')
        BY <1>1, <2>2, <3>2, <3>3, <3>4, RoomFollows DEF PlaceOk, Same
      <3>6. PlaceOk'  BY <2>2, <3>1, <3>3, <3>4, <3>5 DEF PlaceOk, GrowOk
      <3>7. TidyOk'  BY <1>1, <2>1, <2>2, <3>2, <3>3 DEF TidyOk
      <3>8. Right  BY <3>2, RightOtherwise
      <3> QED BY <2>2, <3>3, <3>6, <3>7, <3>8
    <2>7. CASE ~more /\ call.then # "room" /\ Missed
      <3>1. Place # "parse"
        <4> SUFFICES ASSUME Place = "parse" PROVE FALSE  OBVIOUS
        <4>1. Parsing(Driver, call.n, call.loc, call.left, call.match, At)  BY <1>1 DEF PlaceOk, ParseOk
        <4>2. At < InView  BY <1>4, <4>1, ParseIs
        <4> QED BY <1>1, <2>7, <4>2
      <3>2. Place # "fill"
        <4> SUFFICES ASSUME Place = "fill" PROVE FALSE  OBVIOUS
        <4>1. FillOk(Driver, InView, Medium, call, At)  BY <1>1 DEF PlaceOk
        <4>2. At \in Nat /\ Same(call, call)  BY <1>1, <1>2 DEF Same
        <4>3. At < InView  BY <1>2, <1>4, <4>1, <4>2, FillFollows
        <4> QED BY <1>1, <2>7, <4>3
      <3>3. Place # "unmark"
        <4> SUFFICES ASSUME Place = "unmark" PROVE FALSE  OBVIOUS
        <4>1. At <= call.loc /\ call.loc < InView  BY <1>1 DEF PlaceOk, UnmarkOk, Unmarking
        <4> QED BY <1>1, <1>2, <1>4, <2>7, <4>1
      <3>4. Place = "search"  BY <1>1, <1>2, <2>7, <3>1, <3>2, <3>3 DEF Walks
      <3>5. Passed(Driver, call.n, At)  BY <1>1, <3>4 DEF PlaceOk, SearchOk
      <3>6. At \in Nat /\ At >= InView  BY <1>1, <1>2, <1>4, <2>7
      <3>7. Missing(Driver, call.n)  BY <1>2, <1>4, <3>5, <3>6, SearchMisses
      <3> QED BY <1>1, <2>1, <2>7, <3>4, <3>7, MissedFine
    <2> QED BY <2>4, <2>5, <2>6, <2>7
  <1> QED BY <1>6, <1>7, <1>8

(* Storing what was there, and looking at the chain. *)
LEMMA LinksLooks ==
    ASSUME MediumFits, NEW o \in UpdateBuf(OtherSect)
    PROVE  /\ Took(o) => Looks
           /\ o.ok /\ Took(o) => faults' = faults
           /\ Writes(o, "links", o.win.buf.links) => Looks /\ faults' = faults
           /\ o.ok => o.win.buf = View(OtherSect)
  <1>1. OtherSect \in Sects /\ View(OtherSect) \in LinkVals  BY ViewTypes, SectorsFit
  <1>2. o.ok => o.win.buf = View(OtherSect)
    BY <1>1, SectorsFit, UpdateBufFits DEF MediumFits
  <1>3. ASSUME Writes(o, "links", o.win.buf.links) PROVE Looks /\ faults' = faults
    <2> DEFINE n == View(OtherSect).links
    <2>1. n \in 1 .. MaxClust /\ o.win.buf.links = n  BY <1>1, <1>2, <1>3 DEF Writes, LinkVals
    <2>2. Writes(o, "links", n)  BY <1>3, <2>1, Zenon
    <2>3. InView = n * ClustSlots  BY DEF InView
    <2> HIDE DEF n
    <2>4. Links(n)  BY <2>1, <2>2, WritesLinks
    <2>5. Looks  BY <2>3, <2>4 DEF Links, Looks, Still
    <2> QED BY <1>3, <2>5 DEF Writes
  <1> QED BY <1>1, <1>2, <1>3, UpdateLooks DEF Took

(* What the lemmas about the steps begin with. *)
LEMMA CallIs ==
    ASSUME IInv, pc # "idle"
    PROVE  /\ CallOk /\ Ground /\ TidyOk /\ PlaceOk /\ MediumFits
           /\ call.pos \in Slots /\ call.pos \in Nat /\ call.loc \in Slots /\ call.loc \in Nat /\ call.pos < InView
           /\ call \in Calls /\ call.left \in Nat /\ call.cnt \in Nat /\ call.eod \in BOOLEAN
           /\ pc # "flush" => call.n \in Names /\ call.op \in Ops \ {"sync"} /\ Frags[call.n] \in 1 .. 20
           /\ call.left = 0 \/ Place \in {"parse", "fill", "clear"}
           /\ call.cnt = 0 \/ Place \in {"room", "grow", "growSync", "clear"}
           /\ res = NoRes
           /\ Driver \in Dirs /\ InView \in Counts /\ Good(Driver, InView) /\ faults \in Nat /\ InView \in Nat /\ InView <= Size
  <1>1. CallOk /\ Ground /\ TidyOk /\ PlaceOk /\ MediumFits  BY DEF IInv, Rest, Ground
  <1>2. /\ call.pos \in Slots /\ call.loc \in Slots /\ call.pos < InView /\ res = NoRes
        /\ call \in Calls /\ call.left \in Nat /\ call.cnt \in Nat /\ call.eod \in BOOLEAN
        /\ call.left = 0 \/ Place \in {"parse", "fill", "clear"}
        /\ call.cnt = 0 \/ Place \in {"room", "grow", "growSync", "clear"}
    BY <1>1 DEF CallOk, Calls
  <1>3. pc # "flush" => call.n \in Names /\ call.op \in Ops \ {"sync"} /\ Frags[call.n] \in 1 .. 20
    BY <1>1, Constants DEF CallOk
  <1> QED BY <1>1, <1>2, <1>3, SlotIs, GroundIs, Constants DEF Counts

LEMMA AllocFine == ASSUME IInv, Alloc PROVE Fine
  <1>1. pc = "alloc" /\ Place = "alloc"  BY DEF Alloc, Place
  <1>2. MediumFits /\ Ground /\ CallOk  BY <1>1, CallIs
  <1>3. AllocOk(Driver, call)  BY <1>1, CallIs DEF PlaceOk
  <1>4. faults = 0 => Tidy(Driver, InView, 1, 0)  BY <1>1, CallIs DEF TidyOk
  <1>5. PICK o \in UpdateBuf(OtherSect) :
           \/ Fails(o)
           \/ o.ok /\ Took(o) /\ Return("FULL")
           \/ Writes(o, "links", o.win.buf.links) /\ Goto("allocSync", call)
    BY DEF Alloc
  <1>6. CASE Fails(o)
    <2>1. Looks  BY <1>2, <1>6, LinksLooks DEF Fails
    <2> QED BY <1>6, <2>1, FailsFine
  <1>7. CASE o.ok /\ Took(o) /\ Return("FULL")
    <2>1. Looks /\ faults' = faults  BY <1>2, <1>7, LinksLooks
    <2>2. Driver' = Driver /\ InView' = InView /\ (Rest' => Fine)  BY <2>1, LooksFine
    <2>3. Rest'  BY <1>4, <1>7, <2>1, <2>2, ErrorRest DEF Errs
    <2> QED BY <2>2, <2>3
  <1>8. CASE Writes(o, "links", o.win.buf.links) /\ Goto("allocSync", call)
    <2>1. Looks /\ faults' = faults  BY <1>2, <1>8, LinksLooks
    <2>2. Driver' = Driver /\ InView' = InView /\ (Rest' => Fine)  BY <2>1, LooksFine
    <2>3. Place' = "allocSync" /\ call' = call /\ (PlaceOk' /\ TidyOk' => Rest')
      BY <1>1, <1>2, <1>8, <2>2, CallIs, GotoRest DEF Pcs
    <2>4. AllocOk(Driver', call')  BY <1>3, <2>2, <2>3
    <2>5. PlaceOk'  BY <2>3, <2>4 DEF PlaceOk
    <2>6. TidyOk'  BY <1>4, <2>1, <2>2, <2>3 DEF TidyOk
    <2> QED BY <2>2, <2>3, <2>5, <2>6
  <1> QED BY <1>5, <1>6, <1>7, <1>8

(* Where the search for room begins. *)
LEMMA RoomBegins ==
    ASSUME NEW d, NEW m, NEW c, AllocOk(d, c), c.n \notin NamesIn(m), Frags[c.n] \in 1 .. 20
    PROVE  RoomOk(d, m, c, 0)
  <1>1. c.op \in {"add", "mkdir"} /\ Missing(d, c.n) /\ c.cnt = 0 /\ c.eod = FALSE  BY DEF AllocOk
  <1>2. Run(d, c.loc, c.cnt, c.eod, 0)
    <2>1. Run(d, c.loc, 0, FALSE, 0)  BY RunNone
    <2> QED BY <1>1, <2>1, Zenon
  <1>3. c.cnt <= Frags[c.n] + 1  BY <1>1
  <1> QED BY <1>1, <1>2, <1>3 DEF RoomOk

LEMMA AllocSyncFine == ASSUME IInv, AllocSync PROVE Fine
  <1>1. pc = "allocSync" /\ Place = "allocSync"  BY DEF AllocSync, Place
  <1>2. MediumFits /\ Ground /\ CallOk  BY <1>1, CallIs
  <1>3. AllocOk(Driver, call) /\ call.pos = 0  BY <1>1, CallIs DEF PlaceOk, AllocOk
  <1>4. faults = 0 => Tidy(Driver, InView, 1, 0)  BY <1>1, CallIs DEF TidyOk
  <1>5. PICK o \in SyncBuf :
           \/ Fails(o)
           \/ o.ok /\ Took(o) /\ Goto(IF call.op = "mkdir" THEN "dots" ELSE "room", call)
    BY DEF AllocSync
  <1>6. CASE Fails(o)
    <2>1. Looks  BY <1>2, <1>6, SyncLooks DEF Fails
    <2> QED BY <1>6, <2>1, FailsFine
  <1>7. CASE o.ok /\ Took(o) /\ Goto(IF call.op = "mkdir" THEN "dots" ELSE "room", call)
    <2> DEFINE l == IF call.op = "mkdir" THEN "dots" ELSE "room"
    <2>1. Looks /\ faults' = faults /\ Medium' = Driver
      BY <1>2, <1>7, SyncLooks DEF Syncs, Settles, Took
    <2>2. Driver' = Driver /\ InView' = InView /\ (Rest' => Fine)  BY <2>1, LooksFine
    <2>3. Goto(l, call) /\ l \in {"dots", "room"}  BY <1>7
    <2> HIDE DEF l
    <2>4. Place' = l /\ call' = call /\ (PlaceOk' /\ TidyOk' => Rest')
      BY <1>1, <1>2, <2>2, <2>3, CallIs, GotoRest DEF Pcs
    <2>5. At' = 0  BY <1>3, <2>3, <2>4 DEF At, Goto
    <2>6. call.n \notin NamesIn(Medium')  BY <1>3, <2>1 DEF AllocOk, Missing, NamesIn, Whole
    <2>7. DotsOk(Driver', Medium', call')  BY <1>3, <2>2, <2>4, <2>6 DEF DotsOk
    <2>8. RoomOk(Driver', Medium', call', At')
      BY <1>1, <1>3, <2>2, <2>4, <2>5, <2>6, CallIs, RoomBegins
    <2>9. PlaceOk'  BY <2>3, <2>4, <2>7, <2>8 DEF PlaceOk
    <2>10. TidyOk'  BY <1>4, <2>1, <2>2, <2>3, <2>4 DEF TidyOk
    <2> QED BY <2>2, <2>4, <2>9, <2>10
  <1> QED BY <1>5, <1>6, <1>7

LEMMA DotsFine == ASSUME IInv, Dots PROVE Fine
  <1>1. pc = "dots" /\ Place = "dots"  BY DEF Dots, Place
  <1>2. MediumFits /\ Ground /\ CallOk  BY <1>1, CallIs
  <1>3. DotsOk(Driver, Medium, call) /\ call.pos = 0  BY <1>1, CallIs DEF PlaceOk, DotsOk, AllocOk
  <1>4. faults = 0 => Tidy(Driver, InView, 1, 0)  BY <1>1, CallIs DEF TidyOk
  <1>5. PICK o \in UpdateBuf(OtherSect) :
           \/ Fails(o)
           \/ Writes(o, "links", o.win.buf.links) /\ Goto("room", call)
    BY DEF Dots
  <1>6. CASE Fails(o)
    <2>1. Looks  BY <1>2, <1>6, LinksLooks DEF Fails
    <2> QED BY <1>6, <2>1, FailsFine
  <1>7. CASE Writes(o, "links", o.win.buf.links) /\ Goto("room", call)
    <2>1. Looks /\ faults' = faults  BY <1>2, <1>7, LinksLooks
    <2>2. Driver' = Driver /\ InView' = InView /\ (Rest' => Fine) /\ NamesIn(Medium') \in {NamesIn(Medium), NamesIn(Driver)}
      BY <2>1, LooksFine
    <2>4. Place' = "room" /\ call' = call /\ (PlaceOk' /\ TidyOk' => Rest')
      BY <1>1, <1>2, <1>7, <2>2, CallIs, GotoRest DEF Pcs
    <2>5. At' = 0  BY <1>3, <1>7, <2>4 DEF At, Goto
    <2>6. RoomOk(Driver, Medium, call, 0)  BY <1>1, <1>3, CallIs, RoomBegins DEF DotsOk
    <2>8. RoomOk(Driver', Medium', call', At')  BY <2>2, <2>4, <2>5, <2>6, RoomFollows DEF Same
    <2>9. PlaceOk'  BY <2>4, <2>8 DEF PlaceOk
    <2>10. TidyOk'  BY <1>4, <2>1, <2>2, <2>4 DEF TidyOk
    <2> QED BY <2>2, <2>4, <2>9, <2>10
  <1> QED BY <1>5, <1>6, <1>7

LEMMA RoomFine == ASSUME IInv, Room PROVE Fine
  <1> DEFINE mark == Driver[call.pos].mark
             fits == call.eod \/ mark # "used"
             k == IF fits THEN call.cnt + 1 ELSE 0
             a == IF fits /\ call.cnt = 0 THEN call.pos ELSE call.loc
             e == call.eod \/ mark = "last"
             c == [call EXCEPT !.cnt = k, !.loc = a, !.eod = e]
  <1>1. pc = "room" /\ Place = "room" /\ At = call.pos /\ call.cnt < Frags[call.n] + 1  BY DEF Room, Place, At, Need
  <1>2. MediumFits /\ Ground /\ CallOk  BY <1>1, CallIs
  <1>3. RoomOk(Driver, Medium, call, call.pos)  BY <1>1, CallIs DEF PlaceOk
  <1>4. faults = 0 => Tidy(Driver, InView, 1, 0)  BY <1>1, CallIs DEF TidyOk
  <1>5. PICK o \in UpdateBuf(SectOf(call.pos)) :
           \/ Fails(o)
           \/ /\ o.ok /\ Took(o)
              /\ LET z == o.win.buf[call.pos].mark
                     t == call.eod \/ z # "used"
                 IN  Advance("room",
                        [call EXCEPT !.cnt = IF t THEN @ + 1 ELSE 0,
                                     !.loc = IF t /\ call.cnt = 0 THEN call.pos ELSE @,
                                     !.eod = @ \/ z = "last"])
    BY DEF Room
  <1>6. CASE Fails(o)
    <2>1. Looks  BY <1>6, SlotLooks DEF Fails
    <2> QED BY <1>6, <2>1, FailsFine
  <1>7. CASE ~Fails(o)
    <2>0. o.ok /\ Took(o)  BY <1>5, <1>7
    <2>1. Looks /\ faults' = faults /\ o.win.buf[call.pos] = Driver[call.pos]  BY <2>0, SlotLooks
    <2>2. Driver' = Driver /\ InView' = InView /\ (Rest' => Fine) /\ NamesIn(Medium') \in {NamesIn(Medium), NamesIn(Driver)}
      BY <2>1, LooksFine
    <2>3. Advance("room", c)
      <3>1. LET t == call.eod \/ mark # "used"
            IN  Advance("room",
                   [call EXCEPT !.cnt = IF t THEN @ + 1 ELSE 0,
                                !.loc = IF t /\ call.cnt = 0 THEN call.pos ELSE @,
                                !.eod = @ \/ mark = "last"])
        BY <1>5, <1>7, <2>1, Zenon
      <3> QED BY <3>1, Zenon
    <2>4. call.pos \in Slots /\ call.pos \in Nat /\ call.loc \in Slots /\ call.loc \in Nat /\ call.cnt \in Nat
          /\ call.eod \in BOOLEAN /\ call \in Calls /\ Driver \in Dirs /\ InView \in Counts /\ Good(Driver, InView)
          /\ call.left = 0 /\ Frags[call.n] \in 1 .. 20
      BY <1>1, CallIs
    <2>5. Run(Driver, a, k, e, call.pos + 1)
      <3>1. Run(Driver, call.loc, call.cnt, call.eod, call.pos)  BY <1>3 DEF RoomOk
      <3>2. CASE fits  BY <2>4, <3>1, <3>2, RunGoes
      <3>3. CASE ~fits
        <4>1. call.eod = FALSE /\ mark = "used" /\ k = 0 /\ a = call.loc /\ e = FALSE  BY <2>4, <3>3
        <4> QED BY <2>4, <3>1, <4>1, RunBreaks
      <3> QED BY <3>2, <3>3
    <2>6. k \in Nat /\ k <= Frags[call.n] + 1 /\ a \in Slots /\ e \in BOOLEAN  BY <1>1, <2>4
    <2> HIDE DEF k, a, e
    <2>7. /\ c \in Calls /\ c.op = call.op /\ c.n = call.n /\ c.pos = call.pos /\ c.left = 0
          /\ c.cnt = k /\ c.loc = a /\ c.eod = e
      BY <2>4, <2>6 DEF Calls
    <2> HIDE DEF c
    <2>8. /\ Place' = "room" /\ At' = call.pos + 1 /\ call'.op = c.op /\ call'.n = c.n /\ call'.loc = c.loc
          /\ call'.cnt = c.cnt /\ call'.eod = c.eod /\ (PlaceOk' /\ TidyOk' => Rest')
      BY <1>1, <1>2, <2>2, <2>3, <2>7, AdvanceRest DEF Walks
    <2>9. call.n \notin NamesIn(Medium')
      BY <1>3, <2>2 DEF RoomOk, Missing, NamesIn, Whole
    <2>10. RoomOk(Driver', Medium', call', At')
      BY <1>3, <2>2, <2>5, <2>6, <2>7, <2>8, <2>9 DEF RoomOk
    <2>11. PlaceOk'  BY <2>8, <2>10 DEF PlaceOk
    <2>12. TidyOk'  BY <1>4, <2>1, <2>2, <2>8 DEF TidyOk
    <2> QED BY <2>2, <2>8, <2>11, <2>12
  <1> QED BY <1>6, <1>7

LEMMA GrowFine == ASSUME IInv, Grow PROVE Fine
  <1>1. pc = "grow" /\ Place = "grow" /\ At = call.pos + 1  BY DEF Grow, Place, At
  <1>2. MediumFits /\ Ground /\ CallOk  BY <1>1, CallIs
  <1>3. GrowOk(Driver, InView, Medium, call, At)  BY <1>1, CallIs DEF PlaceOk
  <1>4. faults = 0 => Tidy(Driver, InView, 1, 0)  BY <1>1, CallIs DEF TidyOk
  <1>5. PICK o \in UpdateBuf(OtherSect) :
           \/ Fails(o)
           \/ o.ok /\ Took(o) /\ Return("FULL")
           \/ /\ o.win.buf.links < MaxClust
              /\ Writes(o, "links", o.win.buf.links + 1)
              /\ Goto("growSync", call)
    BY DEF Grow
  <1>6. CASE Fails(o)
    <2>1. Looks  BY <1>2, <1>6, LinksLooks DEF Fails
    <2> QED BY <1>6, <2>1, FailsFine
  <1>7. CASE o.ok /\ Took(o) /\ Return("FULL")
    <2>1. Looks /\ faults' = faults  BY <1>2, <1>7, LinksLooks
    <2>2. Driver' = Driver /\ InView' = InView /\ (Rest' => Fine)  BY <2>1, LooksFine
    <2>3. Rest'  BY <1>4, <1>7, <2>1, <2>2, ErrorRest DEF Errs
    <2> QED BY <2>2, <2>3
  <1>8. CASE /\ o.win.buf.links < MaxClust
             /\ Writes(o, "links", o.win.buf.links + 1)
             /\ Goto("growSync", call)
    <2> DEFINE n == View(OtherSect).links
    <2>1. o.win.buf.links = n /\ n \in 1 .. MaxClust /\ faults' = faults
      <3>1. o.win.buf = View(OtherSect) /\ faults' = faults  BY <1>2, <1>8, LinksLooks DEF Writes
      <3> QED BY <1>2, <3>1, ViewTypes DEF LinkVals
    <2>2. n + 1 \in 1 .. MaxClust /\ Writes(o, "links", n + 1) /\ InView = n * ClustSlots
      <3>1. n < MaxClust  BY <1>8, <2>1, Zenon
      <3>2. n + 1 \in 1 .. MaxClust  BY <2>1, <3>1, Constants
      <3>3. Writes(o, "links", n + 1)  BY <1>8, <2>1, Zenon
      <3> QED BY <3>2, <3>3 DEF InView
    <2> HIDE DEF n
    <2>3. MediumFits' /\ Calm /\ Driver' = Driver /\ InView' = (n + 1) * ClustSlots /\ (Stays \/ Settles)
      BY <1>2, <2>2, WritesLinks DEF Links
    <2>4. InView' \in Counts /\ InView' = InView + ClustSlots
      <3>1. (n + 1) * ClustSlots = n * ClustSlots + ClustSlots  BY <2>1, Constants
      <3> QED BY <2>2, <2>3, <3>1, CountsAre
    <2>5. Driver \in Dirs /\ InView \in Counts /\ Good(Driver, InView) /\ InView \in Nat /\ InView <= InView'
      BY <1>1, <2>4, CallIs, Constants
    <2>6. Good(Driver, InView)'
      <3>1. Good(Driver, InView')  BY <2>4, <2>5, GoodGrows
      <3> QED BY <2>3, <3>1
    <2>7. Marked2(Driver, InView) => Marked2(Driver, InView)'
      <3>1. Marked2(Driver, InView) => Marked2(Driver, InView')  BY <2>4, <2>5, MarkedGrows
      <3> QED BY <2>3, <3>1
    <2>8. Ground' /\ KeepsHidden  BY <1>2, <2>3, <2>6, <2>7, Turns
    <2>9. NamesIn(Driver') = NamesIn(Driver) /\ NamesIn(Medium') \in {NamesIn(Medium), NamesIn(Driver)}
      BY <2>3 DEF Stays, Settles
    <2>10. pc' = "growSync" /\ call' = call /\ res' = res  BY <1>8 DEF Goto
    <2>11. Place' = "growSync" /\ At' = At  BY <1>1, <2>10 DEF Place, At
    <2>12. CallOk' /\ ResOk'
      <3>1. call.pos < InView'  BY <1>1, <2>4, <2>5, CallIs, Constants
      <3>2. res' = NoRes  BY <1>1, <2>10, CallIs
      <3>3. ResOk'  BY <3>2 DEF ResOk, NoRes
      <3> QED BY <1>1, <1>2, <2>10, <2>11, <3>1, <3>2, <3>3 DEF CallOk, Pcs
    <2>13. FreshOk(Driver', InView', Medium', call', At')
      <3>1. RoomOk(Driver, Medium', call, At)
        BY <1>3, <2>9, RoomFollows DEF GrowOk, Same
      <3>2. \A p \in Slots : InView <= p => Foreign(Driver[p])  BY <2>5, SlotIs DEF Good
      <3>3. At = InView  BY <1>3 DEF GrowOk
      <3> QED BY <2>3, <2>4, <2>10, <2>11, <3>1, <3>2, <3>3 DEF FreshOk
    <2>14. PlaceOk'  BY <2>11, <2>13 DEF PlaceOk
    <2>15. TidyOk'
      <3>1. At = InView  BY <1>3 DEF GrowOk
      <3> QED BY <1>4, <2>1, <2>3, <2>11, <3>1 DEF TidyOk
    <2>16. Moves  BY <1>2, <2>8, <2>9, <2>12, NamesStay
    <2> QED BY <2>8, <2>12, <2>14, <2>15, <2>16 DEF Fine, IInv, Rest
  <1> QED BY <1>5, <1>6, <1>7, <1>8

(* Slots follow each other in their sectors. *)
LEMMA SectOfGrows ==
    \A p, q \in Slots : SectOf(p) \in Nat /\ SectOf(q) \in Nat /\ (p <= q => SectOf(p) <= SectOf(q))
  <1> TAKE p, q \in Slots
  <1>1. p \in Nat /\ q \in Nat /\ PerSect \in Nat /\ PerSect > 0  BY SlotIs, Constants
  <1>2. p \div PerSect \in Nat /\ q \div PerSect \in Nat  BY <1>1, Division
  <1> DEFINE a == p \div PerSect
             b == q \div PerSect
  <1>3. ASSUME p <= q PROVE a <= b
    <2>1. p < (b + 1) * PerSect
      <3>1. q < (b + 1) * PerSect  BY <1>1, <1>2, Division
      <3>2. (b + 1) * PerSect \in Nat  BY <1>1, <1>2
      <3> HIDE DEF b
      <3> QED BY <1>1, <1>3, <3>1, <3>2
    <2>2. a < b + 1
      <3>1. b + 1 \in Nat  BY <1>2
      <3> HIDE DEF b
      <3> QED BY <1>1, <2>1, <3>1, Division
    <2> HIDE DEF a, b
    <2>3. a \in Nat /\ b \in Nat  BY <1>2 DEF a, b
    <2> QED BY <2>2, <2>3
  <1> QED BY <1>2, <1>3 DEF SectOf

LEMMA GrowSyncFine == ASSUME IInv, GrowSync PROVE Fine
  <1>1. pc = "growSync" /\ Place = "growSync" /\ At = call.pos + 1  BY DEF GrowSync, Place, At
  <1>2. MediumFits /\ Ground /\ CallOk  BY <1>1, CallIs
  <1>3. FreshOk(Driver, InView, Medium, call, At)  BY <1>1, CallIs DEF PlaceOk
  <1>4. faults = 0 => Tidy(Driver, At, 1, 0)  BY <1>1, CallIs DEF TidyOk
  <1>5. PICK o \in SyncBuf :
           \/ Fails(o)
           \/ o.ok /\ Took(o) /\ Goto("clear", [call EXCEPT !.pos = @ + 1, !.left = 0, !.then = "none"])
    BY DEF GrowSync
  <1>6. CASE Fails(o)
    <2>1. Looks  BY <1>2, <1>6, SyncLooks DEF Fails
    <2> QED BY <1>6, <2>1, FailsFine
  <1>7. CASE o.ok /\ Took(o) /\ Goto("clear", [call EXCEPT !.pos = @ + 1, !.left = 0, !.then = "none"])
    <2> DEFINE x == call.pos + 1
               c == [call EXCEPT !.pos = x, !.left = 0, !.then = "none"]
    <2>1. Looks /\ faults' = faults /\ ~win'.dirty  BY <1>2, <1>7, SyncLooks DEF Syncs, Took
    <2>2. Driver' = Driver /\ InView' = InView /\ (Rest' => Fine) /\ NamesIn(Medium') \in {NamesIn(Medium), NamesIn(Driver)}
      BY <2>1, LooksFine
    <2>3. Goto("clear", c)  BY <1>7
    <2>4. x \in Slots /\ x < InView
      <3>1. x + ClustSlots = InView  BY <1>1, <1>3 DEF FreshOk
      <3>2. x \in Nat /\ x < InView  BY <1>1, <3>1, CallIs, Constants
      <3> HIDE DEF x
      <3> QED BY <1>1, <3>2, CallIs, SlotIs
    <2>5. At = x  BY <1>1
    <2> HIDE DEF x
    <2>6. c \in Calls /\ Same(call, c) /\ c.op = call.op /\ c.n = call.n /\ c.pos = x /\ c.left = 0 /\ c.cnt = call.cnt
      BY <1>1, <2>4, CallIs DEF Calls, Same
    <2> HIDE DEF c
    <2>7. Place' = "clear" /\ call' = c /\ (PlaceOk' /\ TidyOk' => Rest')
      BY <1>1, <1>2, <2>2, <2>3, <2>4, <2>6, CallIs, GotoRest DEF Pcs
    <2>8. At' = At  BY <2>3, <2>5, <2>6, <2>7 DEF At, Goto
    <2>9. FreshOk(Driver', InView', Medium', call', At')
      <3>1. RoomOk(Driver, Medium', c, At)  BY <1>3, <2>2, <2>6, RoomFollows DEF FreshOk
      <3> QED BY <1>3, <2>2, <2>7, <2>8, <3>1 DEF FreshOk
    <2>10. \A p \in Slots : At <= p => ~(SectOf(p) < SectOf(At) + 0)
      BY <2>4, <2>5, SectOfGrows
    <2>11. ClearOk(Driver', InView', Medium', call', At', win')
      BY <2>1, <2>6, <2>7, <2>8, <2>9, <2>10, Constants DEF ClearOk
    <2>12. PlaceOk'  BY <2>7, <2>11 DEF PlaceOk
    <2>13. TidyOk'  BY <1>4, <2>1, <2>2, <2>7, <2>8 DEF TidyOk
    <2> QED BY <2>2, <2>7, <2>12, <2>13
  <1> QED BY <1>5, <1>6, <1>7

LEMMA ReleaseFine == ASSUME IInv, Release PROVE Fine
  <1>1. pc = "release" /\ Place = "release"  BY DEF Release, Place
  <1>2. MediumFits /\ Ground /\ CallOk  BY <1>1, CallIs
  <1>3. FoundOk(Driver, call, faults)  BY <1>1, CallIs DEF PlaceOk
  <1>4. faults = 0 => Tidy(Driver, InView, 1, 0)  BY <1>1, CallIs DEF TidyOk
  <1>5. PICK o \in UpdateBuf(OtherSect) :
           \/ Fails(o)
           \/ o.ok /\ Took(o) /\ faults > 0 /\ Return("BROKEN")
           \/ Writes(o, "links", o.win.buf.links) /\ Goto("releaseSync", call)
    BY DEF Release
  <1>6. CASE Fails(o)
    <2>1. Looks  BY <1>2, <1>6, LinksLooks DEF Fails
    <2> QED BY <1>6, <2>1, FailsFine
  <1>7. CASE o.ok /\ Took(o) /\ faults > 0 /\ Return("BROKEN")
    <2>1. Looks /\ faults' = faults  BY <1>2, <1>7, LinksLooks
    <2> QED BY <1>7, <2>1, BrokenFine
  <1>8. CASE Writes(o, "links", o.win.buf.links) /\ Goto("releaseSync", call)
    <2>1. Looks /\ faults' = faults  BY <1>2, <1>8, LinksLooks
    <2>2. Driver' = Driver /\ InView' = InView /\ (Rest' => Fine)  BY <2>1, LooksFine
    <2>3. Place' = "releaseSync" /\ call' = call /\ (PlaceOk' /\ TidyOk' => Rest')
      BY <1>1, <1>2, <1>8, <2>2, CallIs, GotoRest DEF Pcs
    <2>4. FoundOk(Driver', call', faults')  BY <1>3, <2>1, <2>2, <2>3
    <2>5. PlaceOk'  BY <2>3, <2>4 DEF PlaceOk
    <2>6. TidyOk'  BY <1>4, <2>1, <2>2, <2>3 DEF TidyOk
    <2> QED BY <2>2, <2>3, <2>5, <2>6
  <1> QED BY <1>5, <1>6, <1>7, <1>8

(* Where the entry that has been found begins to be taken away. *)
LEMMA UnmarkStarts ==
    ASSUME NEW d \in Dirs, NEW v \in Counts, Good(d, v), NEW c, NEW f, FoundOk(d, c, f), c.n \in Names,
           c.pos \in Slots, c.loc \in Slots, NEW e, e.op = c.op, e.n = c.n, e.loc = c.pos
    PROVE  UnmarkOk(d, v, d, e, c.loc, f) /\ c.loc <= c.pos
  <1>1. c.op = "remove" /\ Passed(d, c.n, c.loc) /\ c.pos \in Nat /\ c.loc \in Nat  BY SlotIs DEF FoundOk
  <1>2. CASE Whole(d, c.loc) /\ d[c.loc].n = c.n /\ c.pos = Reach(d, c.loc)
    <2>1. Unmarking(d, v, c.n, c.pos, c.loc)  BY <1>2, UnmarkBegins
    <2>2. HeadAt(d, c.loc) /\ c.n \in NamesIn(d)  BY <1>2 DEF Whole, NamesIn
    <2>3. c.loc <= c.pos  BY <2>1 DEF Unmarking
    <2> QED BY <1>1, <2>1, <2>2, <2>3 DEF UnmarkOk
  <1>3. CASE c.loc = c.pos /\ SfnAt(d, c.pos) /\ Short[d[c.pos].n] = Short[c.n] /\ f > 0
    <2>1. /\ Unmarking(d, v, c.n, c.pos, c.loc) /\ ~HeadAt(d, c.loc)
          /\ d[c.pos].n = c.n => c.n \notin NamesIn(d)
      BY <1>1, <1>3, UnmarkLone
    <2>2. d[c.pos].n \in Names  BY <1>3, SlotShapes
    <2>3. c.n \notin NamesIn(d) \/ Shared(f, c.n)  BY <1>3, <2>1, <2>2 DEF Shared
    <2>4. c.loc <= c.pos  BY <1>1, <1>3
    <2> QED BY <1>1, <2>1, <2>3, <2>4 DEF UnmarkOk
  <1> QED BY <1>2, <1>3 DEF FoundOk

LEMMA ReleaseSyncFine == ASSUME IInv, ReleaseSync PROVE Fine
  <1>1. pc = "releaseSync" /\ Place = "releaseSync"  BY DEF ReleaseSync, Place
  <1>2. MediumFits /\ Ground /\ CallOk  BY <1>1, CallIs
  <1>3. FoundOk(Driver, call, faults)  BY <1>1, CallIs DEF PlaceOk
  <1>4. faults = 0 => Tidy(Driver, InView, 1, 0)  BY <1>1, CallIs DEF TidyOk
  <1>5. PICK o \in SyncBuf :
           \/ Fails(o)
           \/ o.ok /\ Took(o) /\ Goto("unmark", UnmarkFrom(call))
    BY DEF ReleaseSync
  <1>6. CASE Fails(o)
    <2>1. Looks  BY <1>2, <1>6, SyncLooks DEF Fails
    <2> QED BY <1>6, <2>1, FailsFine
  <1>7. CASE o.ok /\ Took(o) /\ Goto("unmark", UnmarkFrom(call))
    <2> DEFINE c == [call EXCEPT !.pos = call.loc, !.loc = call.pos]
    <2>1. Looks /\ faults' = faults /\ Medium' = Driver
      BY <1>2, <1>7, SyncLooks DEF Syncs, Settles, Took
    <2>2. Driver' = Driver /\ InView' = InView /\ (Rest' => Fine)  BY <2>1, LooksFine
    <2>3. Goto("unmark", c)  BY <1>7 DEF UnmarkFrom
    <2>4. c \in Calls /\ c.op = call.op /\ c.n = call.n /\ c.pos = call.loc /\ c.loc = call.pos
          /\ c.left = 0 /\ c.cnt = 0
      BY <1>1, CallIs DEF Calls
    <2> HIDE DEF c
    <2>5. UnmarkOk(Driver, InView, Driver, c, call.loc, faults) /\ call.loc <= call.pos
      BY <1>1, <1>3, <2>4, CallIs, UnmarkStarts
    <2>6. call.loc < InView  BY <1>1, <2>5, CallIs
    <2>7. Place' = "unmark" /\ call' = c /\ (PlaceOk' /\ TidyOk' => Rest')
      BY <1>1, <1>2, <2>2, <2>3, <2>4, <2>6, CallIs, GotoRest DEF Pcs
    <2>8. At' = call.loc  BY <2>3, <2>4, <2>7 DEF At, Goto
    <2>9. UnmarkOk(Driver', InView', Medium', call', At', faults')
      BY <2>1, <2>2, <2>5, <2>7, <2>8
    <2>10. PlaceOk'  BY <2>7, <2>9 DEF PlaceOk
    <2>11. TidyOk'
      <3>1. faults = 0 => Tidy(Driver, InView, call.loc, call.pos)  BY <1>4, TidyWider
      <3> QED BY <2>1, <2>2, <2>4, <2>7, <2>8, <3>1 DEF TidyOk
    <2> QED BY <2>2, <2>7, <2>10, <2>11
  <1> QED BY <1>5, <1>6, <1>7

LEMMA FlushFine == ASSUME IInv, Flush PROVE Fine
  <1>1. pc = "flush" /\ Place = "flush"  BY DEF Flush, Place
  <1>2. MediumFits /\ Ground /\ CallOk  BY <1>1, CallIs
  <1>3. FlushOk(Driver, call, faults)  BY <1>1, CallIs DEF PlaceOk
  <1>4. faults = 0 => Tidy(Driver, InView, 1, 0)  BY <1>1, CallIs DEF TidyOk
  <1>5. PICK o \in SyncBuf : Fails(o) \/ (o.ok /\ Took(o) /\ Return("NONE"))
    BY DEF Flush
  <1>6. CASE Fails(o)
    <2>1. Looks  BY <1>2, <1>6, SyncLooks DEF Fails
    <2> QED BY <1>6, <2>1, FailsFine
  <1>7. CASE o.ok /\ Took(o) /\ Return("NONE")
    <2>1. Looks /\ faults' = faults /\ Medium' = Driver
      BY <1>2, <1>7, SyncLooks DEF Syncs, Settles, Took
    <2>2. Driver' = Driver /\ InView' = InView /\ (Rest' => Fine)  BY <2>1, LooksFine
    <2>3. res'.err = "NONE" /\ res'.op = call.op /\ res'.n = call.n  BY <1>7 DEF Return
    <2>4. ResOk'  BY <1>3, <2>1, <2>2, <2>3 DEF ResOk, FlushOk, Errs
    <2>5. Rest'  BY <1>4, <1>7, <2>1, <2>2, <2>4, ReturnRest DEF Errs
    <2> QED BY <2>2, <2>5
  <1> QED BY <1>5, <1>6, <1>7

(* A step that stores a slot. *)
LEMMA PutsGround ==
    ASSUME IInv, NEW p, NEW v, Puts(p, v), Good(Driver', InView),
           faults = 0 /\ Marked2(Driver, InView) => Marked2(Driver', InView)
    PROVE  /\ Ground' /\ KeepsHidden /\ InView' = InView /\ Driver' = [Driver EXCEPT ![p] = v]
           /\ NamesIn(Medium') \in {NamesIn(Medium), NamesIn(Driver)}
  <1>1. MediumFits' /\ Calm /\ Driver' = [Driver EXCEPT ![p] = v] /\ InView' = InView /\ (Stays \/ Settles) /\ Ground
    BY DEF Puts, IInv
  <1>2. Ground' /\ KeepsHidden
    <2>1. Good(Driver, InView)'  BY <1>1
    <2>2. faults = 0 /\ Marked2(Driver, InView) => Marked2(Driver, InView)'  BY <1>1
    <2> QED BY <1>1, <2>1, <2>2, Turns
  <1>3. NamesIn(Medium') \in {NamesIn(Medium), NamesIn(Driver)}  BY <1>1 DEF Stays, Settles
  <1> QED BY <1>1, <1>2, <1>3

LEMMA UnmarkIs ==
    ASSUME NEW dir \in Dirs, NEW cnt \in Counts, Good(dir, cnt), NEW n \in Names, NEW last \in Nat, NEW b \in Nat,
           Unmarking(dir, cnt, n, last, b),
           NEW new, Frees(dir, new, b)
    PROVE  Unmarked(dir, cnt, n, last, b, new)
  BY UnmarkStep

LEMMA UnmarkFine == ASSUME IInv, Unmark PROVE Fine
  <1> DEFINE b == call.pos
             v == [Driver[b] EXCEPT !.mark = "free"]
             new == [Driver EXCEPT ![b].mark = "free"]
  <1>1. pc = "unmark" /\ Place = "unmark" /\ At = b  BY DEF Unmark, Place, At
  <1>2. MediumFits /\ Ground /\ CallOk /\ b \in Slots /\ b \in Nat /\ call.loc \in Nat /\ call.n \in Names
        /\ Driver \in Dirs /\ InView \in Counts /\ Good(Driver, InView) /\ call \in Calls /\ call.left = 0 /\ call.cnt = 0
    BY <1>1, CallIs
  <1>3. UnmarkOk(Driver, InView, Medium, call, b, faults)  BY <1>1, CallIs DEF PlaceOk
  <1>4. faults = 0 => Tidy(Driver, InView, b, call.loc)  BY <1>1, CallIs DEF TidyOk
  <1>5. PICK o \in UpdateBuf(SectOf(b)) :
           \/ Fails(o)
           \/ /\ Writes(o, b, [o.win.buf[b] EXCEPT !.mark = "free"])
              /\ IF b = call.loc THEN Goto("flush", call) ELSE Advance("unmark", call)
    BY DEF Unmark
  <1>6. CASE Fails(o)
    <2>1. Looks  BY <1>6, SlotLooks DEF Fails
    <2> QED BY <1>6, <2>1, FailsFine
  <1>7. CASE /\ Writes(o, b, [o.win.buf[b] EXCEPT !.mark = "free"])
             /\ IF b = call.loc THEN Goto("flush", call) ELSE Advance("unmark", call)
    <2>0. Unmarking(Driver, InView, call.n, call.loc, b) /\ call.op = "remove"
          /\ (HeadAt(Driver, b) => call.n \in NamesIn(Medium))
          /\ (HeadAt(Driver, b) \/ call.n \notin NamesIn(Driver) \/ Shared(faults, call.n))
      BY <1>3 DEF UnmarkOk
    <2>1. /\ new = [Driver EXCEPT ![b] = v] /\ v \in SlotVals /\ new \in Dirs /\ Good(new, InView)
          /\ b < call.loc => Unmarking(new, InView, call.n, call.loc, b + 1) /\ ~HeadAt(new, b + 1)
          /\ NamesIn(new) = IF HeadAt(Driver, b) THEN NamesIn(Driver) \ {call.n} ELSE NamesIn(Driver)
          /\ \A p \in Slots : new[p].mark = "last" <=> Driver[p].mark = "last"
      <3>1. Frees(Driver, new, b)  BY DEF Frees
      <3> HIDE DEF new
      <3>2. Unmarked(Driver, InView, call.n, call.loc, b, new)  BY <1>2, <2>0, <3>1, UnmarkIs
      <3> QED BY <3>2, Zenon DEF Unmarked
    <2>2. /\ faults = 0 => Tidy(new, InView, b + 1, call.loc)
          /\ faults = 0 /\ b = call.loc => Tidy(new, InView, 1, 0)
      <3>1. Frees(Driver, new, b)  BY DEF Frees
      <3> HIDE DEF new
      <3> QED BY <1>2, <1>4, <2>0, <3>1, TidyUnmark
    <2>3. Marked2(Driver, InView) => Marked2(new, InView)
      <3>1. \A p \in Slots : new[p].kind = Driver[p].kind
        <4>1. Driver \in [Slots -> SlotVals]  BY <1>2 DEF Dirs
        <4>2. v.kind = Driver[b].kind  BY <1>2, <4>1 DEF SlotVals
        <4> HIDE DEF v
        <4> QED BY <1>2, <2>1, <4>1, <4>2
      <3> HIDE DEF new, v
      <3>2. \A p \in Slots : Driver[p].mark = "last" => new[p].mark = "last"  BY <2>1
      <3> QED BY <1>2, <3>1, <3>2, MarkedStays
    <2> HIDE DEF new
    <2>4. Puts(b, v)
      <3>1. o.win.buf = View(SectOf(b)) /\ SectOf(b) \in Sects
        BY <1>2, <1>7, SectorsFit, UpdateBufFits DEF MediumFits, Writes
      <3>2. o.win.buf[b] = Driver[b]  BY <1>2, <3>1 DEF Driver
      <3>3. Writes(o, b, v)  BY <1>7, <3>2, Zenon
      <3> HIDE DEF v
      <3> QED BY <1>2, <2>1, <3>3, WritesSlot
    <2>5. Driver' = new  BY <2>1, <2>4 DEF Puts
    <2>6. /\ Ground' /\ KeepsHidden /\ InView' = InView
          /\ NamesIn(Medium') \in {NamesIn(Medium), NamesIn(Driver)}
      BY <2>1, <2>3, <2>4, <2>5, PutsGround
    <2>7. faults' = faults  BY <1>7 DEF Writes
    <2>8. call.n \notin NamesIn(new) \/ Shared(faults, call.n)  BY <2>0, <2>1
    <2>9. Rest'
      <3>1. CASE b = call.loc /\ Goto("flush", call)
        <4>1. CallOk' /\ ResOk' /\ Place' = "flush" /\ call' = call /\ (PlaceOk' /\ TidyOk' => Rest')
          BY <1>1, <1>2, <2>6, <3>1, CallIs, GotoRest DEF Pcs
        <4>2. FlushOk(Driver', call', faults')
          BY <2>0, <2>5, <2>7, <2>8, <4>1 DEF FlushOk
        <4>3. PlaceOk'  BY <4>1, <4>2 DEF PlaceOk
        <4>4. TidyOk'  BY <2>2, <2>5, <2>6, <2>7, <3>1, <4>1 DEF TidyOk
        <4> QED BY <4>1, <4>3, <4>4
      <3>2. CASE b # call.loc /\ Advance("unmark", call)
        <4>1. CallOk' /\ ResOk' /\ Place' = "unmark" /\ At' = b + 1 /\ call'.op = call.op /\ call'.n = call.n
              /\ call'.loc = call.loc /\ (PlaceOk' /\ TidyOk' => Rest')
          BY <1>1, <1>2, <2>6, <3>2, AdvanceRest DEF Walks
        <4>2. b < call.loc  BY <1>2, <2>0, <3>2 DEF Unmarking
        <4>3. UnmarkOk(Driver', InView', Medium', call', At', faults')
          BY <2>0, <2>1, <2>5, <2>6, <2>7, <2>8, <4>1, <4>2 DEF UnmarkOk
        <4>4. PlaceOk'  BY <4>1, <4>3 DEF PlaceOk
        <4>5. TidyOk'  BY <2>2, <2>5, <2>6, <2>7, <4>1 DEF TidyOk
        <4> QED BY <4>1, <4>4, <4>5
      <3> QED BY <1>7, <3>1, <3>2
    <2>10. CallOk'  BY <2>9 DEF Rest
    <2>11. Moves
      <3>1. CASE HeadAt(Driver, b)
        <4>1. NamesIn(Driver') = NamesIn(Driver) \ {call.n}  BY <2>1, <2>5, <3>1
        <4> QED BY <1>2, <2>0, <2>6, <2>10, <3>1, <4>1, NamesLose
      <3>2. CASE ~HeadAt(Driver, b)
        <4>1. NamesIn(Driver') = NamesIn(Driver)  BY <2>1, <2>5, <3>2
        <4> QED BY <1>2, <2>6, <2>10, <4>1, NamesStay
      <3> QED BY <3>1, <3>2
    <2> QED BY <2>6, <2>9, <2>11 DEF Fine, IInv
  <1> QED BY <1>5, <1>6, <1>7

(* What storing a part of an entry does. *)
Filled(dir, cnt, n, a, b, new) ==
    /\ new \in Dirs /\ Good(new, cnt) /\ Filling(new, cnt, n, a, b + 1)
    /\ NamesIn(new) = IF b = a + Frags[n] THEN NamesIn(dir) \cup {n} ELSE NamesIn(dir)

LEMMA FillIs ==
    ASSUME NEW dir \in Dirs, NEW cnt \in Counts, Good(dir, cnt), NEW n \in Names, NEW a, NEW b,
           Filling(dir, cnt, n, a, b), NEW new, Fills(dir, new, n, a, b)
    PROVE  Filled(dir, cnt, n, a, b, new)
  <1>1. new \in Dirs /\ Good(new, cnt) /\ Filling(new, cnt, n, a, b + 1)  BY FillStep
  <1>2. NamesIn(new) = IF b = a + Frags[n] THEN NamesIn(dir) \cup {n} ELSE NamesIn(dir)  BY FillStep
  <1> QED BY <1>1, <1>2, Zenon DEF Filled

LEMMA StoresSlot ==
    ASSUME IInv, NEW o \in UpdateBuf(SectOf(call.pos)), call.pos \in Slots, o.ok
    PROVE  o.win.buf[call.pos] = Driver[call.pos]
  <1>1. MediumFits /\ SectOf(call.pos) \in Sects  BY SectorsFit DEF IInv, Ground
  <1>2. o.win.buf = View(SectOf(call.pos))  BY <1>1, SectorsFit, UpdateBufFits DEF MediumFits
  <1> QED BY <1>2 DEF Driver

LEMMA FillFine == ASSUME IInv, Fill PROVE Fine
  <1> DEFINE b == call.pos
             n == call.n
             a == First(call, b)
             v == Part(n, b - a)
             new == [Driver EXCEPT ![b] = v]
             c == [call EXCEPT !.left = @ - 1]
  <1>1. pc = "fill" /\ Place = "fill" /\ At = b  BY DEF Fill, Place, At
  <1>2. MediumFits /\ Ground /\ CallOk /\ b \in Slots /\ b \in Nat /\ call.left \in Nat /\ n \in Names
        /\ Driver \in Dirs /\ InView \in Counts /\ Good(Driver, InView) /\ call \in Calls /\ call.cnt = 0
        /\ Frags[n] \in 1 .. 20
    BY <1>1, CallIs
  <1>3. FillOk(Driver, InView, Medium, call, b)  BY <1>1, CallIs DEF PlaceOk
  <1>4. faults = 0 => Tidy(Driver, InView, a, a + Frags[n])  BY <1>1, CallIs DEF TidyOk
  <1>5. PICK o \in UpdateBuf(SectOf(b)) :
           \/ Fails(o)
           \/ /\ Writes(o, b, FillPart(call))
              /\ \/ call.left > 0 /\ Advance("fill", c)
                 \/ call.left = 0 /\ call.op = "add" /\ Return("NONE")
                 \/ call.left = 0 /\ call.op = "mkdir" /\ Goto("flush", call)
    BY DEF Fill
  <1>6. CASE Fails(o)
    <2>1. Looks  BY <1>6, SlotLooks DEF Fails
    <2> QED BY <1>6, <2>1, FailsFine
  <1>7. CASE /\ Writes(o, b, FillPart(call))
             /\ \/ call.left > 0 /\ Advance("fill", c)
                \/ call.left = 0 /\ call.op = "add" /\ Return("NONE")
                \/ call.left = 0 /\ call.op = "mkdir" /\ Goto("flush", call)
    <2>1. call.op \in {"add", "mkdir"} /\ n \notin NamesIn(Medium) /\ call.left <= Frags[n]
          /\ Filling(Driver, InView, n, a, b)
      BY <1>3 DEF FillOk
    <2>2. /\ a = b - (Frags[n] - call.left) /\ a \in Nat /\ b - a \in 0 .. Frags[n] /\ b <= a + Frags[n]
          /\ b = a + Frags[n] <=> call.left = 0
          /\ b - a < Frags[n] <=> call.left > 0
          /\ Frags[n] - (b - a) = call.left
      <3>1. a = b - (Frags[n] - call.left)  BY DEF First
      <3>2. a \in Nat  BY <2>1 DEF Filling
      <3>3. \A x, f, l, y \in Nat : l <= f /\ y = x - (f - l) =>
               /\ x - y \in 0 .. f /\ x <= y + f
               /\ x = y + f <=> l = 0
               /\ x - y < f <=> l > 0
               /\ f - (x - y) = l
        OBVIOUS
      <3>4. Frags[n] \in Nat  BY <1>2
      <3> HIDE DEF a, b, n
      <3> QED BY <1>2, <2>1, <3>1, <3>2, <3>3, <3>4
    <2>3. FillPart(call) = v
      <3>1. CASE call.left > 0
        <4>1. v = Lfn(n, Frags[n] - (b - a))  BY <2>2, <3>1 DEF Part
        <4> QED BY <2>2, <3>1, <4>1 DEF FillPart
      <3>2. CASE call.left = 0
        <4>1. v = Sfn(n)  BY <2>2, <3>2 DEF Part
        <4>2. ~(call.left > 0)  BY <3>2
        <4> QED BY <4>1, <4>2 DEF FillPart
      <3> QED BY <1>2, <3>1, <3>2
    <2>4. n \notin NamesIn(Driver)  BY <1>2, <2>1, <2>2, FillingShapes
    <2>5. Fills(Driver, new, n, a, b)  BY <1>2, <2>2 DEF Fills
    <2>6. v \in SlotVals  BY <1>2, <2>2, PartIs
    <2> HIDE DEF v
    <2>7. Puts(b, v)
      <3>1. Writes(o, b, v)  BY <1>7, <2>3, Zenon
      <3> QED BY <1>2, <2>6, <3>1, WritesSlot
    <2>8. Driver' = new  BY <2>7 DEF Puts
    <2> HIDE DEF new
    <2> HIDE DEF a
    <2>9. Filled(Driver, InView, n, a, b, new)  BY <1>2, <2>1, <2>5, FillIs
    <2>10. /\ new \in Dirs /\ Good(new, InView) /\ Filling(new, InView, n, a, b + 1)
           /\ call.left = 0 => NamesIn(new) = NamesIn(Driver) \cup {n}
           /\ call.left # 0 => NamesIn(new) = NamesIn(Driver)
      BY <2>2, <2>9 DEF Filled
    <2>11. /\ faults = 0 => Tidy(new, InView, a, a + Frags[n])
           /\ faults = 0 /\ call.left = 0 => Tidy(new, InView, 1, 0)
      BY <1>2, <1>4, <2>1, <2>2, <2>5, TidyFill
    <2>12. faults = 0 /\ Marked2(Driver, InView) => Marked2(new, InView)
      <3> SUFFICES ASSUME faults = 0, Marked2(Driver, InView) PROVE Marked2(new, InView)  OBVIOUS
      <3>1. MarkedIn(Driver, InView)  BY DEF Marked2
      <3>2. MarkedIn(new, InView)  BY <1>2, <2>1, <2>5, <3>1, MarkedFill
      <3>3. HiddenIn(new, InView)  BY <2>11, TidyHides
      <3> QED BY <3>2, <3>3 DEF Marked2
    <2>13. /\ Ground' /\ KeepsHidden /\ InView' = InView
           /\ NamesIn(Medium') \in {NamesIn(Medium), NamesIn(Driver)}
      BY <2>7, <2>8, <2>10, <2>12, PutsGround
    <2>14. faults' = faults  BY <1>7 DEF Writes
    <2>15. n \notin NamesIn(Medium')  BY <2>1, <2>4, <2>13
    <2>16. CASE call.left > 0 /\ Advance("fill", c)
      <3> DEFINE k == call.left - 1
      <3>1. k \in Nat /\ k <= Frags[n] /\ c = [call EXCEPT !.left = k]  BY <1>2, <2>1, <2>16
      <3>2. b + 1 - (Frags[n] - k) = a  BY <1>2, <2>2
      <3> HIDE DEF k
      <3>3. c \in Calls /\ c.op = call.op /\ c.n = n /\ c.pos = b /\ c.left = k /\ c.cnt = 0  BY <1>2, <3>1 DEF Calls
      <3> HIDE DEF c
      <3>4. CallOk' /\ ResOk' /\ Place' = "fill" /\ At' = b + 1 /\ call'.op = call.op /\ call'.n = n /\ call'.left = k
            /\ (PlaceOk' /\ TidyOk' => Rest')
        BY <1>1, <1>2, <2>13, <2>16, <3>3, AdvanceRest DEF Walks
      <3>5. First(call', At') = a  BY <1>2, <3>1, <3>2, <3>4 DEF First
      <3>6. FillOk(Driver', InView', Medium', call', At')
        BY <2>1, <2>8, <2>10, <2>13, <2>15, <3>1, <3>4, <3>5 DEF FillOk
      <3>7. PlaceOk'  BY <3>4, <3>6 DEF PlaceOk
      <3>8. TidyOk'  BY <2>8, <2>11, <2>13, <2>14, <3>4, <3>5 DEF TidyOk
      <3>9. NamesIn(Driver') = NamesIn(Driver)  BY <2>8, <2>10, <2>16
      <3>10. Moves  BY <1>2, <2>13, <3>4, <3>9, NamesStay
      <3> QED BY <2>13, <3>4, <3>7, <3>8, <3>10 DEF Fine, IInv
    <2>17. CASE call.left = 0
      <3>1. NamesIn(Driver') = NamesIn(Driver) \cup {n}  BY <2>8, <2>10, <2>17
      <3>2. faults' = 0 => Tidy(Driver', InView', 1, 0)  BY <2>8, <2>11, <2>13, <2>14, <2>17
      <3>3. CallOk' => Moves  BY <1>2, <2>1, <2>4, <2>13, <3>1, NamesGain
      <3>4. CASE call.op = "add" /\ Return("NONE")
        <4>1. res'.err = "NONE" /\ res'.op = "add" /\ res'.n = n  BY <3>4 DEF Return
        <4>2. ResOk'  BY <3>1, <4>1 DEF ResOk, Errs
        <4>3. Rest'  BY <3>2, <3>4, <4>2, ReturnRest DEF Errs
        <4> QED BY <2>13, <3>3, <4>3 DEF Fine, IInv, Rest
      <3>5. CASE call.op = "mkdir" /\ Goto("flush", call)
        <4>1. CallOk' /\ ResOk' /\ Place' = "flush" /\ call' = call /\ (PlaceOk' /\ TidyOk' => Rest')
          BY <1>1, <1>2, <2>13, <2>17, <3>5, CallIs, GotoRest DEF Pcs
        <4>2. FlushOk(Driver', call', faults')  BY <3>1, <3>5, <4>1 DEF FlushOk
        <4>3. PlaceOk'  BY <4>1, <4>2 DEF PlaceOk
        <4>4. TidyOk'  BY <3>2, <4>1 DEF TidyOk
        <4> QED BY <2>13, <3>3, <4>1, <4>3, <4>4 DEF Fine, IInv
      <3>6. ~(call.left > 0)  BY <2>17
      <3> QED BY <1>7, <3>4, <3>5, <3>6
    <2> QED BY <1>7, <2>16, <2>17
  <1> QED BY <1>5, <1>6, <1>7

LEMMA MarkFine == ASSUME IInv, Mark PROVE Fine
  <1> DEFINE b == call.pos
             n == call.n
             loc == call.loc
             f == Frags[n]
             c == [call EXCEPT !.pos = loc, !.loc = 0, !.cnt = 0, !.eod = FALSE, !.left = f]
  <1>1. pc = "room" /\ Place = "room" /\ At = b /\ call.cnt = f + 1  BY DEF Mark, Place, At, Need
  <1>2. MediumFits /\ Ground /\ CallOk /\ b \in Slots /\ b \in Nat /\ loc \in Slots /\ loc \in Nat /\ n \in Names
        /\ Driver \in Dirs /\ InView \in Counts /\ Good(Driver, InView) /\ call \in Calls /\ call.eod \in BOOLEAN
        /\ f \in 1 .. 20 /\ b < InView /\ InView \in Nat
    BY <1>1, CallIs
  <1>3. RoomOk(Driver, Medium, call, b)  BY <1>1, CallIs DEF PlaceOk
  <1>4. faults = 0 => Tidy(Driver, InView, 1, 0)  BY <1>1, CallIs DEF TidyOk
  <1>5. /\ call.op \in {"add", "mkdir"} /\ Missing(Driver, n) /\ n \notin NamesIn(Medium)
        /\ Run(Driver, loc, f + 1, call.eod, b)
    BY <1>1, <1>3 DEF RoomOk
  <1>6. loc < InView
    <2>1. loc + (f + 1) = b  BY <1>2, <1>5 DEF Run
    <2> QED BY <1>2, <2>1
  <1>7. c \in Calls /\ c.op = call.op /\ c.n = n /\ c.pos = loc /\ c.left = f /\ c.cnt = 0
    <2>1. 0 \in Slots /\ f \in Nat  BY <1>2, NoCallIs
    <2> QED BY <1>2, <2>1 DEF Calls
  <1>8. AtFirst(call) = c  BY DEF AtFirst
  <1> HIDE DEF c
  <1>9. n \notin NamesIn(Driver)  BY <1>5 DEF Missing, NamesIn, Whole
  (* What is left when the slots are known. *)
  <1>10. ASSUME Ground', KeepsHidden, InView' = InView, faults' = faults, Goto("fill", c),
                NamesIn(Medium') \in {NamesIn(Medium), NamesIn(Driver)}, NamesIn(Driver') = NamesIn(Driver),
                Filling(Driver', InView, n, loc, loc), faults = 0 => Tidy(Driver', InView, 1, 0)
         PROVE  Fine
    <2>1. CallOk' /\ ResOk' /\ Place' = "fill" /\ call' = c /\ (PlaceOk' /\ TidyOk' => Rest')
      BY <1>1, <1>2, <1>6, <1>7, <1>10, CallIs, GotoRest DEF Pcs
    <2>2. At' = loc  BY <1>7, <1>10, <2>1 DEF At, Goto
    <2>3. First(call', At') = loc
      <3>1. loc - (f - f) = loc  BY <1>2
      <3> QED BY <1>7, <2>1, <2>2, <3>1 DEF First
    <2>4. FillOk(Driver', InView', Medium', call', At')
      <3>1. n \notin NamesIn(Medium')  BY <1>5, <1>9, <1>10
      <3>2. f <= f  BY <1>2
      <3> QED BY <1>5, <1>7, <1>10, <2>1, <2>2, <2>3, <3>1, <3>2 DEF FillOk
    <2>5. PlaceOk'  BY <2>1, <2>4 DEF PlaceOk
    <2>6. TidyOk'
      <3>1. faults' = 0 => Tidy(Driver', InView', loc, loc + f)  BY <1>10, TidyWider
      <3> QED BY <1>7, <2>1, <2>3, <3>1 DEF TidyOk
    <2>7. Moves  BY <1>2, <1>10, <2>1, NamesStay
    <2> QED BY <1>10, <2>1, <2>5, <2>6, <2>7 DEF Fine, IInv
  <1>11. CASE call.eod
    <2> DEFINE v == [Driver[b] EXCEPT !.mark = "last"]
               new == [Driver EXCEPT ![b] = v]
    <2>1. PICK o \in UpdateBuf(SectOf(b)) :
             \/ Fails(o)
             \/ /\ Writes(o, b, [o.win.buf[b] EXCEPT !.mark = "last"])
                /\ Goto("fill", c)
      BY <1>8, <1>11 DEF Mark
    <2>2. CASE Fails(o)
      <3>1. Looks  BY <2>2, SlotLooks DEF Fails
      <3> QED BY <2>2, <3>1, FailsFine
    <2>3. CASE Writes(o, b, [o.win.buf[b] EXCEPT !.mark = "last"]) /\ Goto("fill", c)
      <3>1. Ends(Driver, new, b)  BY DEF Ends
      <3>2. Run(Driver, loc, f + 1, TRUE, b)  BY <1>2, <1>5, <1>11
      <3> HIDE DEF new
      <3>3. EndsAt(Driver, InView, n, loc, b, new)  BY <1>2, <1>5, <3>1, <3>2, MarkStep
      <3>4. /\ new = [Driver EXCEPT ![b] = v] /\ v \in SlotVals
            /\ new \in Dirs /\ Good(new, InView) /\ Filling(new, InView, n, loc, loc)
            /\ NamesIn(new) = NamesIn(Driver)
            /\ \A p \in Slots : Whole(Driver, p) => Whole(new, p) /\ Reach(new, p) = Reach(Driver, p)
            /\ \A p \in Slots : new[p].kind = Driver[p].kind /\ (new[p].mark = Driver[p].mark \/ new[p].mark = "last")
        BY <3>3, Zenon DEF EndsAt
      <3>5. Writes(o, b, v)
        <4>1. o.win.buf[b] = Driver[b]  BY <1>2, <2>3, StoresSlot DEF Writes
        <4> QED BY <2>3, <4>1, Zenon
      <3> HIDE DEF v
      <3>6. Puts(b, v)  BY <1>2, <3>4, <3>5, WritesSlot
      <3>7. Driver' = new  BY <3>4, <3>6 DEF Puts
      <3>8. Marked2(Driver, InView) => Marked2(new, InView)
        <4>1. \A p \in Slots : Driver[p].mark = "last" => new[p].mark = "last"  BY <3>4
        <4>2. \A p \in Slots : new[p].kind = Driver[p].kind  BY <3>4
        <4> QED BY <1>2, <4>1, <4>2, MarkedStays
      <3>9. /\ Ground' /\ KeepsHidden /\ InView' = InView
            /\ NamesIn(Medium') \in {NamesIn(Medium), NamesIn(Driver)}
        BY <3>4, <3>6, <3>7, <3>8, PutsGround
      <3>10. faults = 0 => Tidy(new, InView, 1, 0)
        <4>1. \A p \in Slots : new[p].mark = "used" => Driver[p].mark = "used"  BY <3>4
        <4>2. \A p \in Slots : new[p].kind = Driver[p].kind  BY <3>4
        <4>3. \A p \in Slots : Whole(Driver, p) => Whole(new, p) /\ Reach(new, p) = Reach(Driver, p)  BY <3>4
        <4>4. new \in Dirs  BY <3>4
        <4> QED BY <1>2, <1>4, <4>1, <4>2, <4>3, <4>4, TidyChange
      <3>11. faults' = faults  BY <2>3 DEF Writes
      <3> QED BY <1>10, <2>3, <3>4, <3>7, <3>9, <3>10, <3>11
    <2> QED BY <2>1, <2>2, <2>3
  <1>12. CASE ~call.eod
    <2>1. Goto("fill", c) /\ UNCHANGED <<disk, win, faults>>  BY <1>8, <1>12 DEF Mark
    <2>2. Looks /\ faults' = faults  BY <1>2, <2>1, UnchangedLooks
    <2>3. /\ Ground' /\ KeepsHidden /\ Driver' = Driver /\ InView' = InView
          /\ NamesIn(Medium') \in {NamesIn(Medium), NamesIn(Driver)}
      BY <2>2, LooksFine
    <2>4. Filling(Driver, InView, n, loc, loc)  BY <1>2, <1>5, <1>12, RunFills
    <2> QED BY <1>4, <1>10, <2>1, <2>2, <2>3, <2>4
  <1> QED BY <1>2, <1>11, <1>12

(* The sectors and the slots of the last cluster. *)
LEMMA LastCluster ==
    ASSUME NEW n \in 1 .. MaxClust, NEW b \in Nat, b + ClustSlots = n * ClustSlots, NEW l \in Nat, l < SectsPerClust
    PROVE  /\ b \in Slots /\ SectOf(b) \in Nat /\ SectOf(b) + l \in DirSects
           /\ \A p \in Slots : SectOf(p) \in Nat /\ (p < b <=> SectOf(p) < SectOf(b))
           /\ \A p \in Slots : p < n * ClustSlots => SectOf(p) < SectOf(b) + SectsPerClust
  <1> DEFINE S == SectsPerClust
             P == PerSect
             k == (n - 1) * S
  <1>1. S \in Nat /\ S > 0 /\ P \in Nat /\ P > 0 /\ MaxClust \in Nat /\ ClustSlots = P * S /\ n \in Nat /\ n > 0 /\ n <= MaxClust
        /\ ClustSlots > 0
    BY Constants DEF ClustSlots
  <1>2. k \in Nat /\ b = k * P /\ k + S = n * S
    <2>1. n - 1 \in Nat  BY <1>1
    <2>2. \A m, s, q \in Nat : m * s \in Nat /\ (m * s) * q = m * (q * s) /\ (m + 1) * s = m * s + s  OBVIOUS
    <2> DEFINE m == n - 1
    <2>3. n = m + 1  BY <1>1
    <2> HIDE DEF m
    <2>4. n * ClustSlots = m * (P * S) + P * S /\ m * (P * S) \in Nat /\ P * S \in Nat
      BY <1>1, <2>1, <2>2, <2>3 DEF m
    <2>5. b = m * (P * S)
      <3> DEFINE x == m * (P * S)
                 y == P * S
                 z == n * ClustSlots
      <3>1. z = x + y /\ x \in Nat /\ y \in Nat /\ b + y = z  BY <1>1, <2>4
      <3> HIDE DEF x, y, z
      <3>2. b = x  BY <3>1
      <3> QED BY <3>2 DEF x
    <2>6. m * S \in Nat /\ (m * S) * P = m * (P * S) /\ n * S = m * S + S  BY <1>1, <2>1, <2>2, <2>3 DEF m
    <2> QED BY <2>5, <2>6 DEF m
  <1> HIDE DEF k, S, P
  <1>3. SectOf(b) = k
    <2>1. k * P \in Nat /\ (k + 1) * P = k * P + P  BY <1>1, <1>2
    <2>2. k * P <= b /\ b < (k + 1) * P
      <3> DEFINE x == k * P
                 y == (k + 1) * P
      <3>1. x \in Nat /\ y = x + P /\ b = x  BY <1>2, <2>1
      <3> HIDE DEF x, y
      <3>2. x <= b /\ b < y  BY <1>1, <3>1
      <3> QED BY <3>2 DEF x, y
    <2> QED BY <1>1, <1>2, <2>2, Division DEF SectOf, P
  <1>4. n * S <= MaxClust * S /\ MaxClust * S \in Nat
    <2>1. MaxClust - n \in Nat /\ (MaxClust - n) * S \in Nat  BY <1>1
    <2>2. (MaxClust - n) * S = MaxClust * S - n * S  BY <1>1
    <2>3. n * S \in Nat /\ MaxClust * S \in Nat  BY <1>1
    <2> QED BY <2>1, <2>2, <2>3
  <1>5. SectOf(b) + l \in DirSects
    <2> DEFINE x == n * S
               y == MaxClust * S
    <2>1. x \in Nat /\ y \in Nat /\ x <= y /\ k + S = x /\ l < S  BY <1>1, <1>2, <1>4 DEF S
    <2> HIDE DEF x, y
    <2>2. k + l \in 0 .. (y - 1)  BY <1>1, <1>2, <2>1
    <2> QED BY <1>3, <2>2 DEF DirSects, y, S
  <1>6. b \in Slots
    <2>1. n * ClustSlots \in Counts  BY CountsAre
    <2>2. b < n * ClustSlots  BY <1>1, Constants
    <2>3. b < Size
      <3> DEFINE x == n * ClustSlots
      <3>1. x \in Nat /\ x <= Size /\ Size \in Nat /\ b < x  BY <2>1, <2>2, SlotIs DEF Counts
      <3> HIDE DEF x
      <3> QED BY <3>1
    <2> QED BY <2>3, SlotIs
  <1>7. ASSUME NEW p \in Slots
        PROVE  /\ SectOf(p) \in Nat /\ (p < b <=> SectOf(p) < SectOf(b))
               /\ p < n * ClustSlots => SectOf(p) < SectOf(b) + SectsPerClust
    <2>1. p \in Nat  BY SlotIs
    <2>2. SectOf(p) \in Nat /\ \A s \in Nat : SectOf(p) < s <=> p < s * P  BY <1>1, <2>1, Division DEF SectOf, P
    <2>3. p < b <=> SectOf(p) < k  BY <1>2, <2>2
    <2>4. n * ClustSlots = (k + S) * P
      <3>1. (n * S) * P = n * (P * S)
        <4>1. \A m, s, q \in Nat : (m * s) * q = m * (q * s)  OBVIOUS
        <4> QED BY <1>1, <4>1
      <3> QED BY <1>1, <1>2, <3>1
    <2>5. p < n * ClustSlots => SectOf(p) < k + S
      <3>1. k + S \in Nat  BY <1>1, <1>2
      <3>2. SectOf(p) < k + S <=> p < (k + S) * P  BY <2>2, <3>1
      <3> QED BY <2>4, <3>2, Zenon
    <2> QED BY <1>3, <2>2, <2>3, <2>5 DEF S
  <1> QED BY <1>2, <1>3, <1>5, <1>6, <1>7

(* Clearing what is foreign. *)
LEMMA ClearedKeeps ==
    ASSUME NEW d \in Dirs, NEW v \in Counts, Good(d, v), NEW b \in Nat, NEW new \in Dirs, Differs(d, new, b),
           NEW m, NEW c, RoomOk(d, m, c, b), NEW m2, c.n \notin NamesIn(m2), NEW e,
           e.op = c.op, e.n = c.n, e.loc = c.loc, e.cnt = c.cnt, e.eod = c.eod
    PROVE  RoomOk(new, m2, e, b)
  <1>1. c.op \in {"add", "mkdir"} /\ Missing(d, c.n) /\ c.cnt <= Frags[c.n] + 1 /\ Run(d, c.loc, c.cnt, c.eod, b)
    BY DEF RoomOk
  <1>2. /\ \A p \in Slots : /\ HeadAt(new, p) <=> HeadAt(d, p)
                            /\ SfnAt(new, p) <=> SfnAt(d, p)
                            /\ Whole(new, p) <=> Whole(d, p)
                            /\ HeadAt(d, p) \/ SfnAt(d, p) => p < b /\ new[p] = d[p]
                            /\ HeadAt(d, p) => Reach(new, p) = Reach(d, p)
    BY ForeignChange
  <1>3. Missing(new, c.n)  BY <1>1, <1>2 DEF Missing
  <1>4. \A p \in Slots : p < b => new[p] = d[p]  BY DEF Differs
  <1>5. Run(new, c.loc, c.cnt, c.eod, b)  BY <1>1, <1>4, RunStays
  <1> QED BY <1>1, <1>3, <1>5 DEF RoomOk

(* What a cleared sector of the last cluster leaves of the directory. *)
LEMMA ClearsGround ==
    ASSUME IInv, pc = "clear", NEW s, s = SectOf(call.pos) + call.left, Clears(s)
    PROVE  /\ Ground' /\ KeepsHidden /\ InView' = InView /\ Driver' = Cleared(s)
           /\ NamesIn(Driver') = NamesIn(Driver) /\ NamesIn(Medium') \in {NamesIn(Medium), NamesIn(Driver)}
           /\ Differs(Driver, Driver', call.pos)
           /\ faults = 0 => Tidy(Driver', call.pos, 1, 0)
  <1> DEFINE b == call.pos
             new == Cleared(s)
  <1>1. Place = "clear" /\ At = b  BY DEF Place, At
  <1>2. MediumFits /\ Ground /\ CallOk /\ b \in Slots /\ b \in Nat /\ call.left \in Nat
        /\ Driver \in Dirs /\ InView \in Counts /\ Good(Driver, InView)
    BY CallIs
  <1>3. FreshOk(Driver, InView, Medium, call, b) /\ call.left < SectsPerClust
    BY <1>1, CallIs DEF PlaceOk, ClearOk
  <1>4. faults = 0 => Tidy(Driver, b, 1, 0)  BY <1>1, CallIs DEF TidyOk
  <1>5. PICK n \in 1 .. MaxClust : InView = n * ClustSlots  BY <1>2, GroundIs
  <1>6. b + ClustSlots = InView /\ \A p \in Slots : b <= p => Foreign(Driver[p])  BY <1>3 DEF FreshOk
  <1>7. SectOf(b) \in Nat /\ \A p \in Slots : SectOf(p) \in Nat /\ (p < b <=> SectOf(p) < SectOf(b))
    BY <1>2, <1>3, <1>5, <1>6, LastCluster
  <1>8. \A p \in Slots : p < b => SectOf(p) # s  BY <1>2, <1>7
  <1>9. new \in Dirs /\ Driver' = new /\ InView' = InView /\ Zero \in SlotVals
    <2>1. Zero \in SlotVals  BY DEF Zero, SlotVals, Marks, Kinds
    <2> QED BY <1>2, <2>1 DEF Clears, Cleared, Dirs
  <1>10. \A p \in Slots : new[p] = Driver[p] \/ new[p] = Zero  BY DEF Cleared
  <1>11. Foreign(Zero) /\ Zero.mark = "last" /\ Zero.kind = "none"  BY DEF Foreign, Zero
  <1>12. Differs(Driver, new, b)
    <2>1. \A p \in Slots : p < b => new[p] = Driver[p]  BY <1>8 DEF Cleared
    <2>2. \A p \in Slots : ~(p < b) => Foreign(Driver[p]) /\ Foreign(new[p])
      <3> SUFFICES ASSUME NEW p \in Slots, ~(p < b) PROVE Foreign(Driver[p]) /\ Foreign(new[p])
        OBVIOUS
      <3>1. b <= p  BY <1>2, SlotIs
      <3>2. Foreign(Driver[p])  BY <1>6, <3>1
      <3>3. CASE new[p] = Driver[p]  BY <3>2, <3>3
      <3>4. CASE new[p] = Zero  BY <1>11, <3>2, <3>4
      <3> QED BY <1>10, <3>3, <3>4
    <2> QED BY <2>1, <2>2 DEF Differs
  <1> HIDE DEF new
  <1>13. Good(new, InView) /\ NamesIn(new) = NamesIn(Driver)
    <2>1. Good(new, InView)  BY <1>2, <1>9, <1>12, ForeignChange
    <2>2. NamesIn(new) = NamesIn(Driver)  BY <1>2, <1>9, <1>12, ForeignChange
    <2> QED BY <2>1, <2>2
  <1>14. Marked2(Driver, InView) => Marked2(new, InView)
    <2>1. \A p \in Slots : Driver[p].mark = "last" => new[p].mark = "last"  BY <1>10, <1>11
    <2>2. \A p \in Slots : p < InView /\ new[p].mark # "last" =>
             new[p].kind \notin {"junk", "alien"} \/ new[p].kind = Driver[p].kind
      BY <1>10, <1>11
    <2> QED BY <1>2, <2>1, <2>2, MarkedStays
  <1>15. MediumFits' /\ Calm /\ (Stays \/ (Medium' = Driver' /\ OnDisk' = InView))  BY DEF Clears
  <1>16. Ground' /\ KeepsHidden
    <2>1. Good(Driver, InView)'  BY <1>9, <1>13
    <2>2. faults = 0 /\ Marked2(Driver, InView) => Marked2(Driver, InView)'  BY <1>9, <1>14
    <2>3. Stays \/ Settles \/ (Medium' = Driver' /\ OnDisk' = InView')  BY <1>9, <1>15
    <2> QED BY <1>2, <1>15, <2>1, <2>2, <2>3, Turns
  <1>17. NamesIn(Driver') = NamesIn(Driver) /\ NamesIn(Medium') \in {NamesIn(Medium), NamesIn(Driver)}
    BY <1>9, <1>13, <1>15 DEF Stays
  <1>18. faults = 0 => Tidy(new, b, 1, 0)
    <2>1. \A p \in Slots : Whole(Driver, p) => Whole(new, p) /\ Reach(new, p) = Reach(Driver, p)
      <3>1. \A p \in Slots : /\ Whole(new, p) <=> Whole(Driver, p)
                             /\ HeadAt(Driver, p) => Reach(new, p) = Reach(Driver, p)
        BY <1>2, <1>9, <1>12, ForeignChange
      <3> QED BY <3>1 DEF Whole
    <2>2. \A p \in Slots : p < b => new[p] = Driver[p]  BY <1>12 DEF Differs
    <2>3. \A p \in Slots : p < b => (new[p].mark = "used" => Driver[p].mark = "used")  BY <2>2
    <2>4. \A p \in Slots : p < b => new[p].kind \notin {"junk", "alien"} \/ new[p].kind = Driver[p].kind  BY <2>2
    <2> QED BY <1>2, <1>4, <1>9, <2>1, <2>3, <2>4, TidyChange
  <1> QED BY <1>9, <1>12, <1>16, <1>17, <1>18 DEF new

LEMMA ClearFine == ASSUME IInv, Clear PROVE Fine
  <1> DEFINE b == call.pos
             s == SectOf(b) + call.left
             cells == [p \in Cells(s) |-> Zero]
             zeros == [sect |-> s, buf |-> cells, dirty |-> TRUE]
             written == [disk EXCEPT ![s] = cells]
  <1>1. pc = "clear" /\ Place = "clear" /\ At = b  BY DEF Clear, Place, At
  <1>2. MediumFits /\ Ground /\ CallOk /\ b \in Slots /\ b \in Nat /\ call.left \in Nat /\ call \in Calls
        /\ Driver \in Dirs /\ InView \in Counts /\ Good(Driver, InView) /\ faults \in 0 .. MaxFaults
        /\ call.op \in Ops \ {"sync"} /\ call.n \in Names /\ b < InView /\ InView \in Nat
    BY <1>1, CallIs, GroundIs
  <1>3. /\ RoomOk(Driver, Medium, call, b) /\ b + ClustSlots = InView
        /\ \A p \in Slots : b <= p => Foreign(Driver[p])
        /\ ~win.dirty /\ call.left < SectsPerClust
        /\ \A p \in Slots : b <= p /\ SectOf(p) < SectOf(b) + call.left => Driver[p] = Zero
    BY <1>1, CallIs DEF PlaceOk, ClearOk, FreshOk
  <1>4. PICK n \in 1 .. MaxClust : InView = n * ClustSlots  BY <1>2, GroundIs
  <1>5. /\ s \in DirSects /\ SectOf(b) \in Nat
        /\ \A p \in Slots : SectOf(p) \in Nat /\ (p < b <=> SectOf(p) < SectOf(b))
        /\ \A p \in Slots : p < InView => SectOf(p) < SectOf(b) + SectsPerClust
    BY <1>2, <1>3, <1>4, LastCluster
  <1>6. \/ \E d \in {disk, written} : Fails([win |-> zeros, disk |-> d, ok |-> FALSE])
        \/ /\ Took([win |-> [zeros EXCEPT !.dirty = FALSE], disk |-> written, ok |-> TRUE])
           /\ IF call.left + 1 < SectsPerClust
              THEN Goto("clear", [call EXCEPT !.left = @ + 1])
              ELSE Goto("room", [call EXCEPT !.left = 0])
    BY DEF Clear, ToClear
  <1> HIDE DEF s, cells
  <1>7. CASE \E d \in {disk, written} : Fails([win |-> zeros, disk |-> d, ok |-> FALSE])
    <2>1. PICK d \in {disk, written} : Fails([win |-> zeros, disk |-> d, ok |-> FALSE])  BY <1>7
    <2>2. win' = zeros /\ disk' = d /\ faults < MaxFaults /\ faults' = faults + 1 /\ Return("IO")
      BY <2>1 DEF Fails, Took
    <2>3. faults' \in 0 .. MaxFaults /\ faults' # 0 /\ Calm  BY <1>2, <2>2, Constants DEF Calm
    <2>4. win' \in [sect : {s}, buf : {cells}, dirty : BOOLEAN] /\ win'.dirty  BY <2>2
    <2>5. Clears(s)  BY <1>2, <1>3, <1>5, <2>2, <2>3, <2>4, ClearsSector DEF cells
    <2>6. Ground' /\ KeepsHidden /\ NamesIn(Driver') = NamesIn(Driver) /\ NamesIn(Medium') \in {NamesIn(Medium), NamesIn(Driver)}
      BY <1>1, <2>5, ClearsGround DEF s
    <2>7. Rest'  BY <2>2, <2>3, ErrorRest DEF Errs
    <2>8. Moves  BY <1>2, <2>6, <2>7, NamesStay DEF Rest
    <2> QED BY <2>6, <2>7, <2>8 DEF Fine, IInv
  <1>8. CASE /\ Took([win |-> [zeros EXCEPT !.dirty = FALSE], disk |-> written, ok |-> TRUE])
             /\ IF call.left + 1 < SectsPerClust
                THEN Goto("clear", [call EXCEPT !.left = @ + 1])
                ELSE Goto("room", [call EXCEPT !.left = 0])
    <2>2. win' = [sect |-> s, buf |-> cells, dirty |-> FALSE] /\ disk' = written /\ faults' = faults
      BY <1>8 DEF Took
    <2>3. faults' \in 0 .. MaxFaults /\ Calm  BY <1>2, <2>2 DEF Calm
    <2>4. win' \in [sect : {s}, buf : {cells}, dirty : BOOLEAN] /\ ~win'.dirty  BY <2>2
    <2>5. Clears(s)  BY <1>2, <1>3, <1>5, <2>2, <2>3, <2>4, ClearsSector DEF cells
    <2>6. /\ Ground' /\ KeepsHidden /\ NamesIn(Driver') = NamesIn(Driver) /\ NamesIn(Medium') \in {NamesIn(Medium), NamesIn(Driver)}
          /\ InView' = InView /\ Driver' = Cleared(s) /\ Differs(Driver, Driver', b)
          /\ faults = 0 => Tidy(Driver', b, 1, 0)
      BY <1>1, <2>5, ClearsGround DEF s
    <2>7. call.n \notin NamesIn(Medium')
      BY <1>3, <2>6 DEF RoomOk, Missing, NamesIn, Whole
    <2>8. Driver' \in Dirs  BY <2>6, GroundThen
    <2>9. \A p \in Slots : b <= p /\ SectOf(p) < SectOf(b) + (call.left + 1) => Driver'[p] = Zero
      <3> SUFFICES ASSUME NEW p \in Slots, b <= p, SectOf(p) < SectOf(b) + (call.left + 1) PROVE Driver'[p] = Zero
        OBVIOUS
      <3>1. CASE SectOf(p) = s  BY <2>6, <3>1 DEF Cleared
      <3>2. CASE SectOf(p) # s
        <4>1. SectOf(p) < SectOf(b) + call.left  BY <1>2, <1>5, <3>2 DEF s
        <4>2. Driver[p] = Zero  BY <1>3, <4>1
        <4> QED BY <2>6, <3>2, <4>2 DEF Cleared
      <3> QED BY <3>1, <3>2
    <2>10. ASSUME NEW e, e.op = call.op, e.n = call.n, e.loc = call.loc, e.cnt = call.cnt, e.eod = call.eod
           PROVE  RoomOk(Driver', Medium', e, b)
      BY <1>2, <1>3, <2>6, <2>7, <2>8, <2>10, ClearedKeeps
    <2>11. \A p \in Slots : b <= p => Foreign(Driver'[p])
      <3> SUFFICES ASSUME NEW p \in Slots, b <= p PROVE Foreign(Driver'[p])
        OBVIOUS
      <3>1. ~(p < b)  BY <1>2, SlotIs
      <3> QED BY <2>6, <3>1 DEF Differs
    <2>12. Rest'
      <3>1. CASE call.left + 1 < SectsPerClust
        <4> DEFINE k == call.left + 1
                   c == [call EXCEPT !.left = k]
        <4>1. Goto("clear", c)  BY <1>8, <3>1
        <4>2. k \in Nat /\ k < SectsPerClust  BY <1>2, <3>1
        <4>k. \A p \in Slots : b <= p /\ SectOf(p) < SectOf(b) + k => Driver'[p] = Zero  BY <2>9
        <4> HIDE DEF k
        <4>3. /\ c \in Calls /\ c.op = call.op /\ c.n = call.n /\ c.pos = b /\ c.left = k
              /\ c.loc = call.loc /\ c.cnt = call.cnt /\ c.eod = call.eod
          BY <1>2, <4>2 DEF Calls
        <4> HIDE DEF c
        <4>4. Place' = "clear" /\ call' = c /\ (PlaceOk' /\ TidyOk' => Rest')
          BY <1>1, <1>2, <2>6, <4>1, <4>3, GotoRest DEF Pcs
        <4>5. At' = b  BY <4>1, <4>3, <4>4 DEF At, Goto
        <4>6. RoomOk(Driver', Medium', c, b)  BY <2>10, <4>3
        <4>7. ClearOk(Driver', InView', Medium', call', At', win')
          BY <1>3, <2>4, <2>6, <2>11, <4>k, <4>2, <4>3, <4>4, <4>5, <4>6 DEF ClearOk, FreshOk
        <4>8. PlaceOk'  BY <4>4, <4>7 DEF PlaceOk
        <4>9. TidyOk'  BY <2>2, <2>6, <4>4, <4>5 DEF TidyOk
        <4> QED BY <4>4, <4>8, <4>9
      <3>2. CASE ~(call.left + 1 < SectsPerClust)
        <4> DEFINE c == [call EXCEPT !.left = 0]
        <4>1. Goto("room", c)  BY <1>8, <3>2
        <4>3. /\ c \in Calls /\ c.op = call.op /\ c.n = call.n /\ c.pos = b /\ c.left = 0
              /\ c.loc = call.loc /\ c.cnt = call.cnt /\ c.eod = call.eod
          BY <1>2 DEF Calls
        <4> HIDE DEF c
        <4>4. Place' = "room" /\ call' = c /\ (PlaceOk' /\ TidyOk' => Rest')
          BY <1>1, <1>2, <2>6, <4>1, <4>3, GotoRest DEF Pcs
        <4>5. At' = b  BY <4>1, <4>3, <4>4 DEF At, Goto
        <4>6. RoomOk(Driver', Medium', call', At')  BY <2>10, <4>3, <4>4, <4>5
        <4>8. PlaceOk'  BY <4>4, <4>6 DEF PlaceOk
        <4>9. faults = 0 => Tidy(Driver', InView, 1, 0)
          <5>1. ASSUME NEW p \in Slots, p < InView, ~(p < b) PROVE Driver'[p] = Zero
            <6>1. SectOf(p) < SectOf(b) + SectsPerClust /\ SectOf(p) \in Nat /\ SectOf(b) \in Nat  BY <1>5, <5>1
            <6>2. call.left + 1 = SectsPerClust  BY <1>2, <1>3, <3>2, Constants
            <6>3. b <= p  BY <1>2, <5>1, SlotIs
            <6> QED BY <2>9, <6>1, <6>2, <6>3
          <5>2. Zero.mark = "last" /\ Zero.kind = "none"  BY DEF Zero
          <5> QED BY <2>6, <5>1, <5>2 DEF Tidy
        <4>10. TidyOk'  BY <2>2, <2>6, <4>4, <4>9 DEF TidyOk
        <4> QED BY <4>4, <4>8, <4>10
      <3> QED BY <3>1, <3>2
    <2>13. Moves  BY <1>2, <2>6, <2>12, NamesStay DEF Rest
    <2> QED BY <2>6, <2>12, <2>13 DEF Fine, IInv
  <1> QED BY <1>6, <1>7, <1>8

(* Power is lost. *)
LEMMA CrashFine == ASSUME IInv, Crash PROVE Fine /\ Right
  <1>1. MediumFits /\ Ground  BY DEF IInv, Ground
  <1>2. MediumFits' /\ faults' # 0 /\ Driver' = Medium /\ InView' = OnDisk /\ Medium' = Medium /\ OnDisk' = OnDisk
    BY <1>1, CrashTurns DEF Stays
  <1>3. Ground'  BY <1>1, <1>2 DEF Ground, MarkOk
  <1>4. KeepsHidden  BY <1>2 DEF KeepsHidden, Marked2
  <1>5. pc' = "idle" /\ call' = NoCall /\ res' = NoRes  BY DEF Crash
  <1>6. Place' = "idle"  BY <1>5 DEF Place
  <1>7. CallOk'
    <2>1. call'.left = 0 /\ call'.cnt = 0  BY <1>5 DEF NoCall
    <2> QED BY <1>5, <2>1, NoCallIs DEF CallOk, Pcs
  <1>8. ResOk'  BY <1>5 DEF ResOk, NoRes
  <1>9. PlaceOk' /\ TidyOk'  BY <1>2, <1>6 DEF PlaceOk, TidyOk
  <1>10. Moves
    <2>1. Seen' = Kept' /\ Kept' = Kept  BY <1>1, <1>2, <1>3, GroundIs, GroundThen
    <2> QED BY <1>7, <2>1, RequestIs DEF Moves, Store!Next, Store!Follows, Store!Crash
  <1>11. Right
    <2>1. faults' = faults + 1 /\ faults \in Nat  BY Constants DEF Crash, IInv, Ground, MediumFits
    <2>2. faults' # faults  BY <2>1
    <2> QED BY <2>2, RightOtherwise
  <1> QED BY <1>3, <1>4, <1>7, <1>8, <1>9, <1>10, <1>11 DEF Fine, IInv, Rest

LEMMA StutterKeeps == ASSUME IInv, UNCHANGED vars PROVE IInv'
  <1>1. UNCHANGED <<disk, win, faults>> /\ pc' = pc /\ call' = call /\ res' = res  BY DEF vars
  <1>2. Looks /\ Medium' = Medium /\ faults' = faults /\ win' = win
    BY <1>1, UnchangedLooks DEF IInv, Ground, Stays
  <1>3. Ground' /\ Driver' = Driver /\ InView' = InView  BY <1>2, LooksFine
  <1>4. At' = At /\ Place' = Place  BY <1>1 DEF At, Place
  <1>5. CallOk'  BY <1>1, <1>3, <1>4 DEF IInv, Rest, CallOk
  <1>6. ResOk'  BY <1>1, <1>2, <1>3 DEF IInv, Rest, ResOk
  <1>7. PlaceOk'  BY <1>1, <1>2, <1>3, <1>4 DEF IInv, Rest, PlaceOk
  <1>8. TidyOk'  BY <1>1, <1>2, <1>3, <1>4 DEF IInv, Rest, TidyOk
  <1> QED BY <1>3, <1>5, <1>6, <1>7, <1>8 DEF IInv, Rest

LEMMA NextFine == ASSUME IInv, Next PROVE Fine /\ Right
  <1>1. CASE \E op \in Ops \ {"sync"}, n \in Names : Begin(op, n)
    <2>1. PICK op \in Ops \ {"sync"}, n \in Names : Begin(op, n)  BY <1>1
    <2>2. ~Searching  BY <2>1 DEF Begin, Searching
    <2> QED BY <2>1, <2>2, BeginFine, RightOtherwise
  <1>2. CASE BeginSync
    <2>1. ~Searching  BY <1>2 DEF BeginSync, Searching
    <2> QED BY <1>2, <2>1, BeginSyncFine, RightOtherwise
  <1>3. CASE Search  BY <1>3, SearchFine
  <1>4. CASE Parse  BY <1>4, ParseFine
  <1>5. CASE NextInChain  BY <1>5, NextInChainFine
  <1>6. CASE \/ Alloc \/ AllocSync \/ Dots \/ Room \/ Grow \/ GrowSync \/ Clear \/ Mark \/ Fill
             \/ Release \/ ReleaseSync \/ Unmark \/ Flush
    <2>1. ~Searching
      BY <1>6, Zenon DEF Searching, Alloc, AllocSync, Dots, Room, Grow, GrowSync, Clear, Mark, Fill,
                  Release, ReleaseSync, Unmark, Flush
    <2>2. Fine
      BY <1>6, AllocFine, AllocSyncFine, DotsFine, RoomFine, GrowFine, GrowSyncFine, ClearFine, MarkFine,
         FillFine, ReleaseFine, ReleaseSyncFine, UnmarkFine, FlushFine
    <2>3. Right  BY <2>1, RightOtherwise
    <2> QED BY <2>2, <2>3
  <1>7. CASE Crash  BY <1>7, CrashFine
  <1> QED BY <1>1, <1>2, <1>3, <1>4, <1>5, <1>6, <1>7 DEF Next, Step
-----------------------------------------------------------------------------
(* What the directory holds at first. *)
LEMMA FirstSlots ==
    ASSUME NEW seed \in Seeds, NEW junk \in Junk, NEW at \in [DOMAIN seed -> 0 .. ClustSlots - 1], Laid(seed, at)
    PROVE  /\ \A i \in DOMAIN seed : /\ seed[i] \in Names /\ at[i] \in Nat /\ at[i] \in Slots
                                     /\ Frags[seed[i]] \in 1 .. 20 /\ at[i] + Frags[seed[i]] < ClustSlots
           /\ \A i, j \in DOMAIN seed : i = j \/ at[i] + Frags[seed[i]] < at[j] \/ at[j] + Frags[seed[j]] < at[i]
           /\ \A p \in Slots, i \in DOMAIN seed :
                 p \in Held(seed, at, i) => FirstSlot(seed, at, junk, p) = Part(seed[i], p - at[i])
           /\ \A p \in Slots : (\A i \in DOMAIN seed : p \notin Held(seed, at, i)) =>
                 FirstSlot(seed, at, junk, p) = IF p < ClustSlots THEN Zero ELSE junk
  <1> DEFINE D == DOMAIN seed
  <1>1. seed \in Seq(Names)  BY DirAssumption
  <1>2. \A i \in D : seed[i] \in Names /\ i \in Int  BY <1>1
  <1>3. \A i \in D : /\ seed[i] \in Names /\ at[i] \in Nat
                     /\ Frags[seed[i]] \in 1 .. 20 /\ at[i] + Frags[seed[i]] < ClustSlots
    <2> TAKE i \in D
    <2>1. seed[i] \in Names /\ at[i] \in 0 .. ClustSlots - 1 /\ Frags[seed[i]] \in 1 .. 20 /\ ClustSlots \in Nat
      BY <1>2, Constants
    <2>2. at[i] + Frags[seed[i]] \in Held(seed, at, i)  BY <2>1 DEF Held
    <2>3. at[i] + Frags[seed[i]] \in 0 .. ClustSlots - 1  BY <2>2 DEF Laid
    <2> QED BY <2>1, <2>3
  <1>4. \A i \in D : at[i] \in Slots
    <2>1. ClustSlots \in Counts
      <3>1. 1 \in 1 .. MaxClust /\ 1 * ClustSlots = ClustSlots  BY Constants
      <3> QED BY <3>1, CountsAre
    <2>2. ClustSlots \in Nat /\ ClustSlots <= Size /\ Size \in Nat  BY <2>1, SlotIs DEF Counts
    <2>3. \A i \in D : at[i] \in Nat /\ at[i] < ClustSlots  BY <1>3, <2>2
    <2> QED BY <2>2, <2>3, SlotIs
  <1>5. \A i, j \in D : i = j \/ at[i] + Frags[seed[i]] < at[j] \/ at[j] + Frags[seed[j]] < at[i]
    <2>1. \A i, j \in D : i = j \/ i < j \/ j < i  BY <1>2
    <2> QED BY <2>1 DEF Laid
  <1>6. ASSUME NEW p \in Slots, NEW i \in D, p \in Held(seed, at, i)
        PROVE  FirstSlot(seed, at, junk, p) = Part(seed[i], p - at[i])
    <2> DEFINE here == {j \in D : p \in Held(seed, at, j)}
    <2>1. here = {i}
      <3> SUFFICES ASSUME NEW j \in D, p \in Held(seed, at, j) PROVE j = i
        BY <1>6
      <3>1. p \in Nat  BY SlotIs
      <3>2. at[i] <= p /\ p <= at[i] + Frags[seed[i]] /\ at[j] <= p /\ p <= at[j] + Frags[seed[j]]
        BY <1>3, <1>6, <3>1 DEF Held
      <3> QED BY <1>3, <1>5, <3>1, <3>2
    <2>2. FirstSlot(seed, at, junk, p) = Entry[seed[i]][p - at[i] + 1]
      <3>1. (CHOOSE j \in here : TRUE) = i  BY <2>1
      <3>2. here # {}  BY <2>1
      <3> QED BY <3>1, <3>2 DEF FirstSlot
    <2>3. p - at[i] \in 0 .. Frags[seed[i]]
      <3>1. p \in Nat  BY SlotIs
      <3> QED BY <1>3, <1>6, <3>1 DEF Held
    <2> QED BY <1>3, <2>2, <2>3, PartIs
  <1>7. ASSUME NEW p \in Slots, \A i \in D : p \notin Held(seed, at, i)
        PROVE  FirstSlot(seed, at, junk, p) = IF p < ClustSlots THEN Zero ELSE junk
    <2>1. {j \in D : p \in Held(seed, at, j)} = {}  BY <1>7
    <2> QED BY <2>1 DEF FirstSlot
  <1> QED BY <1>3, <1>4, <1>5, <1>6, <1>7

LEMMA FirstIsGood ==
    ASSUME NEW seed \in Seeds, NEW junk \in Junk, NEW at \in [DOMAIN seed -> 0 .. ClustSlots - 1], Laid(seed, at),
           NEW d, d = [p \in Slots |-> FirstSlot(seed, at, junk, p)]
    PROVE  d \in Dirs /\ Good(d, ClustSlots) /\ Tidy(d, ClustSlots, 1, 0)
  <1> DEFINE D == DOMAIN seed
             e(i) == at[i] + Frags[seed[i]]
             In(p, i) == at[i] <= p /\ p <= e(i)
  <1>1. \A i \in D : /\ seed[i] \in Names /\ at[i] \in Nat /\ at[i] \in Slots /\ e(i) \in Nat
                     /\ Frags[seed[i]] \in 1 .. 20 /\ e(i) < ClustSlots /\ at[i] < e(i)
    BY FirstSlots
  <1>2. \A i, j \in D : i = j \/ e(i) < at[j] \/ e(j) < at[i]  BY FirstSlots
  <1>3. ASSUME NEW p \in Slots, NEW i \in D PROVE In(p, i) <=> p \in Held(seed, at, i)
    BY <1>1, SlotIs DEF Held
  <1>4. ASSUME NEW p \in Slots, NEW i \in D, In(p, i) PROVE d[p] = Part(seed[i], p - at[i])
    BY <1>3, <1>4, FirstSlots
  <1>5. ASSUME NEW p \in Slots, \A i \in D : ~In(p, i)
        PROVE  d[p] = IF p < ClustSlots THEN Zero ELSE junk
    BY <1>3, <1>5, FirstSlots
  <1>6. /\ Foreign(Zero) /\ Zero.mark = "last" /\ Zero.kind = "none" /\ Zero \in SlotVals
        /\ Foreign(junk) /\ junk \in SlotVals
    BY DEF Zero, Junk, Foreign, SlotVals, Marks, Kinds
  <1>7. \A p \in Slots : p \in Nat  BY SlotIs
  <1>8. ClustSlots \in Nat /\ ClustSlots <= Size /\ Size \in Nat
    <2>1. 1 \in 1 .. MaxClust /\ 1 * ClustSlots = ClustSlots  BY Constants
    <2>2. ClustSlots \in Counts  BY <2>1, CountsAre
    <2> QED BY <2>2, SlotIs DEF Counts
  <1>9. \A i \in D : e(i) \in Slots  BY <1>1, <1>8, SlotIs
  <1>10. ASSUME NEW p \in Slots, NEW i \in D, In(p, i)
         PROVE  /\ p - at[i] \in 0 .. Frags[seed[i]] /\ d[p] = Part(seed[i], p - at[i])
                /\ d[p] \in SlotVals /\ d[p].mark = "used" /\ ~Foreign(d[p]) /\ d[p].n = seed[i]
                /\ d[p].kind = IF p < e(i) THEN "lfn" ELSE "sfn"
                /\ p < e(i) => d[p].k = Frags[seed[i]] - (p - at[i])
    <2>1. d[p] = Part(seed[i], p - at[i])  BY <1>4, <1>10
    <2>2. p - at[i] \in 0 .. Frags[seed[i]] /\ (p - at[i] < Frags[seed[i]] <=> p < e(i))
      BY <1>1, <1>7, <1>10
    <2> DEFINE k == p - at[i]
    <2>3. /\ Part(seed[i], k) \in SlotVals /\ Part(seed[i], k).mark = "used" /\ ~Foreign(Part(seed[i], k))
          /\ Part(seed[i], k).n = seed[i]
          /\ Part(seed[i], k).kind = IF k < Frags[seed[i]] THEN "lfn" ELSE "sfn"
          /\ k < Frags[seed[i]] => Part(seed[i], k).k = Frags[seed[i]] - k
      <3>1. k \in 0 .. Frags[seed[i]]  BY <2>2
      <3> HIDE DEF k
      <3> QED BY <1>1, <3>1, PartIs
    <2> QED BY <2>1, <2>2, <2>3
  <1>11. \A p \in Slots : (\E i \in D : In(p, i)) \/ (d[p] = IF p < ClustSlots THEN Zero ELSE junk)
    BY <1>5
  <1> HIDE DEF In
  <1>12. d \in Dirs
    <2>1. \A p \in Slots : d[p] \in SlotVals  BY <1>6, <1>10, <1>11
    <2> QED BY <2>1 DEF Dirs
  <1>13. ASSUME NEW q \in Slots, HeadAt(d, q)
         PROVE  \E i \in D : q = at[i] /\ d[q].n = seed[i] /\ Reach(d, q) = e(i)
    <2>1. d[q].kind = "lfn" /\ d[q].k = Frags[d[q].n]  BY <1>13 DEF HeadAt, IsHead
    <2>2. PICK i \in D : In(q, i)  BY <1>6, <1>11, <2>1 DEF Foreign
    <2>3. q < e(i) /\ d[q].n = seed[i] /\ d[q].k = Frags[seed[i]] - (q - at[i])
      <3>1. d[q].kind = IF q < e(i) THEN "lfn" ELSE "sfn"  BY <1>10, <2>2
      <3>2. q < e(i)  BY <2>1, <3>1
      <3> QED BY <1>10, <2>2, <3>2
    <2>4. q = at[i]
      <3>1. Frags[seed[i]] = Frags[seed[i]] - (q - at[i])  BY <2>1, <2>3
      <3> QED BY <1>1, <1>7, <3>1
    <2> QED BY <2>3, <2>4 DEF Reach
  <1>14. ASSUME NEW i \in D PROVE Whole(d, at[i]) /\ Reach(d, at[i]) = e(i) /\ d[at[i]].n = seed[i]
    <2>1. In(at[i], i) /\ In(e(i), i)  BY <1>1 DEF In
    <2>2. /\ d[at[i]].mark = "used" /\ d[at[i]].kind = "lfn" /\ d[at[i]].n = seed[i]
          /\ d[at[i]].k = Frags[seed[i]] - (at[i] - at[i])
      BY <1>1, <1>10, <2>1
    <2>3. HeadAt(d, at[i])
      <3>1. Frags[seed[i]] - (at[i] - at[i]) = Frags[seed[i]]  BY <1>1
      <3> QED BY <2>2, <3>1 DEF HeadAt, IsHead
    <2>4. d[e(i)].mark = "used" /\ d[e(i)].kind = "sfn"
      <3>1. ~(e(i) < e(i))  BY <1>1
      <3> QED BY <1>9, <1>10, <2>1, <3>1
    <2>5. Reach(d, at[i]) = e(i)  BY <2>2 DEF Reach
    <2>6. SfnAt(d, Reach(d, at[i]))  BY <1>9, <2>4, <2>5 DEF SfnAt
    <2> QED BY <2>2, <2>3, <2>5, <2>6 DEF Whole
  <1>15. Tidy(d, ClustSlots, 1, 0)
    <2> SUFFICES ASSUME NEW p \in Slots, p < ClustSlots
                 PROVE  d[p].kind \notin {"junk", "alien"} /\ (d[p].mark = "used" => Covered(d, p))
      BY DEF Tidy
    <2>1. CASE \E i \in D : In(p, i)
      <3>1. PICK i \in D : In(p, i)  BY <2>1
      <3>2. ~Foreign(d[p])  BY <1>10, <3>1
      <3>3. Whole(d, at[i]) /\ at[i] \in Slots /\ at[i] <= p /\ p <= Reach(d, at[i])
        BY <1>1, <1>14, <3>1 DEF In
      <3> QED BY <3>2, <3>3 DEF Foreign, Covered
    <2>2. CASE ~\E i \in D : In(p, i)  BY <1>6, <1>11, <2>2
    <2> QED BY <2>1, <2>2
  <1>16. Good(d, ClustSlots)
    <2>1. ASSUME NEW p \in Slots, p >= ClustSlots \/ ~Before(d, p) PROVE Foreign(d[p])
      <3>1. ASSUME NEW i \in D, In(p, i) PROVE FALSE
        <4>1. at[i] <= p /\ p <= e(i)  BY <3>1 DEF In
        <4>2. p < ClustSlots  BY <1>1, <1>7, <1>8, <4>1
        <4>3. PICK q \in 0 .. p : d[q].mark = "last"  BY <1>7, <1>8, <2>1, <4>2 DEF Before
        <4>4. q \in Slots /\ q \in Nat  BY <1>7, <4>3, SlotIs
        <4>5. \E j \in D : In(q, j)
          <5>1. CASE q < at[i]
            <6>1. q \in 0 .. at[i]  BY <1>1, <4>4, <5>1
            <6>2. PICK j \in D : q \in Held(seed, at, j)  BY <6>1 DEF Laid
            <6> QED BY <1>3, <4>4, <6>2
          <5>2. CASE ~(q < at[i])
            <6>1. at[i] <= q /\ q <= e(i)  BY <1>1, <1>7, <4>1, <4>4, <5>2
            <6> QED BY <6>1 DEF In
          <5> QED BY <5>1, <5>2
        <4>6. d[q].mark = "used"  BY <1>10, <4>4, <4>5
        <4> QED BY <4>3, <4>6
      <3> QED BY <1>6, <1>11, <3>1
    <2>2. \A q \in Slots : HeadAt(d, q) => Reach(d, q) < ClustSlots  BY <1>1, <1>13
    <2>3. ASSUME NEW q \in Slots, NEW p \in Slots, HeadAt(d, q), HeadAt(d, p), q < p PROVE Reach(d, q) < p
      <3>1. PICK i \in D : q = at[i] /\ Reach(d, q) = e(i)  BY <1>13, <2>3
      <3>2. PICK j \in D : p = at[j]  BY <1>13, <2>3
      <3> QED BY <1>1, <1>2, <2>3, <3>1, <3>2
    <2>4. ASSUME NEW q \in Slots, NEW p \in Slots, Whole(d, q), q <= p, p <= Reach(d, q)
          PROVE  d[p] = Part(d[q].n, p - q)
      <3>1. PICK i \in D : q = at[i] /\ d[q].n = seed[i] /\ Reach(d, q) = e(i)  BY <1>13, <2>4 DEF Whole
      <3>2. In(p, i)  BY <2>4, <3>1 DEF In
      <3> QED BY <1>10, <3>1, <3>2
    <2>5. ASSUME NEW q \in Slots, NEW p \in Slots, Whole(d, q), SfnAt(d, p), d[p].n = d[q].n PROVE p = Reach(d, q)
      <3>1. PICK i \in D : q = at[i] /\ d[q].n = seed[i] /\ Reach(d, q) = e(i)  BY <1>13, <2>5 DEF Whole
      <3>2. PICK j \in D : In(p, j)  BY <1>6, <1>11, <2>5 DEF SfnAt, Foreign
      <3>3. d[p].n = seed[j] /\ d[p].kind = IF p < e(j) THEN "lfn" ELSE "sfn"  BY <1>10, <3>2
      <3>4. ~(p < e(j)) /\ p <= e(j)  BY <2>5, <3>2, <3>3 DEF SfnAt, In
      <3>5. i = j  BY <2>5, <3>1, <3>3, DirAssumption
      <3> QED BY <1>1, <1>7, <3>1, <3>4, <3>5
    <2> QED BY <2>1, <2>2, <2>3, <2>4, <2>5 DEF Good
  <1> QED BY <1>12, <1>15, <1>16

LEMMA InitFits == Init => IInv /\ Store!Init
  <1> SUFFICES ASSUME Init PROVE IInv /\ Store!Init
    OBVIOUS
  <1>1. PICK seed \in Seeds, junk \in Junk : \E at \in [DOMAIN seed -> 0 .. ClustSlots - 1] :
           /\ Laid(seed, at)
           /\ disk = [s \in DirSects \cup {OtherSect} |->
                         IF s = OtherSect THEN [links |-> 1]
                         ELSE [p \in Cells(s) |-> FirstSlot(seed, at, junk, p)]]
    BY DEF Init
  <1>2. PICK at \in [DOMAIN seed -> 0 .. ClustSlots - 1] :
           /\ Laid(seed, at)
           /\ disk = [s \in DirSects \cup {OtherSect} |->
                         IF s = OtherSect THEN [links |-> 1]
                         ELSE [p \in Cells(s) |-> FirstSlot(seed, at, junk, p)]]
    BY <1>1
  <1>3. win = NoWin /\ faults = 0 /\ pc = "idle" /\ call = NoCall /\ res = NoRes  BY DEF Init
  <1> DEFINE d == [p \in Slots |-> FirstSlot(seed, at, junk, p)]
  <1>4. d \in Dirs /\ Good(d, ClustSlots) /\ Tidy(d, ClustSlots, 1, 0)
    <2> HIDE DEF d
    <2>1. d = [p \in Slots |-> FirstSlot(seed, at, junk, p)]  BY DEF d
    <2> QED BY <1>2, <2>1, FirstIsGood
  <1>5. /\ disk[OtherSect] = [links |-> 1]
        /\ \A s \in DirSects : disk[s] = [p \in Cells(s) |-> d[p]]
    <2>1. \A s \in DirSects : \A p \in Cells(s) : p \in Slots  BY DEF Cells
    <2> QED BY <1>2, <2>1, SectorsFit
  <1>6. \A s \in Sects : View(s) = disk[s]
    <2>1. win.sect = NoSect  BY <1>3 DEF NoWin
    <2> QED BY <2>1, SectorsFit DEF View
  <1> HIDE DEF d
  <1>7. \A s \in Sects : disk[s] \in SectVals(s)
    <2>1. disk[OtherSect] \in SectVals(OtherSect)
      <3>1. 1 \in 1 .. MaxClust  BY Constants
      <3> QED BY <1>5, <3>1, SectorsFit DEF LinkVals
    <2>2. ASSUME NEW s \in DirSects PROVE disk[s] \in SectVals(s)
      <3>1. \A p \in Cells(s) : d[p] \in SlotVals  BY <1>4 DEF Cells, Dirs
      <3>2. disk[s] = [p \in Cells(s) |-> d[p]] /\ SectVals(s) = [Cells(s) -> SlotVals]
        BY <1>5, SectorsFit
      <3> QED BY <3>1, <3>2
    <2> QED BY <2>1, <2>2 DEF Sects
  <1>8. MediumFits
    <2>1. WindowFits(Sects, NoSect, AllVals)
      <3>1. disk \in [Sects -> AllVals]
        <4>1. disk = [s \in Sects |-> disk[s]]  BY <1>2 DEF Sects
        <4>2. \A s \in Sects : disk[s] \in AllVals  BY <1>7, SectorsFit
        <4> QED BY <4>1, <4>2
      <3>2. win \in [sect : Sects \cup {NoSect}, buf : AllVals, dirty : BOOLEAN] /\ win.sect \notin Sects /\ ~win.dirty
        BY <1>3, SectorsFit DEF NoWin
      <3> QED BY <3>1, <3>2 DEF WindowFits
    <2> QED BY <1>3, <1>6, <1>7, <2>1, Constants DEF MediumFits
  <1>9. Driver = d /\ Medium = d
    <2>1. ASSUME NEW p \in Slots
          PROVE  disk[SectOf(p)][p] = d[p] /\ View(SectOf(p)) = disk[SectOf(p)]
      <3>1. SectOf(p) \in DirSects /\ SectOf(p) \in Sects /\ p \in Cells(SectOf(p))  BY SectorsFit
      <3>2. disk[SectOf(p)] = [q \in Cells(SectOf(p)) |-> d[q]]  BY <3>1, <1>5, Zenon
      <3>3. disk[SectOf(p)][p] = d[p]  BY <3>1, <3>2, Zenon
      <3> QED BY <3>1, <3>3, <1>6, Zenon
    <2>2. d = [p \in Slots |-> d[p]]  BY <1>4 DEF Dirs
    <2> QED BY <2>1, <2>2 DEF Driver, Medium
  <1>10. InView = ClustSlots /\ OnDisk = ClustSlots
    <2>1. View(OtherSect).links = 1 /\ disk[OtherSect].links = 1  BY <1>5, <1>6, SectorsFit
    <2> QED BY <2>1, Constants DEF InView, OnDisk
  <1>11. Ground  BY <1>4, <1>8, <1>9, <1>10 DEF Ground, MarkOk
  <1>12. Place = "idle" /\ call.left = 0 /\ call.cnt = 0  BY <1>3 DEF Place, NoCall
  <1>13. CallOk  BY <1>3, <1>12, NoCallIs DEF CallOk, Pcs
  <1>14. ResOk  BY <1>3 DEF ResOk, NoRes
  <1>15. PlaceOk  BY <1>12 DEF PlaceOk
  <1>16. TidyOk  BY <1>4, <1>9, <1>10, <1>12 DEF TidyOk
  <1>17. Store!Init
    <2>1. Seen = Kept  BY <1>9, <1>10, <1>11, GroundIs
    <2>2. Seen \subseteq Names  BY DEF Seen
    <2> QED BY <1>3, <2>1, <2>2 DEF Store!Init
  <1> QED BY <1>11, <1>13, <1>14, <1>15, <1>16, <1>17 DEF IInv, Rest

LEMMA Inductive == Spec => []IInv
  <1>1. IInv /\ [Next]_vars => IInv'  BY NextFine, StutterKeeps DEF Fine
  <1> QED BY <1>1, InitFits, PTL DEF Spec

LEMMA TypesFollow == IInv => TypeOK
  <1> SUFFICES ASSUME IInv PROVE TypeOK
    OBVIOUS
  <1>1. CallOk /\ ResOk /\ PlaceOk /\ MediumFits /\ Ground  BY DEF IInv, Rest, Ground
  <1>2. DOMAIN disk = DirSects \cup {OtherSect} /\ win.sect \in DirSects \cup {OtherSect, NoSect} /\ win.dirty \in BOOLEAN
    BY <1>1 DEF MediumFits, WindowFits, Sects
  <1>3. disk[OtherSect].links \in 1 .. MaxClust  BY <1>1, ViewTypes DEF LinkVals
  <1>4. ASSUME NEW s \in DirSects
        PROVE  /\ DOMAIN View(s) = Cells(s)
               /\ \A p \in Cells(s) :
                    /\ View(s)[p].mark \in {"used", "free", "last"}
                    /\ View(s)[p].kind \in {"lfn", "sfn", "none", "junk", "alien"}
                    /\ View(s)[p].n \in Names \cup {"none"}
    <2>1. View(s) \in [Cells(s) -> SlotVals]  BY <1>1, SectorsFit DEF MediumFits, Sects
    <2>2. \A x \in SlotVals : x.mark \in Marks /\ x.kind \in Kinds /\ x.n \in Names \cup {"none"}  BY DEF SlotVals
    <2>3. \A p \in Cells(s) : View(s)[p] \in SlotVals  BY <2>1
    <2> QED BY <2>1, <2>2, <2>3 DEF Marks, Kinds
  <1>5. /\ pc \in Pcs /\ call.op \in Ops \cup {"none"} /\ call.n \in Names \cup {"none"}
        /\ {call.pos, call.loc} \subseteq Slots /\ call.left \in Nat /\ call.cnt \in Nat
    BY <1>1 DEF CallOk, Calls
  <1>6. Driver \in Dirs /\ InView \in Counts /\ Good(Driver, InView)  BY <1>1, GroundIs
  <1>7. /\ call.left = 0 \/ Place \in {"parse", "fill", "clear"}
        /\ call.cnt = 0 \/ Place \in {"room", "grow", "growSync", "clear"}
        /\ pc \notin {"idle", "flush"} => call.n \in Names
        /\ pc = "next" => call.then \in Walks
    BY <1>1 DEF CallOk
  <1>8. call.left \in 0 .. (IF pc = "clear" THEN SectsPerClust - 1 ELSE 20)
    <2>1. CASE call.left = 0  BY <2>1, Constants
    <2>2. CASE Place = "parse"
      <3>1. Parsing(Driver, call.n, call.loc, call.left, call.match, At)  BY <1>1, <2>2 DEF PlaceOk, ParseOk
      <3>2. Frags[Driver[call.loc].n] \in 1 .. 20 /\ call.left \in 0 .. Frags[Driver[call.loc].n]  BY <1>6, <3>1, ParseIs
      <3>3. call.left \in 0 .. 20  BY <3>2
      <3>4. pc # "clear"  BY <2>2 DEF Place
      <3> QED BY <3>3, <3>4
    <2>3. CASE Place = "fill"
      <3>1. call.left <= Frags[call.n]  BY <1>1, <2>3 DEF PlaceOk, FillOk
      <3>2. call.n \in Names  BY <1>7, <2>3 DEF Place
      <3>3. call.left \in 0 .. 20  BY <1>5, <3>1, <3>2, Constants
      <3>4. pc # "clear"  BY <2>3 DEF Place
      <3> QED BY <3>3, <3>4
    <2>4. CASE Place = "clear"
      <3>1. call.left < SectsPerClust  BY <1>1, <2>4 DEF PlaceOk, ClearOk
      <3>2. pc = "clear"  BY <1>7, <2>4 DEF Place, Walks
      <3> QED BY <1>5, <3>1, <3>2, Constants
    <2> QED BY <1>7, <2>1, <2>2, <2>3, <2>4
  <1>9. call.cnt \in 0 .. 21
    <2>1. CASE call.cnt = 0  BY <2>1
    <2>2. CASE Place \in {"room", "grow", "growSync", "clear"}
      <3>1. call.cnt <= Frags[call.n] + 1
        BY <1>1, <2>2 DEF PlaceOk, RoomOk, GrowOk, FreshOk, ClearOk
      <3>2. call.n \in Names  BY <1>7, <2>2 DEF Place
      <3> QED BY <1>5, <3>1, <3>2, Constants
    <2> QED BY <1>7, <2>1, <2>2
  <1>10. res.err \in Errs \cup {"none"}  BY <1>1 DEF ResOk
  <1>11. faults \in 0 .. MaxFaults  BY <1>1 DEF MediumFits
  <1> QED BY <1>2, <1>3, <1>4, <1>5, <1>8, <1>9, <1>10, <1>11 DEF TypeOK

LEMMA DirectoryFollows == IInv => DirectorySound
  <1> SUFFICES ASSUME IInv PROVE DirectorySound
    OBVIOUS
  <1>1. Ground /\ ResOk  BY DEF IInv, Rest
  <1>2. /\ Driver \in Dirs /\ Medium \in Dirs /\ InView \in Counts /\ OnDisk \in Counts
        /\ Good(Driver, InView) /\ Good(Medium, OnDisk)
        /\ Seen = NamesIn(Driver) /\ Kept = NamesIn(Medium)
    BY <1>1, GroundIs
  <1>3. OneEntryEach
    <2>1. \A n \in Names, p, q \in Slots : Stands(Driver, InView, n, p) /\ Stands(Driver, InView, n, q) => p = q
      BY <1>2, NamesAre
    <2>2. \A n \in Names, p, q \in Slots : Stands(Medium, OnDisk, n, p) /\ Stands(Medium, OnDisk, n, q) => p = q
      BY <1>2, NamesAre
    <2> QED BY <2>1, <2>2 DEF OneEntryEach
  <1>4. ResultsAreTrue  BY <1>1, <1>2 DEF ResOk, Shared, ResultsAreTrue
  <1> QED BY <1>3, <1>4, TypesFollow DEF DirectorySound
-----------------------------------------------------------------------------
(* The names in pieces.  A piece is a slot in use that belongs to no whole  *)
(* entry; from .. to are the slots that the running call is at.  Slots      *)
(* that were never written are of the one name "none".                      *)
Bits(dir, cnt, from, to) ==
    {p \in Slots : p < cnt /\ dir[p].mark = "used" /\ ~(from <= p /\ p <= to) /\ ~Covered(dir, p)}
Strewn(dir, cnt, from, to) == {dir[p].n : p \in Bits(dir, cnt, from, to)}

Busy  == {"growSync", "clear", "fill", "unmark"}
From  == IF Place = "fill" THEN First(call, At) ELSE IF Place \in Busy THEN At ELSE 1
To    == IF Place = "fill" THEN At - 1 ELSE IF Place = "unmark" THEN call.loc
         ELSE IF Place \in Busy THEN Size ELSE 0
Loose == Strewn(Driver, InView, From, To)
Torn  == Strewn(Driver, InView, 1, 0)

Plain(dir) == \A p \in Slots : Foreign(dir[p]) => dir[p].n = "none"
OneName == \E m \in Names \cup {"none"} : \A p \in Slots : From <= p /\ p <= To => Driver[p].n = m

(* Without what a call is at there are no more names in pieces than there   *)
(* were failures; and one more in the directory that the medium is left     *)
(* with, if the next failure comes now.                                     *)
PieceInv ==
    /\ IInv
    /\ Plain(Driver) /\ Plain(Medium) /\ OneName
    /\ Cardinality(Loose) <= faults
    /\ Cardinality(Strewn(Medium, OnDisk, 1, 0)) <= faults + 1

LEMMA StrewnFinite ==
    ASSUME NEW dir, NEW cnt, NEW from, NEW to
    PROVE  IsFiniteSet(Strewn(dir, cnt, from, to)) /\ Cardinality(Strewn(dir, cnt, from, to)) \in Nat
  <1> DEFINE bits == Bits(dir, cnt, from, to)
  <1>1. IsFiniteSet(Slots)  BY Constants, FS_Interval DEF Slots
  <1>2. IsFiniteSet(bits)
    <2>1. bits \subseteq Slots  BY DEF Bits
    <2> HIDE DEF bits
    <2> QED BY <1>1, <2>1, FS_Subset
  <1> HIDE DEF bits
  <1> DEFINE names == {dir[p].n : p \in bits}
             f == [p \in bits |-> dir[p].n]
  <1>3. f \in Surjection(bits, names)  BY DEF Surjection
  <1>4. IsFiniteSet(Strewn(dir, cnt, from, to))
    <2> HIDE DEF names, f
    <2>1. IsFiniteSet(names)  BY <1>2, <1>3, FS_Surjection
    <2> QED BY <2>1 DEF names, bits, Strewn
  <1> QED BY <1>4, FS_CardinalityType

LEMMA FewerNames ==
    ASSUME NEW S, NEW T, IsFiniteSet(T), S \subseteq T, NEW k \in Nat, Cardinality(T) <= k
    PROVE  Cardinality(S) <= k
  <1>1. Cardinality(S) <= Cardinality(T) /\ IsFiniteSet(S)  BY FS_Subset
  <1>2. Cardinality(S) \in Nat /\ Cardinality(T) \in Nat  BY <1>1, FS_CardinalityType
  <1> QED BY <1>1, <1>2

LEMMA OneMoreName ==
    ASSUME NEW dir, NEW cnt, NEW from, NEW to, NEW m,
           \A p \in Slots : from <= p /\ p <= to => dir[p].n = m,
           NEW k \in Nat, Cardinality(Strewn(dir, cnt, from, to)) <= k
    PROVE  Cardinality(Strewn(dir, cnt, 1, 0)) <= k + 1
  <1> DEFINE S == Strewn(dir, cnt, from, to)
             T == Strewn(dir, cnt, 1, 0)
  <1>1. T \subseteq S \cup {m}  BY DEF Strewn, Bits
  <1>2. IsFiniteSet(S) /\ Cardinality(S) \in Nat  BY StrewnFinite
  <1> HIDE DEF S, T
  <1>3. IsFiniteSet(S \cup {m}) /\ Cardinality(S \cup {m}) <= Cardinality(S) + 1
    <2>1. /\ IsFiniteSet(S \cup {m})
          /\ Cardinality(S \cup {m}) = IF m \in S THEN Cardinality(S) ELSE Cardinality(S) + 1
      BY <1>2, FS_AddElement
    <2> QED BY <1>2, <2>1
  <1>4. Cardinality(S \cup {m}) \in Nat  BY <1>3, FS_CardinalityType
  <1>5. Cardinality(S \cup {m}) <= k + 1  BY <1>2, <1>3, <1>4 DEF S
  <1>6. Cardinality(T) <= k + 1  BY <1>1, <1>3, <1>5, FewerNames
  <1> QED BY <1>6 DEF T

(* What a call is at has one name. *)
LEMMA OneNameIs ==
    IInv /\ Plain(Driver) /\ (Place = "unmark" => OneName) => OneName
  <1> SUFFICES ASSUME IInv, Plain(Driver), Place = "unmark" => OneName PROVE OneName
    OBVIOUS
  <1>1. PlaceOk /\ CallOk  BY DEF IInv, Rest
  <1>2. CASE Place \in {"growSync", "clear"}
    <2>1. \A p \in Slots : At <= p => Foreign(Driver[p])  BY <1>1, <1>2 DEF PlaceOk, FreshOk, ClearOk
    <2>2. From = At  BY <1>2 DEF From, Busy
    <2>3. \A p \in Slots : From <= p => Driver[p].n = "none"  BY <2>1, <2>2 DEF Plain
    <2> QED BY <2>3 DEF OneName
  <1>3. CASE Place = "fill"
    <2>1. Filling(Driver, InView, call.n, First(call, At), At)  BY <1>1, <1>3 DEF PlaceOk, FillOk
    <2>2. From = First(call, At) /\ To = At - 1  BY <1>3 DEF From, To
    <2>3. call.n \in Names /\ At \in Int /\ Frags[call.n] \in Nat
      <3>1. pc \notin {"idle", "flush"} /\ pc # "idle"  BY <1>3 DEF Place
      <3> QED BY <1>1, <3>1, CallIs, Constants DEF At
    <2> DEFINE a == First(call, At)
               b == At
               n == call.n
    <2>4. /\ a \in Nat /\ b <= a + Frags[n] + 1
          /\ \A p \in Slots : a <= p /\ p < b => Driver[p] = Part(n, p - a)
      BY <2>1 DEF Filling
    <2>5. n \in Names /\ b \in Int /\ Frags[n] \in Nat  BY <2>3
    <2> HIDE DEF a, b, n
    <2>6. \A p \in Slots : a <= p /\ p <= b - 1 => Driver[p].n = n
      <3> SUFFICES ASSUME NEW p \in Slots, a <= p, p <= b - 1 PROVE Driver[p].n = n
        OBVIOUS
      <3>1. p \in Nat  BY SlotIs
      <3>2. p < b /\ p - a \in 0 .. Frags[n]  BY <2>4, <2>5, <3>1
      <3>3. Driver[p] = Part(n, p - a)  BY <2>4, <3>2
      <3> QED BY <2>5, <3>2, <3>3, PartIs
    <2>7. From = a /\ To = b - 1  BY <2>2 DEF a, b
    <2> QED BY <2>5, <2>6, <2>7 DEF OneName
  <1>4. CASE Place \notin {"growSync", "clear", "fill", "unmark"}
    <2>1. From = 1 /\ To = 0  BY <1>4 DEF From, To, Busy
    <2>2. \A p \in Slots : ~(From <= p /\ p <= To)  BY <2>1, SlotIs
    <2> QED BY <2>2 DEF OneName
  <1> QED BY <1>2, <1>3, <1>4

(* What each step does. *)
Follows == Stays \/ Settles \/ (Medium' = Driver' /\ OnDisk' = InView')
Costs   == \/ faults' = faults /\ Loose' \subseteq Loose
           \/ pc' = "idle" /\ faults' = faults + 1 /\ Torn' \subseteq Torn
Careful == Plain(Driver') /\ (Place' = "unmark" => OneName') /\ Follows /\ Costs

LEMMA CarefulKeeps ==
    ASSUME PieceInv, IInv', Careful PROVE PieceInv'
  <1>1. OneName'
    <2>1. Plain(Driver)' /\ (Place = "unmark" => OneName)'  BY DEF Careful
    <2>2. (IInv /\ Plain(Driver) /\ (Place = "unmark" => OneName) => OneName)'  BY OneNameIs, PTL
    <2> QED BY <2>1, <2>2
  <1>2. faults \in Nat /\ faults' \in Nat /\ faults <= faults'
    <2>1. faults \in Nat  BY Constants DEF PieceInv, IInv, Ground, MediumFits
    <2> QED BY <2>1 DEF Careful, Costs
  <1>3. Cardinality(Torn) <= faults + 1
    <2>1. Cardinality(Strewn(Driver, InView, From, To)) <= faults  BY DEF PieceInv, Loose
    <2>2. PICK m \in Names \cup {"none"} : \A p \in Slots : From <= p /\ p <= To => Driver[p].n = m
      BY DEF PieceInv, OneName
    <2> QED BY <1>2, <2>1, <2>2, OneMoreName DEF Torn
  <1>4. Cardinality(Loose') <= faults'
    <2>1. CASE faults' = faults /\ Loose' \subseteq Loose
      <3>1. Cardinality(Loose) <= faults  BY DEF PieceInv
      <3>2. IsFiniteSet(Loose)  BY StrewnFinite DEF Loose
      <3> QED BY <1>2, <2>1, <3>1, <3>2, FewerNames
    <2>2. CASE pc' = "idle" /\ faults' = faults + 1 /\ Torn' \subseteq Torn
      <3>1. Place' = "idle"  BY <2>2 DEF Place
      <3>2. From' = 1 /\ To' = 0  BY <3>1 DEF From, To, Busy
      <3>3. Loose' = Torn'  BY <3>2 DEF Loose, Torn
      <3>4. IsFiniteSet(Torn)  BY StrewnFinite DEF Torn
      <3>5. Cardinality(Torn') <= faults + 1  BY <1>2, <1>3, <2>2, <3>4, FewerNames
      <3> QED BY <2>2, <3>3, <3>5
    <2> QED BY <2>1, <2>2 DEF Careful, Costs
  <1>5. Cardinality(Torn') <= faults' + 1
    <2>1. Cardinality(Strewn(Driver', InView', From', To')) <= faults'  BY <1>4 DEF Loose
    <2>2. PICK m \in Names \cup {"none"} : \A p \in Slots : From' <= p /\ p <= To' => Driver'[p].n = m
      BY <1>1 DEF OneName
    <2>3. Cardinality(Strewn(Driver', InView', 1, 0)) <= faults' + 1  BY <1>2, <2>1, <2>2, OneMoreName
    <2> QED BY <2>3 DEF Torn
  <1>6. Plain(Medium') /\ Cardinality(Strewn(Medium', OnDisk', 1, 0)) <= faults' + 1
    <2>1. CASE Stays
      <3>1. Cardinality(Strewn(Medium, OnDisk, 1, 0)) <= faults + 1 /\ Plain(Medium)  BY DEF PieceInv
      <3>2. Cardinality(Strewn(Medium, OnDisk, 1, 0)) \in Nat  BY StrewnFinite
      <3>3. Medium' = Medium /\ OnDisk' = OnDisk  BY <2>1 DEF Stays
      <3>4. Cardinality(Strewn(Medium, OnDisk, 1, 0)) <= faults' + 1  BY <1>2, <3>1, <3>2
      <3> QED BY <3>1, <3>3, <3>4
    <2>2. CASE Settles
      <3>1. Medium' = Driver /\ OnDisk' = InView /\ Plain(Driver)  BY <2>2 DEF Settles, PieceInv
      <3>2. Cardinality(Torn) \in Nat  BY StrewnFinite DEF Torn
      <3>3. Cardinality(Torn) <= faults' + 1  BY <1>2, <1>3, <3>2
      <3> QED BY <3>1, <3>3 DEF Torn
    <2>3. CASE Medium' = Driver' /\ OnDisk' = InView'
      BY <1>5, <2>3 DEF Torn, Careful
    <2> QED BY <2>1, <2>2, <2>3 DEF Careful, Follows
  <1> QED BY <1>1, <1>4, <1>6 DEF PieceInv, Careful

LEMMA FewerBits ==
    ASSUME NEW dir, NEW cnt, NEW from, NEW to, NEW new, NEW cnt2, NEW from2, NEW to2,
           \A p \in Slots : p < cnt2 /\ new[p].mark = "used" /\ ~(from2 <= p /\ p <= to2) /\ ~Covered(new, p)
              => p < cnt /\ dir[p].mark = "used" /\ ~(from <= p /\ p <= to) /\ ~Covered(dir, p) /\ new[p].n = dir[p].n
    PROVE  Strewn(new, cnt2, from2, to2) \subseteq Strewn(dir, cnt, from, to)
  <1> SUFFICES ASSUME NEW p \in Bits(new, cnt2, from2, to2) PROVE new[p].n \in Strewn(dir, cnt, from, to)
    BY DEF Strewn
  <1>1. p \in Slots /\ p < cnt2 /\ new[p].mark = "used" /\ ~(from2 <= p /\ p <= to2) /\ ~Covered(new, p)
    BY DEF Bits
  <1>2. p \in Bits(dir, cnt, from, to) /\ new[p].n = dir[p].n  BY <1>1 DEF Bits
  <1> QED BY <1>2 DEF Strewn

(* Steps that only look. *)
LEMMA LooksOn ==
    ASSUME PieceInv, Looks, faults' = faults, Place \notin Busy \/ (From' = From /\ To' = To),
           Place' = "unmark" => OneName'
    PROVE  Careful
  <1>1. Driver' = Driver /\ InView' = InView /\ Follows  BY DEF Looks, Still, Follows
  <1>2. Plain(Driver')  BY <1>1 DEF PieceInv
  <1>3. Loose' \subseteq Loose
    <2>1. CASE From' = From /\ To' = To  BY <1>1, <2>1 DEF Loose
    <2>2. CASE Place \notin Busy
      <3>1. From = 1 /\ To = 0  BY <2>2 DEF From, To, Busy
      <3>2. \A p \in Slots : ~(From <= p /\ p <= To)  BY <3>1, SlotIs
      <3>3. Strewn(Driver, InView, From', To') \subseteq Strewn(Driver, InView, From, To)  BY <3>2, FewerBits
      <3> QED BY <1>1, <3>3 DEF Loose
    <2> QED BY <2>1, <2>2
  <1> QED BY <1>1, <1>2, <1>3 DEF Careful, Costs

LEMMA FailsCareful ==
    ASSUME PieceInv, Looks, NEW o, Fails(o) PROVE Careful
  <1>1. Driver' = Driver /\ InView' = InView /\ Follows  BY DEF Looks, Still, Follows
  <1>2. pc' = "idle" /\ faults' = faults + 1  BY DEF Fails, Took, Return
  <1>3. Torn' \subseteq Torn  BY <1>1 DEF Torn
  <1>4. Place' # "unmark"  BY <1>2 DEF Place
  <1> QED BY <1>1, <1>2, <1>3, <1>4 DEF Careful, Costs, PieceInv

(* Where calls go. *)
LEMMA ReturnGoes == ASSUME NEW e, Return(e) PROVE Place' = "idle"
  BY DEF Return, Place

LEMMA GotoGoes == ASSUME NEW l, NEW c, l # "next", Goto(l, c) PROVE Place' = l
  BY DEF Goto, Place

LEMMA AdvanceGoes ==
    ASSUME NEW l \in Walks, NEW c \in Calls, Advance(l, c) PROVE Place' = l
  <1>1. CASE (c.pos + 1) % ClustSlots # 0
    <2>1. pc' = l  BY <1>1 DEF Advance, Goto
    <2> QED BY <2>1 DEF Place, Walks
  <1>2. CASE (c.pos + 1) % ClustSlots = 0
    <2>1. pc' = "next" /\ call' = [c EXCEPT !.then = l]  BY <1>2 DEF Advance, Goto
    <2>2. call'.then = l  BY <2>1 DEF Calls
    <2> QED BY <2>1, <2>2 DEF Place
  <1> QED BY <1>1, <1>2

LEMMA MissedGoes == ASSUME Missed, call.op \in Ops \ {"sync"} PROVE Place' # "unmark"
  <1>1. CASE call.op \in {"add", "mkdir"}
    <2>1. Goto("alloc", [NoCall EXCEPT !.op = call.op, !.n = call.n])  BY <1>1 DEF Missed
    <2> QED BY <2>1, GotoGoes
  <1>2. CASE call.op = "find"  BY <1>2, ReturnGoes DEF Missed
  <1>3. CASE call.op = "remove"  BY <1>3, ReturnGoes DEF Missed
  <1> QED BY <1>1, <1>2, <1>3 DEF Ops

LEMMA FoundGoes == ASSUME NEW c, Found(c) PROVE Place' # "unmark"
  <1>1. CASE call.op = "remove"  BY <1>1, GotoGoes DEF Found
  <1>2. CASE call.op # "remove"  BY <1>2, ReturnGoes DEF Found
  <1> QED BY <1>1, <1>2

(* Looking at a slot, or at the chain. *)
LEMMA LookOrFail ==
    ASSUME PieceInv, NEW o, Took(o) => Looks, o.ok /\ Took(o) => faults' = faults, Place \notin Busy,
           Fails(o) \/ (o.ok /\ Took(o) /\ (Place' = "unmark" => OneName'))
    PROVE  Careful
  <1>1. CASE Fails(o)  BY <1>1, FailsCareful DEF Fails
  <1>2. CASE o.ok /\ Took(o) /\ (Place' = "unmark" => OneName')  BY <1>2, LooksOn
  <1> QED BY <1>1, <1>2

LEMMA SearchCareful == ASSUME PieceInv, Search PROVE Careful
  <1>0. IInv  BY DEF PieceInv
  <1>a. pc = "search"  BY DEF Search
  <1>1. IInv /\ pc = "search" /\ Place = "search"  BY <1>0, <1>a DEF Place
  <1>2. call \in Calls /\ call.pos \in Slots /\ call.op \in Ops \ {"sync"} /\ call.n \in Names
    <2>1. pc # "idle" /\ pc # "flush"  BY <1>a
    <2> QED BY <1>0, <2>1, CallIs
  <1> DEFINE c == [call EXCEPT !.loc = call.pos]
  <1>3. c \in Calls  BY <1>2 DEF Calls
  <1>4. PICK o \in UpdateBuf(SectOf(call.pos)) :
           \/ Fails(o)
           \/ /\ o.ok /\ Took(o)
              /\ \/ Missed \/ Advance("search", call) \/ (\E d : Goto("parse", d)) \/ (\E e : Return(e))
                 \/ Found(c) \/ Advance("search", c)
    BY DEF Search
  <1> HIDE DEF c
  <1>5. (Took(o) => Looks) /\ (o.ok /\ Took(o) => faults' = faults)  BY <1>1, SlotLooks
  <1>6. ASSUME o.ok, Took(o), ~Fails(o) PROVE Place' # "unmark"
    <2>1. CASE Missed  BY <1>2, <2>1, MissedGoes
    <2>2. CASE Advance("search", call)  BY <1>2, <2>2, AdvanceGoes DEF Walks
    <2>3. CASE Advance("search", c)  BY <1>3, <2>3, AdvanceGoes DEF Walks
    <2>4. CASE Found(c)  BY <2>4, FoundGoes
    <2>5. CASE \E d : Goto("parse", d)  BY <2>5, GotoGoes
    <2>6. CASE \E e : Return(e)  BY <2>6, ReturnGoes
    <2> QED BY <1>4, <1>6, <2>1, <2>2, <2>3, <2>4, <2>5, <2>6
  <1>7. Place \notin Busy  BY <1>1 DEF Busy
  <1>8. Fails(o) => ~o.ok  BY DEF Fails
  <1> QED BY <1>4, <1>5, <1>6, <1>7, <1>8, LookOrFail

LEMMA ParseCareful == ASSUME PieceInv, Parse PROVE Careful
  <1>0. IInv  BY DEF PieceInv
  <1>a. pc = "parse"  BY DEF Parse
  <1>1. IInv /\ pc = "parse" /\ Place = "parse"  BY <1>0, <1>a DEF Place
  <1>2. call \in Calls /\ call.pos \in Slots /\ call.left \in Nat
    <2>1. pc # "idle"  BY <1>a
    <2> QED BY <1>0, <2>1, CallIs
  <1>4. PICK o \in UpdateBuf(SectOf(call.pos)) :
           \/ Fails(o)
           \/ /\ o.ok /\ Took(o)
              /\ \/ \E e : Return(e)
                 \/ \E m \in BOOLEAN : call.left > 0 /\ Advance("parse", [call EXCEPT !.left = @ - 1, !.match = m])
                 \/ Found(call)
                 \/ Advance("search", [call EXCEPT !.crc = 0])
    <2>1. PICK o \in UpdateBuf(SectOf(call.pos)) :
         \/ Fails(o)
         \/ /\ o.ok /\ Took(o)
            /\ LET s == o.win.buf[call.pos]
                   same == s.kind = (IF call.left > 0 THEN "lfn" ELSE "sfn")
                               /\ Short[s.n] = call.crc
               IN  \/ ~same /\ Return("BROKEN")
                   \/ /\ same /\ call.left > 0
                      /\ Advance("parse", [call EXCEPT !.left = @ - 1,
                                                   !.match = @ /\ FragMatches(s, call)])
                   \/ same /\ call.left = 0 /\ s.mark # "used" /\ Return("BROKEN")
                   \/ /\ same /\ call.left = 0 /\ s.mark = "used"
                      /\ IF call.match THEN Found(call)
                         ELSE Advance("search", [call EXCEPT !.crc = 0])
      BY Zenon DEF Parse
    <2> DEFINE m == call.match /\ FragMatches(o.win.buf[call.pos], call)
    <2>2. m \in BOOLEAN
      <3>1. call.match \in BOOLEAN  BY <1>2 DEF Calls
      <3> QED BY <3>1 DEF FragMatches
    <2>3. [call EXCEPT !.left = @ - 1, !.match = @ /\ FragMatches(o.win.buf[call.pos], call)]
           = [call EXCEPT !.left = @ - 1, !.match = m]
      OBVIOUS
    <2> HIDE DEF m
    <2> QED BY <2>1, <2>2, <2>3, Zenon
  <1>5. (Took(o) => Looks) /\ (o.ok /\ Took(o) => faults' = faults)  BY <1>1, SlotLooks
  <1>6. ASSUME o.ok, Took(o), ~Fails(o) PROVE Place' # "unmark"
    <2>1. CASE \E e : Return(e)  BY <2>1, ReturnGoes
    <2>2. CASE \E m \in BOOLEAN : call.left > 0 /\ Advance("parse", [call EXCEPT !.left = @ - 1, !.match = m])
      <3>1. PICK m \in BOOLEAN : call.left > 0 /\ Advance("parse", [call EXCEPT !.left = @ - 1, !.match = m])
        BY <2>2
      <3> DEFINE k == call.left - 1
                 c == [call EXCEPT !.left = k, !.match = m]
      <3>2. k \in Nat  BY <1>2, <3>1
      <3>3. Advance("parse", c)  BY <3>1
      <3> HIDE DEF k
      <3>4. c \in Calls  BY <1>2, <3>2 DEF Calls
      <3> HIDE DEF c
      <3> QED BY <3>3, <3>4, AdvanceGoes DEF Walks
    <2>3. CASE Found(call)  BY <2>3, FoundGoes
    <2>4. CASE Advance("search", [call EXCEPT !.crc = 0])
      <3> DEFINE c == [call EXCEPT !.crc = 0]
      <3>1. c \in Calls  BY <1>2 DEF Calls
      <3> HIDE DEF c
      <3> QED BY <2>4, <3>1, AdvanceGoes DEF Walks, c
    <2> QED BY <1>4, <1>6, <2>1, <2>2, <2>3, <2>4
  <1>7. Place \notin Busy  BY <1>1 DEF Busy
  <1>8. Fails(o) => ~o.ok  BY DEF Fails
  <1> QED BY <1>4, <1>5, <1>6, <1>7, <1>8, LookOrFail

LEMMA NextInChainCareful == ASSUME PieceInv, NextInChain PROVE Careful
  <1> DEFINE more == call.pos + 1 < InView
             c == [call EXCEPT !.pos = @ + 1, !.then = "none"]
  <1>0. IInv  BY DEF PieceInv
  <1>a. pc = "next"  BY DEF NextInChain
  <1>1. IInv /\ pc = "next" /\ Place = call.then /\ At = call.pos + 1  BY <1>0, <1>a DEF Place, At
  <1>2. /\ call.pos \in Nat /\ call.pos < InView /\ call.n \in Names /\ call \in Calls /\ InView \in Nat
        /\ call.op \in Ops \ {"sync"} /\ MediumFits /\ PlaceOk
        /\ Driver \in Dirs /\ InView \in Counts /\ Good(Driver, InView) /\ call.left \in Nat
    BY <1>1, CallIs
  <1>3. call.then \in Walks  BY <1>1, CallIs DEF CallOk
  <1>4. PICK o \in UpdateBuf(OtherSect) :
           \/ Fails(o)
           \/ /\ o.ok /\ Took(o)
              /\ \/ call.pos + 1 < o.win.buf.links * ClustSlots /\ Goto(call.then, c)
                 \/ ~(call.pos + 1 < o.win.buf.links * ClustSlots) /\ call.then = "room" /\ Goto("grow", call)
                 \/ ~(call.pos + 1 < o.win.buf.links * ClustSlots) /\ call.then # "room" /\ Missed
    BY DEF NextInChain
  <1>5. (Took(o) => Looks) /\ (o.ok /\ Took(o) => faults' = faults) /\ (o.ok => o.win.buf = View(OtherSect))
    BY <1>2, LinksLooks
  <1>6. CASE Fails(o)  BY <1>5, <1>6, FailsCareful DEF Fails
  <1>7. CASE o.ok /\ Took(o)
    <2>1. \/ more /\ Goto(call.then, c)
          \/ ~more /\ call.then = "room" /\ Goto("grow", call)
          \/ ~more /\ call.then # "room" /\ Missed
      <3>1. ~Fails(o)  BY <1>7 DEF Fails
      <3>2. o.win.buf.links * ClustSlots = InView  BY <1>5, <1>7 DEF InView
      <3> QED BY <1>4, <3>1, <3>2, Zenon
    <2>2. CASE more /\ Goto(call.then, c)
      <3> DEFINE x == call.pos + 1
      <3>1. pc' = call.then /\ call' = [call EXCEPT !.pos = x, !.then = "none"]  BY <2>2 DEF Goto
      <3> HIDE DEF x
      <3>2. call'.pos = x /\ call'.n = call.n /\ call'.left = call.left /\ call'.loc = call.loc
        BY <1>2, <3>1 DEF Calls
      <3>3. Place' = Place /\ At' = At  BY <1>1, <1>3, <3>1, <3>2 DEF Place, At, Walks, x
      <3>4. First(call', At') = First(call, At)  BY <3>2, <3>3 DEF First
      <3>5. From' = From /\ To' = To  BY <3>2, <3>3, <3>4 DEF From, To
      <3>6. Driver' = Driver  BY <1>5, <1>7 DEF Looks, Still
      <3>7. OneName'  BY <3>5, <3>6 DEF PieceInv, OneName
      <3> QED BY <1>5, <1>7, <3>5, <3>7, LooksOn
    <2>3. CASE ~more /\ call.then = "room" /\ Goto("grow", call)
      <3>1. Place' = "grow"  BY <2>3, GotoGoes
      <3>2. Place \notin Busy  BY <1>1, <2>3 DEF Busy
      <3> QED BY <1>5, <1>7, <3>1, <3>2, LooksOn
    <2>4. CASE ~more /\ call.then # "room" /\ Missed
      <3>1. Place # "fill"
        <4> SUFFICES ASSUME Place = "fill" PROVE FALSE  OBVIOUS
        <4>1. FillOk(Driver, InView, Medium, call, At)  BY <1>2 DEF PlaceOk
        <4>2. At \in Nat /\ Same(call, call)  BY <1>1, <1>2 DEF Same
        <4>3. At < InView  BY <1>2, <4>1, <4>2, FillFollows
        <4> QED BY <1>1, <2>4, <4>3
      <3>2. Place # "unmark"
        <4> SUFFICES ASSUME Place = "unmark" PROVE FALSE  OBVIOUS
        <4>1. At <= call.loc /\ call.loc < InView  BY <1>2 DEF PlaceOk, UnmarkOk, Unmarking
        <4>2. call.loc \in Nat  BY <1>1, CallIs
        <4> QED BY <1>1, <1>2, <2>4, <4>1, <4>2
      <3>3. Place \notin Busy  BY <1>1, <1>3, <3>1, <3>2 DEF Busy, Walks
      <3>4. Place' # "unmark"  BY <1>2, <2>4, MissedGoes
      <3> QED BY <1>5, <1>7, <3>3, <3>4, LooksOn
    <2> QED BY <2>1, <2>2, <2>3, <2>4
  <1> QED BY <1>4, <1>6, <1>7

(* Steps that take the window as it is left, or leave the chain as it is.   *)
LEMMA LinksOnly ==
    ASSUME PieceInv, Place \notin Busy, NEW o \in UpdateBuf(OtherSect),
           \/ Fails(o)
           \/ ((o.ok /\ Took(o)) \/ Writes(o, "links", o.win.buf.links)) /\ Place' # "unmark"
    PROVE  Careful
  <1>1. MediumFits  BY DEF PieceInv, IInv, Ground
  <1>2. CASE Fails(o)
    <2>1. Looks  BY <1>1, <1>2, LinksLooks DEF Fails
    <2> QED BY <1>2, <2>1, FailsCareful
  <1>3. CASE ((o.ok /\ Took(o)) \/ Writes(o, "links", o.win.buf.links)) /\ Place' # "unmark"
    <2>1. Looks /\ faults' = faults  BY <1>1, <1>3, LinksLooks
    <2> QED BY <1>3, <2>1, LooksOn
  <1> QED BY <1>2, <1>3

LEMMA SyncOnly ==
    ASSUME PieceInv, NEW o \in SyncBuf,
           \/ Fails(o)
           \/ /\ o.ok /\ Took(o) /\ (Place' = "unmark" => OneName')
              /\ Place \notin Busy \/ (From' = From /\ To' = To)
    PROVE  Careful
  <1>1. MediumFits  BY DEF PieceInv, IInv, Ground
  <1>2. CASE Fails(o)
    <2>1. Looks  BY <1>1, <1>2, SyncLooks DEF Fails
    <2> QED BY <1>2, <2>1, FailsCareful
  <1>3. CASE /\ o.ok /\ Took(o) /\ (Place' = "unmark" => OneName')
             /\ Place \notin Busy \/ (From' = From /\ To' = To)
    <2>1. Looks  BY <1>1, <1>3, SyncLooks
    <2>2. faults' = faults  BY <1>3 DEF Took
    <2> QED BY <1>3, <2>1, <2>2, LooksOn
  <1> QED BY <1>2, <1>3

LEMMA AllocCareful == ASSUME PieceInv, Alloc PROVE Careful
  <1>a. pc = "alloc"  BY DEF Alloc
  <1>1. Place \notin Busy  BY <1>a DEF Place, Busy
  <1>2. PICK o \in UpdateBuf(OtherSect) :
           \/ Fails(o)
           \/ o.ok /\ Took(o) /\ Return("FULL")
           \/ Writes(o, "links", o.win.buf.links) /\ Goto("allocSync", call)
    BY DEF Alloc
  <1>3. Return("FULL") \/ Goto("allocSync", call) => Place' # "unmark"  BY ReturnGoes, GotoGoes
  <1> QED BY <1>1, <1>2, <1>3, LinksOnly

LEMMA AllocSyncCareful == ASSUME PieceInv, AllocSync PROVE Careful
  <1>a. pc = "allocSync"  BY DEF AllocSync
  <1>1. Place \notin Busy  BY <1>a DEF Place, Busy
  <1> DEFINE l == IF call.op = "mkdir" THEN "dots" ELSE "room"
  <1>2. PICK o \in SyncBuf : Fails(o) \/ (o.ok /\ Took(o) /\ Goto(l, call))
    BY DEF AllocSync
  <1>3. l \in {"dots", "room"}  OBVIOUS
  <1> HIDE DEF l
  <1>4. Goto(l, call) => Place' # "unmark"  BY <1>3, GotoGoes
  <1> QED BY <1>1, <1>2, <1>4, SyncOnly

LEMMA DotsCareful == ASSUME PieceInv, Dots PROVE Careful
  <1>a. pc = "dots"  BY DEF Dots
  <1>1. Place \notin Busy  BY <1>a DEF Place, Busy
  <1>2. PICK o \in UpdateBuf(OtherSect) :
           \/ Fails(o)
           \/ Writes(o, "links", o.win.buf.links) /\ Goto("room", call)
    BY DEF Dots
  <1>3. Goto("room", call) => Place' # "unmark"  BY GotoGoes
  <1> QED BY <1>1, <1>2, <1>3, LinksOnly

LEMMA ReleaseCareful == ASSUME PieceInv, Release PROVE Careful
  <1>a. pc = "release"  BY DEF Release
  <1>1. Place \notin Busy  BY <1>a DEF Place, Busy
  <1>2. PICK o \in UpdateBuf(OtherSect) :
           \/ Fails(o)
           \/ o.ok /\ Took(o) /\ faults > 0 /\ Return("BROKEN")
           \/ Writes(o, "links", o.win.buf.links) /\ Goto("releaseSync", call)
    BY DEF Release
  <1>3. Return("BROKEN") \/ Goto("releaseSync", call) => Place' # "unmark"  BY ReturnGoes, GotoGoes
  <1> QED BY <1>1, <1>2, <1>3, LinksOnly

LEMMA FlushCareful == ASSUME PieceInv, Flush PROVE Careful
  <1>a. pc = "flush"  BY DEF Flush
  <1>1. Place \notin Busy  BY <1>a DEF Place, Busy
  <1>2. PICK o \in SyncBuf : Fails(o) \/ (o.ok /\ Took(o) /\ Return("NONE"))
    BY DEF Flush
  <1>3. Return("NONE") => Place' # "unmark"  BY ReturnGoes
  <1> QED BY <1>1, <1>2, <1>3, SyncOnly

LEMMA BeginsCareful ==
    ASSUME PieceInv, BeginSync \/ \E op \in Ops \ {"sync"}, n \in Names : Begin(op, n) PROVE Careful
  <1>1. pc = "idle" /\ pc' \in {"search", "flush"} /\ UNCHANGED <<disk, win, faults>>  BY DEF Begin, BeginSync
  <1>2. Looks /\ faults' = faults  BY <1>1, UnchangedLooks DEF PieceInv, IInv, Ground
  <1>3. Place \notin Busy /\ Place' # "unmark"  BY <1>1 DEF Place, Busy
  <1> QED BY <1>2, <1>3, LooksOn

LEMMA RoomCareful == ASSUME PieceInv, Room PROVE Careful
  <1>0. IInv  BY DEF PieceInv
  <1>a. pc = "room"  BY DEF Room
  <1>b. Place = "room"  BY <1>a DEF Place
  <1>1. Place \notin Busy  BY <1>b DEF Busy
  <1>2. call \in Calls /\ call.pos \in Slots /\ call.loc \in Slots /\ call.cnt \in Nat /\ call.eod \in BOOLEAN
    BY <1>0, <1>a, CallIs
  <1>3. PICK o \in UpdateBuf(SectOf(call.pos)) :
           \/ Fails(o)
           \/ /\ o.ok /\ Took(o)
              /\ \E k \in Nat, a \in Slots, e \in BOOLEAN :
                    Advance("room", [call EXCEPT !.cnt = k, !.loc = a, !.eod = e])
    <2>1. PICK o \in UpdateBuf(SectOf(call.pos)) :
           \/ Fails(o)
           \/ /\ o.ok /\ Took(o)
              /\ LET z == o.win.buf[call.pos].mark
                     t == call.eod \/ z # "used"
                 IN  Advance("room",
                        [call EXCEPT !.cnt = IF t THEN @ + 1 ELSE 0,
                                     !.loc = IF t /\ call.cnt = 0 THEN call.pos ELSE @,
                                     !.eod = @ \/ z = "last"])
      BY DEF Room
    <2> DEFINE z == o.win.buf[call.pos].mark
               t == call.eod \/ z # "used"
               k == IF t THEN call.cnt + 1 ELSE 0
               a == IF t /\ call.cnt = 0 THEN call.pos ELSE call.loc
               e == call.eod \/ z = "last"
    <2>2. k \in Nat /\ a \in Slots /\ e \in BOOLEAN  BY <1>2
    <2>3. ~Fails(o) => o.ok /\ Took(o) /\ Advance("room", [call EXCEPT !.cnt = k, !.loc = a, !.eod = e])
      BY <2>1, Zenon
    <2> HIDE DEF k, a, e
    <2> QED BY <2>2, <2>3
  <1>4. (Took(o) => Looks) /\ (o.ok /\ Took(o) => faults' = faults)  BY <1>0, SlotLooks
  <1>5. ASSUME NEW k \in Nat, NEW a \in Slots, NEW e \in BOOLEAN,
               Advance("room", [call EXCEPT !.cnt = k, !.loc = a, !.eod = e])
        PROVE  Place' # "unmark"
    <2> DEFINE c == [call EXCEPT !.cnt = k, !.loc = a, !.eod = e]
    <2>1. c \in Calls  BY <1>2 DEF Calls
    <2> HIDE DEF c
    <2> QED BY <1>5, <2>1, AdvanceGoes DEF Walks, c
  <1> QED BY <1>1, <1>3, <1>4, <1>5, LookOrFail

(* What a search has found has one name. *)
LEMMA FoundNamed ==
    ASSUME NEW d \in Dirs, NEW v \in Counts, Good(d, v), NEW c, NEW f, FoundOk(d, c, f), c.n \in Names,
           c.pos \in Slots, c.loc \in Slots
    PROVE  \E m \in Names \cup {"none"} : \A p \in Slots : c.loc <= p /\ p <= c.pos => d[p].n = m
  <1>1. CASE Whole(d, c.loc) /\ d[c.loc].n = c.n /\ c.pos = Reach(d, c.loc)
    <2>1. Frags[c.n] \in Nat /\ c.loc \in Nat /\ c.pos = c.loc + Frags[c.n]
      BY <1>1, PartIs, SlotIs DEF Reach
    <2>2. ASSUME NEW p \in Slots, c.loc <= p, p <= c.pos PROVE d[p].n = c.n
      <3>1. d[p] = Part(c.n, p - c.loc)  BY <1>1, <2>2 DEF Good
      <3>2. p - c.loc \in 0 .. Frags[c.n]  BY <2>1, <2>2, SlotIs
      <3> QED BY <3>1, <3>2, PartIs
    <2> QED BY <2>2
  <1>2. CASE c.loc = c.pos
    <2>1. \A p \in Slots : c.loc <= p /\ p <= c.pos => p = c.pos  BY <1>2, SlotIs
    <2>2. d[c.pos].n \in Names \cup {"none"}  BY SlotShapes
    <2> QED BY <2>1, <2>2
  <1> QED BY <1>1, <1>2 DEF FoundOk

LEMMA ReleaseSyncCareful == ASSUME PieceInv, ReleaseSync PROVE Careful
  <1> DEFINE c == [call EXCEPT !.pos = call.loc, !.loc = call.pos]
  <1>0. IInv  BY DEF PieceInv
  <1>a. pc = "releaseSync"  BY DEF ReleaseSync
  <1>b. Place = "releaseSync"  BY <1>a DEF Place
  <1>1. Place \notin Busy  BY <1>b DEF Busy
  <1>2. PICK o \in SyncBuf : Fails(o) \/ (o.ok /\ Took(o) /\ Goto("unmark", c))
    BY DEF ReleaseSync, UnmarkFrom
  <1>3. CASE Fails(o)  BY <1>1, <1>3, SyncOnly
  <1>4. CASE o.ok /\ Took(o) /\ Goto("unmark", c)
    <2>1. call \in Calls /\ call.pos \in Slots /\ call.loc \in Slots /\ call.n \in Names
          /\ Driver \in Dirs /\ InView \in Counts /\ Good(Driver, InView) /\ PlaceOk /\ MediumFits
      BY <1>0, <1>a, CallIs
    <2>2. FoundOk(Driver, call, faults)  BY <1>b, <2>1 DEF PlaceOk
    <2>3. \E m \in Names \cup {"none"} : \A p \in Slots : call.loc <= p /\ p <= call.pos => Driver[p].n = m
      BY <2>1, <2>2, FoundNamed
    <2>4. c.pos = call.loc /\ c.loc = call.pos  BY <2>1 DEF Calls
    <2> HIDE DEF c
    <2>5. pc' = "unmark" /\ call' = c  BY <1>4 DEF Goto
    <2>6. From' = call.loc /\ To' = call.pos  BY <2>4, <2>5 DEF From, To, Place, At, Busy
    <2>7. Driver' = Driver  BY <1>4, <2>1, SyncLooks DEF Looks, Still
    <2>8. OneName'  BY <2>3, <2>6, <2>7 DEF OneName
    <2> QED BY <1>1, <1>4, <2>8, SyncOnly
  <1> QED BY <1>2, <1>3, <1>4

LEMMA GrowSyncCareful == ASSUME PieceInv, GrowSync PROVE Careful
  <1> DEFINE x == call.pos + 1
             c == [call EXCEPT !.pos = x, !.left = 0, !.then = "none"]
  <1>0. IInv  BY DEF PieceInv
  <1>a. pc = "growSync"  BY DEF GrowSync
  <1>1. PICK o \in SyncBuf : Fails(o) \/ (o.ok /\ Took(o) /\ Goto("clear", c))
    BY DEF GrowSync
  <1>2. ASSUME Goto("clear", c) PROVE Place' # "unmark" /\ From' = From /\ To' = To
    <2>1. call \in Calls  BY <1>0, <1>a, CallIs
    <2>2. At = x  BY <1>a DEF At
    <2> HIDE DEF x
    <2>3. c.pos = x  BY <2>1 DEF Calls
    <2> HIDE DEF c
    <2>4. pc' = "clear" /\ call'.pos = x  BY <1>2, <2>3 DEF Goto
    <2>5. Place = "growSync" /\ Place' = "clear" /\ At' = At  BY <1>a, <2>2, <2>4 DEF Place, At
    <2> QED BY <2>5 DEF From, To, Busy
  <1> HIDE DEF c
  <1> QED BY <1>1, <1>2, SyncOnly

LEMMA GrowCareful == ASSUME PieceInv, Grow PROVE Careful
  <1>0. IInv  BY DEF PieceInv
  <1>a. pc = "grow"  BY DEF Grow
  <1>b. Place = "grow" /\ At = call.pos + 1  BY <1>a DEF Place, At
  <1>1. Place \notin Busy  BY <1>b DEF Busy
  <1>2. MediumFits /\ InView \in Counts /\ InView \in Nat /\ InView <= Size /\ PlaceOk
    BY <1>0, <1>a, CallIs
  <1>3. PICK o \in UpdateBuf(OtherSect) :
           \/ Fails(o)
           \/ o.ok /\ Took(o) /\ Return("FULL")
           \/ /\ o.win.buf.links < MaxClust
              /\ Writes(o, "links", o.win.buf.links + 1)
              /\ Goto("growSync", call)
    BY DEF Grow
  <1>4. CASE Fails(o)  BY <1>1, <1>4, LinksOnly
  <1>5. CASE o.ok /\ Took(o) /\ Return("FULL")
    <2>1. Place' # "unmark"  BY <1>5, ReturnGoes
    <2> QED BY <1>1, <1>5, <2>1, LinksOnly
  <1>6. CASE /\ o.win.buf.links < MaxClust
             /\ Writes(o, "links", o.win.buf.links + 1)
             /\ Goto("growSync", call)
    <2> DEFINE n == View(OtherSect).links
    <2>1. o.win.buf.links = n /\ n \in 1 .. MaxClust /\ faults' = faults
      <3>1. o.win.buf = View(OtherSect) /\ faults' = faults  BY <1>2, <1>6, LinksLooks DEF Writes
      <3> QED BY <1>2, <3>1, ViewTypes DEF LinkVals
    <2>2. n + 1 \in 1 .. MaxClust /\ Writes(o, "links", n + 1)
      <3>1. n < MaxClust  BY <1>6, <2>1, Zenon
      <3>2. n + 1 \in 1 .. MaxClust  BY <2>1, <3>1, Constants
      <3>3. Writes(o, "links", n + 1)  BY <1>6, <2>1, Zenon
      <3> QED BY <3>2, <3>3
    <2> HIDE DEF n
    <2>3. Driver' = Driver /\ (Stays \/ Settles)  BY <1>2, <2>2, WritesLinks DEF Links
    <2>4. pc' = "growSync" /\ call' = call  BY <1>6 DEF Goto
    <2>5. Place' = "growSync" /\ At' = At  BY <1>b, <2>4 DEF Place, At
    <2>6. At = InView  BY <1>b, <1>2 DEF PlaceOk, GrowOk
    <2>7. From = 1 /\ To = 0 /\ From' = InView /\ To' = Size  BY <1>b, <2>5, <2>6 DEF From, To, Busy
    <2>8. \A p \in Slots : ~(InView <= p /\ p <= Size) => p < InView /\ ~(1 <= p /\ p <= 0)
      BY <1>2, SlotIs
    <2>9. Strewn(Driver, InView', InView, Size) \subseteq Strewn(Driver, InView, 1, 0)
      BY <2>8, FewerBits
    <2>10. Loose' \subseteq Loose  BY <2>3, <2>7, <2>9 DEF Loose
    <2>11. Plain(Driver')  BY <2>3 DEF PieceInv
    <2> QED BY <2>1, <2>3, <2>5, <2>10, <2>11 DEF Careful, Costs, Follows
  <1> QED BY <1>3, <1>4, <1>5, <1>6

(* Clearing a sector of the last cluster leaves no more in pieces. *)
LEMMA ClearsLess ==
    ASSUME PieceInv, pc = "clear", NEW s, s = SectOf(call.pos) + call.left, Clears(s)
    PROVE  /\ Plain(Driver') /\ Follows /\ InView' = InView /\ Driver' = Cleared(s)
           /\ \A p \in Slots : Driver'[p].mark = "used" => Driver'[p] = Driver[p]
           /\ \A p \in Slots : Covered(Driver, p) => Covered(Driver', p)
           /\ \A f, t : Strewn(Driver', InView', f, t) \subseteq Strewn(Driver, InView, f, t)
  <1> DEFINE new == Driver'
  <1>0. IInv  BY DEF PieceInv
  <1>1. Driver \in Dirs /\ InView \in Counts /\ Good(Driver, InView) /\ call.pos \in Nat  BY <1>0, CallIs
  <1>2. Ground' /\ InView' = InView /\ Driver' = Cleared(s) /\ Differs(Driver, Driver', call.pos)
    BY <1>0, ClearsGround
  <1>3. new \in Dirs  BY <1>2, GroundThen
  <1>4. \A p \in Slots : new[p] = Zero \/ new[p] = Driver[p]  BY <1>2 DEF Cleared
  <1>5. Zero.mark = "last" /\ Zero.n = "none"  BY DEF Zero
  <1>6. \A p \in Slots : new[p].mark = "used" => new[p] = Driver[p]  BY <1>4, <1>5
  <1>7. Plain(new)  BY <1>4, <1>5 DEF PieceInv, Plain
  <1>8. Differs(Driver, new, call.pos)  BY <1>2
  <1> HIDE DEF new
  <1>9. \A p \in Slots : Whole(Driver, p) => Whole(new, p) /\ Reach(new, p) = Reach(Driver, p)
    <2>1. \A p \in Slots : /\ Whole(new, p) <=> Whole(Driver, p)
                           /\ HeadAt(Driver, p) => Reach(new, p) = Reach(Driver, p)
      BY <1>1, <1>3, <1>8, ForeignChange
    <2> QED BY <2>1 DEF Whole
  <1>10. \A p \in Slots : Covered(Driver, p) => Covered(new, p)  BY <1>9 DEF Covered
  <1>11. ASSUME NEW f, NEW t PROVE Strewn(new, InView, f, t) \subseteq Strewn(Driver, InView, f, t)
    BY <1>6, <1>10, FewerBits
  <1>12. Follows  BY <1>2 DEF Clears, Follows
  <1> QED BY <1>2, <1>6, <1>7, <1>10, <1>11, <1>12 DEF new

LEMMA ClearCareful == ASSUME PieceInv, Clear PROVE Careful
  <1> DEFINE b == call.pos
             s == SectOf(b) + call.left
             cells == [p \in Cells(s) |-> Zero]
             zeros == [sect |-> s, buf |-> cells, dirty |-> TRUE]
             written == [disk EXCEPT ![s] = cells]
  <1>0. IInv  BY DEF PieceInv
  <1>a. pc = "clear"  BY DEF Clear
  <1>1. Place = "clear" /\ At = b  BY <1>a DEF Place, At
  <1>2. /\ MediumFits /\ b \in Slots /\ b \in Nat /\ call.left \in Nat /\ call \in Calls
        /\ InView \in Counts /\ InView \in Nat /\ PlaceOk /\ Ground
    BY <1>0, <1>a, CallIs
  <1>3. /\ b + ClustSlots = InView /\ ~win.dirty /\ call.left < SectsPerClust
        /\ \A p \in Slots : b <= p /\ SectOf(p) < SectOf(b) + call.left => Driver[p] = Zero
    BY <1>1, <1>2 DEF PlaceOk, ClearOk, FreshOk
  <1>4. PICK n \in 1 .. MaxClust : InView = n * ClustSlots  BY <1>2, GroundIs
  <1>5. /\ s \in DirSects /\ SectOf(b) \in Nat
        /\ \A p \in Slots : SectOf(p) \in Nat /\ (p < b <=> SectOf(p) < SectOf(b))
        /\ \A p \in Slots : p < InView => SectOf(p) < SectOf(b) + SectsPerClust
    BY <1>2, <1>3, <1>4, LastCluster
  <1>b. faults \in 0 .. MaxFaults /\ MaxFaults \in Nat  BY <1>2, Constants DEF MediumFits
  <1>6. \/ \E d \in {disk, written} : Fails([win |-> zeros, disk |-> d, ok |-> FALSE])
        \/ /\ Took([win |-> [zeros EXCEPT !.dirty = FALSE], disk |-> written, ok |-> TRUE])
           /\ IF call.left + 1 < SectsPerClust
              THEN Goto("clear", [call EXCEPT !.left = @ + 1])
              ELSE Goto("room", [call EXCEPT !.left = 0])
    BY DEF Clear, ToClear
  <1> HIDE DEF s, cells
  <1>7. CASE \E d \in {disk, written} : Fails([win |-> zeros, disk |-> d, ok |-> FALSE])
    <2>1. PICK d \in {disk, written} : Fails([win |-> zeros, disk |-> d, ok |-> FALSE])  BY <1>7
    <2>2. win' = zeros /\ disk' = d /\ faults < MaxFaults /\ faults' = faults + 1 /\ pc' = "idle"
      BY <2>1 DEF Fails, Took, Return
    <2>3. faults' \in 0 .. MaxFaults /\ Calm  BY <1>b, <2>2 DEF Calm
    <2>4. win' \in [sect : {s}, buf : {cells}, dirty : BOOLEAN] /\ win'.dirty  BY <2>2
    <2>5. Clears(s)  BY <1>2, <1>3, <1>5, <2>2, <2>3, <2>4, ClearsSector DEF cells
    <2>6. Plain(Driver') /\ Follows /\ Torn' \subseteq Torn
      BY <1>a, <2>5, ClearsLess DEF s, Torn
    <2>7. Place' # "unmark"  BY <2>2 DEF Place
    <2> QED BY <2>2, <2>6, <2>7 DEF Careful, Costs
  <1>8. CASE /\ Took([win |-> [zeros EXCEPT !.dirty = FALSE], disk |-> written, ok |-> TRUE])
             /\ IF call.left + 1 < SectsPerClust
                THEN Goto("clear", [call EXCEPT !.left = @ + 1])
                ELSE Goto("room", [call EXCEPT !.left = 0])
    <2>2. win' = [sect |-> s, buf |-> cells, dirty |-> FALSE] /\ disk' = written /\ faults' = faults
      BY <1>8 DEF Took
    <2>3. faults' \in 0 .. MaxFaults /\ Calm  BY <1>b, <2>2 DEF Calm
    <2>4. win' \in [sect : {s}, buf : {cells}, dirty : BOOLEAN] /\ ~win'.dirty  BY <2>2
    <2>5. Clears(s)  BY <1>2, <1>3, <1>5, <2>2, <2>3, <2>4, ClearsSector DEF cells
    <2>6. /\ Plain(Driver') /\ Follows /\ InView' = InView /\ Driver' = Cleared(s)
          /\ \A p \in Slots : Driver'[p].mark = "used" => Driver'[p] = Driver[p]
          /\ \A p \in Slots : Covered(Driver, p) => Covered(Driver', p)
          /\ \A f, t : Strewn(Driver', InView', f, t) \subseteq Strewn(Driver, InView, f, t)
      BY <1>a, <2>5, ClearsLess DEF s
    <2>7. From = b /\ To = Size  BY <1>1 DEF From, To, Busy
    <2>8. Loose' \subseteq Loose /\ Place' # "unmark"
      <3>1. CASE call.left + 1 < SectsPerClust
        <4> DEFINE k == call.left + 1
                   c == [call EXCEPT !.left = k]
        <4>1. c.pos = b  BY <1>2 DEF Calls
        <4>2. pc' = "clear" /\ call' = c  BY <1>8, <3>1 DEF Goto
        <4> HIDE DEF c
        <4>3. Place' = "clear" /\ At' = b  BY <4>1, <4>2 DEF Place, At
        <4>4. From' = b /\ To' = Size  BY <4>3 DEF From, To, Busy
        <4>5. Loose' \subseteq Loose  BY <2>6, <2>7, <4>4 DEF Loose
        <4> QED BY <4>3, <4>5
      <3>2. CASE ~(call.left + 1 < SectsPerClust)
        <4>1. pc' = "room"  BY <1>8, <3>2 DEF Goto
        <4>2. Place' = "room"  BY <4>1 DEF Place
        <4>3. From' = 1 /\ To' = 0  BY <4>2 DEF From, To, Busy
        <4>4. ASSUME NEW p \in Slots, p < InView, ~(p < b) PROVE Driver'[p] = Zero
          <5>1. SectOf(p) < SectOf(b) + SectsPerClust /\ SectOf(p) \in Nat /\ SectOf(b) \in Nat  BY <1>5, <4>4
          <5>2. call.left + 1 = SectsPerClust  BY <1>2, <1>3, <3>2, Constants
          <5>3. b <= p  BY <1>2, <4>4, SlotIs
          <5>4. CASE SectOf(p) = s  BY <2>6, <5>4 DEF Cleared
          <5>5. CASE SectOf(p) # s
            <6>1. SectOf(p) < SectOf(b) + call.left  BY <1>2, <5>1, <5>2, <5>5 DEF s
            <6>2. Driver[p] = Zero  BY <1>3, <5>3, <6>1
            <6> QED BY <2>6, <5>5, <6>2 DEF Cleared
          <5> QED BY <5>4, <5>5
        <4>5. ASSUME NEW p \in Slots, p < InView, Driver'[p].mark = "used" PROVE ~(b <= p /\ p <= Size)
          <5>1. Zero.mark = "last"  BY DEF Zero
          <5>2. p < b  BY <4>4, <4>5, <5>1
          <5> QED BY <1>2, <5>2, SlotIs
        <4> DEFINE new == Driver'
        <4>6. \A p \in Slots : p < InView /\ new[p].mark = "used" => ~(b <= p /\ p <= Size) /\ new[p] = Driver[p]
          BY <2>6, <4>5
        <4>7. \A p \in Slots : Covered(Driver, p) => Covered(new, p)  BY <2>6
        <4> HIDE DEF new
        <4>8. Strewn(new, InView, 1, 0) \subseteq Strewn(Driver, InView, b, Size)
          BY <4>6, <4>7, FewerBits
        <4>9. Loose' \subseteq Loose  BY <2>6, <2>7, <4>3, <4>8 DEF Loose, new
        <4> QED BY <4>2, <4>9
      <3> QED BY <3>1, <3>2
    <2> QED BY <2>2, <2>6, <2>8 DEF Careful, Costs
  <1> QED BY <1>6, <1>7, <1>8

LEMMA MarkCareful == ASSUME PieceInv, Mark PROVE Careful
  <1> DEFINE b == call.pos
             n == call.n
             loc == call.loc
             f == Frags[n]
             c == [call EXCEPT !.pos = loc, !.loc = 0, !.cnt = 0, !.eod = FALSE, !.left = f]
  <1>0. IInv  BY DEF PieceInv
  <1>a. pc = "room" /\ call.cnt = f + 1  BY DEF Mark, Need
  <1>1. Place = "room" /\ At = b  BY <1>a DEF Place, At
  <1>2. /\ MediumFits /\ b \in Slots /\ b < InView /\ loc \in Nat /\ n \in Names /\ call \in Calls /\ call.eod \in BOOLEAN
        /\ Driver \in Dirs /\ InView \in Counts /\ Good(Driver, InView) /\ PlaceOk
    BY <1>0, <1>a, CallIs
  <1>3. Missing(Driver, n) /\ Run(Driver, loc, f + 1, call.eod, b)
    BY <1>a, <1>1, <1>2 DEF PlaceOk, RoomOk
  <1>4. AtFirst(call) = c  BY DEF AtFirst
  <1> HIDE DEF c
  <1>5. Goto("fill", c) => Place' = "fill"  BY GotoGoes
  <1>6. Place \notin Busy  BY <1>1 DEF Busy
  <1>7. CASE call.eod
    <2> DEFINE v == [Driver[b] EXCEPT !.mark = "last"]
               new == [Driver EXCEPT ![b] = v]
    <2>1. PICK o \in UpdateBuf(SectOf(b)) :
             \/ Fails(o)
             \/ /\ Writes(o, b, [o.win.buf[b] EXCEPT !.mark = "last"])
                /\ Goto("fill", c)
      BY <1>4, <1>7 DEF Mark
    <2>2. CASE Fails(o)
      <3>1. Looks  BY <1>0, <2>2, SlotLooks DEF Fails
      <3> QED BY <2>2, <3>1, FailsCareful
    <2>3. CASE Writes(o, b, [o.win.buf[b] EXCEPT !.mark = "last"]) /\ Goto("fill", c)
      <3>a. v.n = Driver[b].n
        <4>1. Driver[b] \in SlotVals  BY <1>2, SlotShapes
        <4> QED BY <4>1 DEF SlotVals
      <3>1. Ends(Driver, new, b)  BY DEF Ends
      <3>2. Run(Driver, loc, f + 1, TRUE, b)  BY <1>2, <1>3, <1>7
      <3> HIDE DEF new
      <3>3. EndsAt(Driver, InView, n, loc, b, new)  BY <1>2, <1>3, <3>1, <3>2, MarkStep
      <3>4. /\ new = [Driver EXCEPT ![b] = v] /\ v \in SlotVals /\ new \in Dirs
            /\ \A p \in Slots : Whole(Driver, p) => Whole(new, p) /\ Reach(new, p) = Reach(Driver, p)
            /\ \A p \in Slots : new[p].kind = Driver[p].kind /\ (new[p].mark = Driver[p].mark \/ new[p].mark = "last")
        BY <3>3, Zenon DEF EndsAt
      <3>5. Writes(o, b, v)
        <4>1. o.win.buf[b] = Driver[b]  BY <1>0, <1>2, <2>3, StoresSlot DEF Writes
        <4> QED BY <2>3, <4>1, Zenon
      <3> HIDE DEF v
      <3>6. Driver' = new /\ InView' = InView /\ (Stays \/ Settles)
        <4>1. Puts(b, v)  BY <1>2, <3>4, <3>5, WritesSlot
        <4> QED BY <3>4, <4>1 DEF Puts
      <3>7. \A p \in Slots : new[p].n = Driver[p].n
        <4>1. Driver \in [Slots -> SlotVals]  BY <1>2 DEF Dirs
        <4>2. \A p \in Slots : p # b => new[p] = Driver[p]  BY <3>4, <4>1
        <4>3. new[b] = v  BY <1>2, <3>4, <4>1
        <4> QED BY <3>a, <4>2, <4>3
      <3>8. \A p \in Slots : Covered(Driver, p) => Covered(new, p)  BY <3>4 DEF Covered
      <3>9. Plain(new)
        <4>1. \A p \in Slots : new[p].kind = Driver[p].kind  BY <3>4
        <4> QED BY <3>7, <4>1 DEF PieceInv, Plain, Foreign
      <3>10. ASSUME NEW x, NEW y PROVE Strewn(new, InView, x, y) \subseteq Strewn(Driver, InView, 1, 0)
        <4>1. \A p \in Slots : ~(1 <= p /\ p <= 0)  BY SlotIs
        <4>2. \A p \in Slots : new[p].mark = "used" => Driver[p].mark = "used"  BY <3>4
        <4> QED BY <3>7, <3>8, <4>1, <4>2, FewerBits
      <3>11. From = 1 /\ To = 0  BY <1>6, <1>1 DEF From, To
      <3>12. Loose' \subseteq Loose
        <4>1. Loose' = Strewn(new, InView, From', To')  BY <3>6 DEF Loose
        <4> QED BY <3>10, <3>11, <4>1 DEF Loose
      <3>13. faults' = faults  BY <2>3 DEF Writes
      <3> QED BY <1>5, <2>3, <3>6, <3>9, <3>12, <3>13 DEF Careful, Costs, Follows
    <2> QED BY <2>1, <2>2, <2>3
  <1>8. CASE ~call.eod
    <2>1. Goto("fill", c) /\ UNCHANGED <<disk, win, faults>>  BY <1>4, <1>8 DEF Mark
    <2>2. Looks /\ faults' = faults  BY <1>2, <2>1, UnchangedLooks
    <2>3. Place' # "unmark"  BY <1>5, <2>1
    <2> QED BY <1>6, <2>2, <2>3, LooksOn
  <1> QED BY <1>2, <1>7, <1>8

(* A part of an entry adds no piece, and the last one makes it whole. *)
LEMMA FillCovers ==
    ASSUME NEW dir \in Dirs, NEW cnt \in Counts, Good(dir, cnt), NEW n \in Names, NEW a, NEW b,
           Filling(dir, cnt, n, a, b), NEW new, Fills(dir, new, n, a, b), Plain(dir)
    PROVE  /\ Plain(new)
           /\ Strewn(new, cnt, a, b) \subseteq Strewn(dir, cnt, a, b - 1)
           /\ b = a + Frags[n] => Strewn(new, cnt, 1, 0) \subseteq Strewn(dir, cnt, a, b - 1)
  <1>1a. new \in Dirs /\ Reach(new, a) = a + Frags[n]  BY FillStep
  <1>1b. \A q \in Slots : q # a => (Whole(new, q) <=> Whole(dir, q))  BY FillStep
  <1>1c. \A q \in Slots : Whole(dir, q) => Reach(new, q) = Reach(dir, q)  BY FillStep
  <1>1d. Whole(new, a) <=> b = a + Frags[n]  BY FillStep
  <1>2. b \in Nat /\ b <= a + Frags[n] /\ a \in Slots /\ b \in Slots /\ ~Whole(dir, a) /\ b - a \in 0 .. Frags[n] /\ a \in Nat
        /\ a <= b
    BY FillingShapes DEF Fills
  <1>3. \A p \in Slots : p # b => new[p] = dir[p]  BY <1>2 DEF Fills
  <1>4. new[b] = Part(n, b - a)  BY <1>2 DEF Dirs, Fills
  <1>5. ~Foreign(new[b])  BY <1>2, <1>4, PartIs
  <1>6. \A p \in Slots : Covered(dir, p) => Covered(new, p)  BY <1>1b, <1>1c, <1>2 DEF Covered
  <1>7. Plain(new)  BY <1>3, <1>5 DEF Plain
  <1>8. Strewn(new, cnt, a, b) \subseteq Strewn(dir, cnt, a, b - 1)
    <2>1. \A p \in Slots : ~(a <= p /\ p <= b) => ~(a <= p /\ p <= b - 1) /\ new[p] = dir[p]
      BY <1>2, <1>3, SlotIs
    <2> QED BY <1>6, <2>1, FewerBits
  <1>9. ASSUME b = a + Frags[n] PROVE Strewn(new, cnt, 1, 0) \subseteq Strewn(dir, cnt, a, b - 1)
    <2>1. \A p \in Slots : a <= p /\ p <= b => Covered(new, p)
      BY <1>1a, <1>1d, <1>2, <1>9 DEF Covered
    <2>2. \A p \in Slots : ~Covered(new, p) => ~(a <= p /\ p <= b - 1) /\ new[p] = dir[p]
      BY <1>2, <1>3, <2>1, SlotIs
    <2> QED BY <1>6, <2>2, FewerBits
  <1> QED BY <1>7, <1>8, <1>9

(* And freeing one, the head first, makes pieces of no other entry. *)
LEMMA UnmarkCovers ==
    ASSUME NEW dir \in Dirs, NEW cnt \in Counts, Good(dir, cnt), NEW n \in Names, NEW last \in Nat, NEW b \in Nat,
           Unmarking(dir, cnt, n, last, b), NEW new, Frees(dir, new, b), Plain(dir)
    PROVE  /\ Plain(new)
           /\ \A p \in Slots : new[p].n = dir[p].n
           /\ Strewn(new, cnt, b + 1, last) \subseteq Strewn(dir, cnt, b, last)
           /\ b = last => Strewn(new, cnt, 1, 0) \subseteq Strewn(dir, cnt, b, last)
  <1>1a. b \in Slots /\ new \in Dirs  BY UnmarkStep
  <1>1b. \A q \in Slots : Whole(new, q) <=> Whole(dir, q) /\ q # b  BY UnmarkStep
  <1>1c. \A q \in Slots : Whole(new, q) => Reach(new, q) = Reach(dir, q)  BY UnmarkStep
  <1>2. dir[b] \in SlotVals  BY <1>1a, SlotShapes
  <1>3. new[b].mark = "free" /\ new[b].kind = dir[b].kind /\ new[b].n = dir[b].n /\ \A p \in Slots : p # b => new[p] = dir[p]
    BY <1>1a, <1>2 DEF Dirs, SlotVals, Frees
  <1>4. \A p \in Slots : p \in Nat  BY SlotIs
  <1>5. \A p \in Slots : Covered(dir, p) => Covered(new, p) \/ (b <= p /\ p <= last)
    <2> SUFFICES ASSUME NEW p \in Slots, Covered(dir, p) PROVE Covered(new, p) \/ (b <= p /\ p <= last)
      OBVIOUS
    <2>1. PICK q \in Slots : Whole(dir, q) /\ q <= p /\ p <= Reach(dir, q)  BY DEF Covered
    <2>2. CASE q # b  BY <1>1b, <1>1c, <2>1, <2>2 DEF Covered
    <2>3. CASE q = b
      <3>1. Reach(dir, b) = last  BY <2>1, <2>3 DEF Unmarking, Whole
      <3> QED BY <2>1, <2>3, <3>1
    <2> QED BY <2>2, <2>3
  <1>6. \A p \in Slots : new[p].n = dir[p].n  BY <1>3
  <1>7. Plain(new)  BY <1>3, <1>6 DEF Plain, Foreign
  <1>8. ASSUME NEW p \in Slots, new[p].mark = "used", ~(b + 1 <= p /\ p <= last), ~Covered(new, p)
        PROVE  dir[p].mark = "used" /\ ~(b <= p /\ p <= last) /\ ~Covered(dir, p)
    <2>1. p # b  BY <1>3, <1>8
    <2>2. ~(b <= p /\ p <= last)  BY <1>4, <1>8, <2>1
    <2> QED BY <1>3, <1>5, <1>8, <2>1, <2>2
  <1>9. Strewn(new, cnt, b + 1, last) \subseteq Strewn(dir, cnt, b, last)  BY <1>6, <1>8, FewerBits
  <1>10. ASSUME b = last PROVE Strewn(new, cnt, 1, 0) \subseteq Strewn(dir, cnt, b, last)
    <2>1. \A p \in Slots : ~(b + 1 <= p /\ p <= last)  BY <1>4, <1>10
    <2>2. Strewn(new, cnt, 1, 0) \subseteq Strewn(new, cnt, b + 1, last)  BY <2>1, FewerBits
    <2> QED BY <1>9, <2>2
  <1> QED BY <1>6, <1>7, <1>9, <1>10

LEMMA FillCareful == ASSUME PieceInv, Fill PROVE Careful
  <1> DEFINE b == call.pos
             n == call.n
             a == First(call, b)
             v == Part(n, b - a)
             new == [Driver EXCEPT ![b] = v]
             c == [call EXCEPT !.left = @ - 1]
  <1>0. IInv  BY DEF PieceInv
  <1>a. pc = "fill"  BY DEF Fill
  <1>1. Place = "fill" /\ At = b  BY <1>a DEF Place, At
  <1>2. MediumFits /\ Ground /\ CallOk /\ b \in Slots /\ b \in Nat /\ call.left \in Nat /\ n \in Names
        /\ Driver \in Dirs /\ InView \in Counts /\ Good(Driver, InView) /\ call \in Calls /\ call.cnt = 0
        /\ Frags[n] \in 1 .. 20 /\ PlaceOk
    BY <1>0, <1>a, <1>1, CallIs
  <1>3. FillOk(Driver, InView, Medium, call, b)  BY <1>1, <1>2 DEF PlaceOk
  <1>b. From = a /\ To = b - 1  BY <1>1 DEF From, To
  <1>5. PICK o \in UpdateBuf(SectOf(b)) :
           \/ Fails(o)
           \/ /\ Writes(o, b, FillPart(call))
              /\ \/ call.left > 0 /\ Advance("fill", c)
                 \/ call.left = 0 /\ call.op = "add" /\ Return("NONE")
                 \/ call.left = 0 /\ call.op = "mkdir" /\ Goto("flush", call)
    BY DEF Fill
  <1>6. CASE Fails(o)
    <2>1. Looks  BY <1>0, <1>6, SlotLooks DEF Fails
    <2> QED BY <1>6, <2>1, FailsCareful
  <1>7. CASE /\ Writes(o, b, FillPart(call))
             /\ \/ call.left > 0 /\ Advance("fill", c)
                \/ call.left = 0 /\ call.op = "add" /\ Return("NONE")
                \/ call.left = 0 /\ call.op = "mkdir" /\ Goto("flush", call)
    <2>1. call.left <= Frags[n] /\ Filling(Driver, InView, n, a, b)
      BY <1>3 DEF FillOk
    <2>2. /\ a = b - (Frags[n] - call.left) /\ a \in Nat /\ b - a \in 0 .. Frags[n] /\ b <= a + Frags[n]
          /\ b = a + Frags[n] <=> call.left = 0
          /\ b - a < Frags[n] <=> call.left > 0
          /\ Frags[n] - (b - a) = call.left
      <3>1. a = b - (Frags[n] - call.left)  BY DEF First
      <3>2. a \in Nat  BY <2>1 DEF Filling
      <3>3. \A x, f, l, y \in Nat : l <= f /\ y = x - (f - l) =>
               /\ x - y \in 0 .. f /\ x <= y + f
               /\ x = y + f <=> l = 0
               /\ x - y < f <=> l > 0
               /\ f - (x - y) = l
        OBVIOUS
      <3>4. Frags[n] \in Nat  BY <1>2
      <3> HIDE DEF a, b, n
      <3> QED BY <1>2, <2>1, <3>1, <3>2, <3>3, <3>4
    <2>3. FillPart(call) = v
      <3>1. CASE call.left > 0
        <4>1. v = Lfn(n, Frags[n] - (b - a))  BY <2>2, <3>1 DEF Part
        <4> QED BY <2>2, <3>1, <4>1 DEF FillPart
      <3>2. CASE call.left = 0
        <4>1. v = Sfn(n)  BY <2>2, <3>2 DEF Part
        <4>2. ~(call.left > 0)  BY <3>2
        <4> QED BY <4>1, <4>2 DEF FillPart
      <3> QED BY <1>2, <3>1, <3>2
    <2>5. Fills(Driver, new, n, a, b)  BY <1>2, <2>2 DEF Fills
    <2>6. v \in SlotVals  BY <1>2, <2>2, PartIs
    <2> HIDE DEF v
    <2>7. Puts(b, v)
      <3>1. Writes(o, b, v)  BY <1>7, <2>3, Zenon
      <3> QED BY <1>2, <2>6, <3>1, WritesSlot
    <2>8. Driver' = new /\ InView' = InView /\ (Stays \/ Settles)  BY <2>7 DEF Puts
    <2> HIDE DEF new
    <2> HIDE DEF a
    <2>p. Plain(Driver)  BY DEF PieceInv
    <2>9. /\ Plain(new)
          /\ Strewn(new, InView, a, b) \subseteq Strewn(Driver, InView, a, b - 1)
          /\ b = a + Frags[n] => Strewn(new, InView, 1, 0) \subseteq Strewn(Driver, InView, a, b - 1)
      BY <1>2, <2>p, <2>1, <2>5, FillCovers
    <2>14. faults' = faults  BY <1>7 DEF Writes
    <2>16. CASE call.left > 0 /\ Advance("fill", c)
      <3> DEFINE k == call.left - 1
      <3>1. k \in Nat /\ k <= Frags[n] /\ c = [call EXCEPT !.left = k]  BY <1>2, <2>1, <2>16
      <3>2. b + 1 - (Frags[n] - k) = a
        <4>1. \A x, y, z \in Nat : x + 1 - (y - (z - 1)) = x - (y - z)  OBVIOUS
        <4>2. Frags[n] \in Nat /\ call.left \in Nat /\ b \in Nat  BY <1>2
        <4>3. a = b - (Frags[n] - call.left)  BY <2>2
        <4> QED BY <4>1, <4>2, <4>3
      <3> HIDE DEF k
      <3>3. c \in Calls /\ c.op = call.op /\ c.n = n /\ c.pos = b /\ c.left = k /\ c.cnt = 0  BY <1>2, <3>1 DEF Calls
      <3> HIDE DEF c
      <3>4. Place' = "fill" /\ At' = b + 1 /\ call'.n = n /\ call'.left = k
        BY <1>a, <1>2, <2>8, <2>16, <3>3, AdvanceRest DEF Walks
      <3>5. First(call', At') = a  BY <1>2, <3>1, <3>2, <3>4 DEF First
      <3>6. From' = a /\ To' = b
        <4>1. (b + 1) - 1 = b  BY <1>2
        <4> QED BY <3>4, <3>5, <4>1 DEF From, To
      <3>7. Loose' \subseteq Loose  BY <1>b, <2>8, <2>9, <3>6 DEF Loose
      <3> QED BY <2>8, <2>9, <2>14, <3>4, <3>7 DEF Careful, Costs, Follows
    <2>17. CASE call.left = 0
      <3>1. Return("NONE") \/ Goto("flush", call)
        <4>1. ~(call.left > 0)  BY <2>17
        <4> QED BY <1>7, <4>1
      <3>2. Place' \in {"idle", "flush"}  BY <3>1, ReturnGoes, GotoGoes
      <3>3. From' = 1 /\ To' = 0  BY <3>2 DEF From, To, Busy
      <3>4. Loose' \subseteq Loose  BY <1>b, <2>2, <2>8, <2>9, <2>17, <3>3 DEF Loose
      <3> QED BY <2>8, <2>9, <2>14, <3>2, <3>4 DEF Careful, Costs, Follows
    <2> QED BY <1>7, <2>16, <2>17
  <1> QED BY <1>5, <1>6, <1>7

LEMMA UnmarkCareful == ASSUME PieceInv, Unmark PROVE Careful
  <1> DEFINE b == call.pos
             last == call.loc
             v == [Driver[b] EXCEPT !.mark = "free"]
             new == [Driver EXCEPT ![b].mark = "free"]
  <1>0. IInv  BY DEF PieceInv
  <1>a. pc = "unmark"  BY DEF Unmark
  <1>1. Place = "unmark" /\ At = b  BY <1>a DEF Place, At
  <1>2. MediumFits /\ Ground /\ CallOk /\ b \in Slots /\ b \in Nat /\ last \in Nat /\ call.n \in Names
        /\ Driver \in Dirs /\ InView \in Counts /\ Good(Driver, InView) /\ call \in Calls /\ call.left = 0 /\ call.cnt = 0
        /\ PlaceOk
    BY <1>0, <1>a, <1>1, CallIs
  <1>3. UnmarkOk(Driver, InView, Medium, call, b, faults)  BY <1>1, <1>2 DEF PlaceOk
  <1>b. From = b /\ To = last  BY <1>1 DEF From, To, Busy
  <1>5. PICK o \in UpdateBuf(SectOf(b)) :
           \/ Fails(o)
           \/ /\ Writes(o, b, [o.win.buf[b] EXCEPT !.mark = "free"])
              /\ IF b = last THEN Goto("flush", call) ELSE Advance("unmark", call)
    BY DEF Unmark
  <1>6. CASE Fails(o)
    <2>1. Looks  BY <1>0, <1>6, SlotLooks DEF Fails
    <2> QED BY <1>6, <2>1, FailsCareful
  <1>7. CASE /\ Writes(o, b, [o.win.buf[b] EXCEPT !.mark = "free"])
             /\ IF b = last THEN Goto("flush", call) ELSE Advance("unmark", call)
    <2>0. Unmarking(Driver, InView, call.n, last, b)  BY <1>3 DEF UnmarkOk
    <2>1. new = [Driver EXCEPT ![b] = v] /\ v \in SlotVals
      <3>1. Frees(Driver, new, b)  BY DEF Frees
      <3> HIDE DEF new
      <3>2. Unmarked(Driver, InView, call.n, last, b, new)  BY <1>2, <2>0, <3>1, UnmarkIs
      <3> QED BY <3>2, Zenon DEF Unmarked
    <2>2. /\ Plain(new)
          /\ \A p \in Slots : new[p].n = Driver[p].n
          /\ Strewn(new, InView, b + 1, last) \subseteq Strewn(Driver, InView, b, last)
          /\ b = last => Strewn(new, InView, 1, 0) \subseteq Strewn(Driver, InView, b, last)
      <3>1. Frees(Driver, new, b)  BY DEF Frees
      <3>2. Plain(Driver)  BY DEF PieceInv
      <3> HIDE DEF new
      <3> QED BY <1>2, <2>0, <3>1, <3>2, UnmarkCovers
    <2> HIDE DEF new
    <2>4. Puts(b, v)
      <3>1. o.win.buf[b] = Driver[b]  BY <1>0, <1>2, <1>7, StoresSlot DEF Writes
      <3>2. Writes(o, b, v)  BY <1>7, <3>1, Zenon
      <3> HIDE DEF v
      <3> QED BY <1>2, <2>1, <3>2, WritesSlot
    <2>5. Driver' = new /\ InView' = InView /\ (Stays \/ Settles)  BY <2>1, <2>4 DEF Puts
    <2>7. faults' = faults  BY <1>7 DEF Writes
    <2>8. CASE b = last /\ Goto("flush", call)
      <3>1. Place' = "flush"  BY <2>8, GotoGoes
      <3>2. From' = 1 /\ To' = 0  BY <3>1 DEF From, To, Busy
      <3>3. Loose' \subseteq Loose  BY <1>b, <2>2, <2>5, <2>8, <3>2 DEF Loose
      <3> QED BY <2>2, <2>5, <2>7, <3>1, <3>3 DEF Careful, Costs, Follows
    <2>9. CASE b # last /\ Advance("unmark", call)
      <3>1. Place' = "unmark" /\ At' = b + 1 /\ call'.loc = last
        BY <1>a, <1>2, <2>5, <2>9, AdvanceRest DEF Walks
      <3>2. From' = b + 1 /\ To' = last  BY <3>1 DEF From, To, Busy
      <3>3. Loose' \subseteq Loose  BY <1>b, <2>2, <2>5, <3>2 DEF Loose
      <3>4. OneName'
        <4>1. PICK m \in Names \cup {"none"} : \A p \in Slots : b <= p /\ p <= last => Driver[p].n = m
          BY <1>b DEF PieceInv, OneName
        <4>2. \A p \in Slots : b + 1 <= p /\ p <= last => new[p].n = m
          BY <1>2, <2>2, <4>1, SlotIs
        <4> QED BY <2>5, <3>2, <4>2 DEF OneName
      <3> QED BY <2>2, <2>5, <2>7, <3>3, <3>4 DEF Careful, Costs, Follows
    <2> QED BY <1>7, <2>8, <2>9
  <1> QED BY <1>5, <1>6, <1>7

(* When the power goes, the driver comes back to what the medium has. *)
LEMMA CrashKeepsPieces == ASSUME PieceInv, IInv', Crash PROVE PieceInv'
  <1>1. MediumFits  BY DEF PieceInv, IInv, Ground
  <1>2. Driver' = Medium /\ InView' = OnDisk /\ Medium' = Medium /\ OnDisk' = OnDisk
    BY <1>1, CrashTurns DEF Stays
  <1>3. faults' = faults + 1 /\ pc' = "idle"  BY DEF Crash
  <1>4. From' = 1 /\ To' = 0  BY <1>3 DEF From, To, Place, Busy
  <1>5. Plain(Driver') /\ Plain(Medium')  BY <1>2 DEF PieceInv
  <1>6. OneName'
    <2>1. \A p \in Slots : ~(1 <= p /\ p <= 0)  BY SlotIs
    <2> QED BY <1>4, <2>1 DEF OneName
  <1>7. Cardinality(Strewn(Medium, OnDisk, 1, 0)) <= faults + 1  BY DEF PieceInv
  <1>8. Cardinality(Loose') <= faults'  BY <1>2, <1>3, <1>4, <1>7 DEF Loose
  <1>9. Cardinality(Strewn(Medium', OnDisk', 1, 0)) <= faults' + 1
    <2>1. faults \in Nat  BY <1>1, Constants DEF MediumFits
    <2>2. Cardinality(Strewn(Medium, OnDisk, 1, 0)) \in Nat  BY StrewnFinite
    <2>3. Cardinality(Strewn(Medium, OnDisk, 1, 0)) <= faults + 1 + 1  BY <1>7, <2>1, <2>2
    <2> QED BY <1>2, <1>3, <2>3
  <1> QED BY <1>5, <1>6, <1>8, <1>9 DEF PieceInv

(* At first nothing is in pieces. *)
LEMMA InitPieces == Init => PieceInv
  <1> SUFFICES ASSUME Init PROVE PieceInv
    OBVIOUS
  <1>1. IInv  BY InitFits
  <1>2. win = NoWin /\ faults = 0 /\ pc = "idle"  BY DEF Init
  <1>3. Place = "idle"  BY <1>2 DEF Place
  <1>4. From = 1 /\ To = 0  BY <1>3 DEF From, To, Busy
  <1>5. \A s \in Sects : View(s) = disk[s]
    <2>1. win.sect = NoSect  BY <1>2 DEF NoWin
    <2> QED BY <2>1, SectorsFit DEF View
  <1>6. Driver = Medium /\ InView = OnDisk  BY <1>5, SectorsFit DEF Driver, Medium, InView, OnDisk
  <1>7. Strewn(Driver, InView, 1, 0) = {}
    <2>1. Tidy(Driver, InView, 1, 0)  BY <1>1, <1>2, <1>3 DEF IInv, Rest, TidyOk
    <2>2. \A p \in Slots : ~(1 <= p /\ p <= 0)  BY SlotIs
    <2>3. Bits(Driver, InView, 1, 0) = {}  BY <2>1, <2>2 DEF Tidy, Bits
    <2> QED BY <2>3 DEF Strewn
  <1>8. Cardinality(Loose) <= faults /\ Cardinality(Strewn(Medium, OnDisk, 1, 0)) <= faults + 1
    <2>1. Cardinality({}) = 0  BY FS_EmptySet
    <2> QED BY <1>2, <1>4, <1>6, <1>7, <2>1 DEF Loose
  <1>9. OneName
    <2>1. \A p \in Slots : ~(1 <= p /\ p <= 0)  BY SlotIs
    <2> QED BY <1>4, <2>1 DEF OneName
  <1>10. Plain(Medium)
    <2>1. PICK seed \in Seeds, junk \in Junk : \E at \in [DOMAIN seed -> 0 .. ClustSlots - 1] :
           /\ Laid(seed, at)
           /\ disk = [s \in DirSects \cup {OtherSect} |->
                         IF s = OtherSect THEN [links |-> 1]
                         ELSE [p \in Cells(s) |-> FirstSlot(seed, at, junk, p)]]
      BY DEF Init
    <2>2. PICK at \in [DOMAIN seed -> 0 .. ClustSlots - 1] :
           /\ Laid(seed, at)
           /\ disk = [s \in DirSects \cup {OtherSect} |->
                         IF s = OtherSect THEN [links |-> 1]
                         ELSE [p \in Cells(s) |-> FirstSlot(seed, at, junk, p)]]
      BY <2>1
    <2>3. ASSUME NEW p \in Slots PROVE Medium[p] = FirstSlot(seed, at, junk, p)
      <3>1. SectOf(p) \in DirSects /\ p \in Cells(SectOf(p)) /\ SectOf(p) # OtherSect  BY SectorsFit
      <3>2. disk[SectOf(p)] = [q \in Cells(SectOf(p)) |-> FirstSlot(seed, at, junk, q)]  BY <2>2, <3>1
      <3>3. disk[SectOf(p)][p] = FirstSlot(seed, at, junk, p)  BY <3>1, <3>2, Zenon
      <3> QED BY <3>3 DEF Medium
    <2>4. /\ \A i \in DOMAIN seed : /\ seed[i] \in Names /\ at[i] \in Nat /\ at[i] \in Slots
                                    /\ Frags[seed[i]] \in 1 .. 20 /\ at[i] + Frags[seed[i]] < ClustSlots
          /\ \A p \in Slots, i \in DOMAIN seed :
                p \in Held(seed, at, i) => FirstSlot(seed, at, junk, p) = Part(seed[i], p - at[i])
          /\ \A p \in Slots : (\A i \in DOMAIN seed : p \notin Held(seed, at, i)) =>
                FirstSlot(seed, at, junk, p) = IF p < ClustSlots THEN Zero ELSE junk
      BY <2>2, FirstSlots
    <2>5. ASSUME NEW p \in Slots, Foreign(Medium[p]) PROVE Medium[p].n = "none"
      <3>1. CASE \E i \in DOMAIN seed : p \in Held(seed, at, i)
        <4>1. PICK i \in DOMAIN seed : p \in Held(seed, at, i)  BY <3>1
        <4>2. Medium[p] = Part(seed[i], p - at[i]) /\ seed[i] \in Names  BY <2>3, <2>4, <4>1
        <4>3. p - at[i] \in 0 .. Frags[seed[i]]  BY <2>4, <4>1, SlotIs DEF Held
        <4>4. ~Foreign(Medium[p])  BY <4>2, <4>3, PartIs
        <4> QED BY <2>5, <4>4
      <3>2. CASE \A i \in DOMAIN seed : p \notin Held(seed, at, i)
        <4>1. Medium[p] = Zero \/ Medium[p] = junk  BY <2>3, <2>4, <3>2
        <4>2. junk.n = "none"  BY DEF Junk
        <4> QED BY <4>1, <4>2 DEF Zero
      <3> QED BY <3>1, <3>2
    <2> QED BY <2>5 DEF Plain
  <1> QED BY <1>1, <1>6, <1>8, <1>9, <1>10 DEF PieceInv

LEMMA StepCareful == ASSUME PieceInv, Next, ~Crash PROVE Careful
  BY SearchCareful, ParseCareful, NextInChainCareful, AllocCareful, AllocSyncCareful, DotsCareful, RoomCareful,
     GrowCareful, GrowSyncCareful, ClearCareful, MarkCareful, FillCareful, ReleaseCareful, ReleaseSyncCareful,
     UnmarkCareful, FlushCareful, BeginsCareful
  DEF Next, Step

LEMMA PieceInvKept == PieceInv /\ [Next]_vars => PieceInv'
  <1>1. ASSUME PieceInv, Next PROVE PieceInv'
    <2>1. IInv  BY <1>1 DEF PieceInv
    <2>2. IInv'  BY <1>1, <2>1, NextFine DEF Fine
    <2>3. CASE Crash  BY <1>1, <2>2, <2>3, CrashKeepsPieces
    <2>4. CASE ~Crash
      <3>1. Careful  BY <1>1, <2>4, StepCareful
      <3> QED BY <1>1, <2>2, <3>1, CarefulKeeps
    <2> QED BY <2>3, <2>4
  <1>2. ASSUME PieceInv, UNCHANGED vars PROVE PieceInv'
    <2>1. IInv  BY <1>2 DEF PieceInv
    <2>2. IInv'  BY <1>2, <2>1, StutterKeeps
    <2>3. UNCHANGED <<disk, win, faults>> /\ pc' = pc /\ call' = call  BY <1>2 DEF vars
    <2>4. Driver' = Driver /\ InView' = InView /\ faults' = faults /\ Follows
      BY <2>1, <2>3, UnchangedLooks DEF IInv, Ground, Looks, Still, Follows
    <2>5. Place' = Place /\ At' = At  BY <2>3 DEF Place, At
    <2>6. First(call', At') = First(call, At)  BY <2>3, <2>5 DEF First
    <2>7. From' = From /\ To' = To  BY <2>3, <2>5, <2>6 DEF From, To
    <2>8. OneName' /\ Plain(Driver')  BY <1>2, <2>4, <2>7 DEF PieceInv, OneName
    <2>9. Loose' \subseteq Loose  BY <2>4, <2>7 DEF Loose
    <2>10. Careful  BY <2>4, <2>8, <2>9 DEF Careful, Costs
    <2> QED BY <1>2, <2>2, <2>10, CarefulKeeps
  <1> QED BY <1>1, <1>2

(* Between calls the pieces are what is left strewn about. *)
LEMMA PiecesFollow == PieceInv => PiecesBounded
  <1> SUFFICES ASSUME PieceInv, pc = "idle"
               PROVE  Cardinality({Driver[p].n : p \in
                         {p \in Slots :
                            /\ p < InView /\ Before(Driver, p) /\ Driver[p].mark = "used"
                            /\ ~\E q \in 0 .. p, n \in Names :
                                  p <= q + Frags[n] /\ Stands(Driver, InView, n, q)}}) <= faults
    BY DEF PiecesBounded
  <1> DEFINE pieces == {p \in Slots :
                            /\ p < InView /\ Before(Driver, p) /\ Driver[p].mark = "used"
                            /\ ~\E q \in 0 .. p, n \in Names :
                                  p <= q + Frags[n] /\ Stands(Driver, InView, n, q)}
             names == {Driver[p].n : p \in pieces}
  <1>1. Driver \in Dirs /\ InView \in Counts /\ Good(Driver, InView) /\ faults \in Nat
    BY GroundIs, Constants DEF PieceInv, IInv
  <1>2. From = 1 /\ To = 0
    <2>1. Place = "idle"  BY DEF Place
    <2> QED BY <2>1 DEF From, To, Busy
  <1>3. ASSUME NEW p \in pieces PROVE p \in Bits(Driver, InView, 1, 0)
    <2>1. p \in Slots /\ p < InView /\ Driver[p].mark = "used"  OBVIOUS
    <2>2. p \in Nat /\ ~(1 <= p /\ p <= 0)  BY <2>1, SlotIs
    <2>3. ~Covered(Driver, p)
      <3> SUFFICES ASSUME Covered(Driver, p) PROVE FALSE  OBVIOUS
      <3>1. PICK q \in Slots : Whole(Driver, q) /\ q <= p /\ p <= Reach(Driver, q)  BY DEF Covered
      <3>2. Driver[q].n \in Names  BY <1>1, <3>1, WholeShapes
      <3>3. Stands(Driver, InView, Driver[q].n, q)  BY <1>1, <3>1, <3>2, StandsIs
      <3>4. q \in 0 .. p  BY <2>2, <3>1, SlotIs
      <3>5. p <= q + Frags[Driver[q].n]  BY <3>1 DEF Reach
      <3> QED BY <3>2, <3>3, <3>4, <3>5
    <2> QED BY <2>1, <2>2, <2>3 DEF Bits
  <1>4. names \subseteq Loose
    <2> HIDE DEF pieces
    <2> QED BY <1>2, <1>3 DEF Loose, Strewn
  <1>5. IsFiniteSet(Loose) /\ Cardinality(Loose) <= faults  BY StrewnFinite DEF Loose, PieceInv
  <1> HIDE DEF names
  <1>6. Cardinality(names) <= faults  BY <1>1, <1>4, <1>5, FewerNames
  <1> QED BY <1>6 DEF names

-----------------------------------------------------------------------------
(* What a directory holds and what its calls have said of it agree: each    *)
(* name has one entry at most, for the driver and on the medium, a call     *)
(* that has said so has added, found or taken away its name, and every      *)
(* variable holds what the code can store in it.                            *)
THEOREM DirectoryIsSound == Spec => []DirectorySound
  BY Inductive, DirectoryFollows, PTL

(* dir_search, with parse_lfn_name, comes to what the entries say: it stops *)
(* at the entry of the name, says that there is none only when there is     *)
(* none, and calls a directory broken only after a failure.                 *)
THEOREM SearchFinds == Spec => SearchIsRight
  <1>1. IInv /\ [Next]_vars => [Right]_vars  BY NextFine
  <1>2. [Right]_vars =>
          [ (Searching /\ ~Searching' /\ faults' = faults) =>
              /\ (faults = 0 /\ (pc' = "release" \/ res'.err = "NONE")) => FindsName
              /\ (pc' = "alloc" \/ res'.err \in {"EOF", "DENIED"}) => call.n \notin Seen
              /\ res'.err = "BROKEN" => faults > 0 ]_vars
    BY DEF Right
  <1> QED BY <1>1, <1>2, Inductive, PTL DEF Spec, SearchIsRight

(* No call takes what was never written out from behind the end mark.       *)
THEOREM ClearedBeforeSeen == Spec => JunkStaysHidden
  <1>1. IInv /\ [Next]_vars => [(faults = 0 /\ Marked /\ JunkHidden) => JunkHidden']_vars
    <2> SUFFICES ASSUME IInv, Next PROVE (faults = 0 /\ Marked /\ JunkHidden) => JunkHidden'
      OBVIOUS
    <2>1. KeepsHidden  BY NextFine DEF Fine
    <2>2. (Marked /\ JunkHidden) => Marked2(Medium, OnDisk)
      BY DEF Marked, JunkHidden, Marked2, MarkedIn, HiddenIn
    <2>3. HiddenIn(Medium', OnDisk') => JunkHidden'  BY DEF JunkHidden, HiddenIn, Before
    <2> QED BY <2>1, <2>2, <2>3 DEF KeepsHidden
  <1> QED BY <1>1, Inductive, PTL DEF Spec, JunkStaysHidden

(* Between two calls, the used slots that belong to no whole entry are the  *)
(* slots of no more names than transfers failed and power was lost: a call  *)
(* that ends in an error leaves one name in pieces at most, and a call that *)
(* succeeds, in a directory that already has pieces in it, leaves none.     *)
THEOREM PiecesAreFew == Spec => []PiecesBounded
  BY InitPieces, PieceInvKept, PiecesFollow, PTL DEF Spec

(* A directory is the set of names that DirStore describes: each step is    *)
(* one of its steps, for the driver, the medium and the running call.       *)
THEOREM DirectoryIsStore == Spec => ImplementsStore
  <1>1. IInv /\ [Next]_vars => [Store!Next]_(Store!vars)
    <2> SUFFICES ASSUME IInv, [Next]_vars PROVE [Store!Next]_(Store!vars)
      OBVIOUS
    <2>1. CASE Next  BY <2>1, NextFine DEF Fine, Moves
    <2>2. CASE UNCHANGED vars
      <3>1. disk' = disk /\ win' = win /\ call' = call  BY <2>2 DEF vars
      <3>2. Seen' = Seen /\ Kept' = Kept
        BY <3>1 DEF Seen, Kept, Stands, Driver, Medium, InView, OnDisk, View, Before
      <3> QED BY <3>1, <3>2 DEF Store!vars, Request
    <2> QED BY <2>1, <2>2
  <1> QED BY <1>1, Inductive, InitFits, PTL DEF Spec, ImplementsStore, Store!Spec
=============================================================================
