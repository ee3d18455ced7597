-------------------------- MODULE FatVolumeProofs --------------------------
(***************************************************************************)
(* Proofs about FatVolume, for every size of volume, every set of files    *)
(* and any number of failed transfers and crashes.                         *)
(*                                                                         *)
(* The first part turns sectors and the window into the four things the    *)
(* calls look at: the FAT, its mirror, the directory and FSINFO, each as   *)
(* seen through the window and as it is on the medium.  The second part    *)
(* says what each action does to these eight, and the third that the       *)
(* running call always is one the code can be in.  Then comes the          *)
(* inductive invariant part by part, each part kept by the steps as        *)
(* described before, with the theorems that follow from it; at last what   *)
(* failures cost, and the refinement of FileStore.                         *)
(***************************************************************************)
EXTENDS FatVolume, FatWindowProofs, FiniteSetTheorems, Iteration, SequenceTheorems

FatVals  == {FREE, EOC, BAD} \cup Clusters
DirVals  == [Files -> {NoEntry} \cup Clusters]
InfoVals == {i \in [{"next_free", "free_cnt"} -> Nat] :
               i["next_free"] \in Clusters /\ i["free_cnt"] \in 0 .. (CountMod - 1)}

SectVals(s) == IF s = DirSect THEN DirVals ELSE IF s = InfoSect THEN InfoVals
               ELSE [Cells(s) -> FatVals]
AllVals == (UNION {SectVals(s) : s \in Sects}) \cup {NoBuf}

MediumFits ==
    /\ WindowFits(Sects, NoSect, AllVals)
    /\ win.sect = NoSect => win.buf = NoBuf
    /\ \A s \in Sects : disk[s] \in SectVals(s) /\ View(s) \in SectVals(s)

(* What is seen, and what is on the medium. *)
ActView  == FatView("act")
MirView  == FatView("mir")
InfoView == View(InfoSect)
MirOnDisk  == [c \in Clusters |-> disk[FatSect("mir", c)][c]]
InfoOnDisk == disk[InfoSect]

SameView == /\ ActView' = ActView /\ MirView' = MirView
            /\ DirView' = DirView /\ InfoView' = InfoView
Stays    == /\ FatOnDisk' = FatOnDisk /\ MirOnDisk' = MirOnDisk
            /\ DirOnDisk' = DirOnDisk /\ InfoOnDisk' = InfoOnDisk
Settles  == /\ FatOnDisk' = ActView /\ MirOnDisk' = MirView
            /\ DirOnDisk' = DirView /\ InfoOnDisk' = InfoView

(* Nothing is seen to change; one sector is, and it is in the window.       *)
SeesAll    == \A t \in Sects : View(t)' = View(t)
SeesOthers == win'.dirty /\ \A t \in Sects \ {win'.sect} : View(t)' = View(t)

(* The ways a step can treat them. *)
Looks == MediumFits' /\ SeesAll /\ SameView /\ (Stays \/ Settles)

PutsAct(c, v) ==
    /\ MediumFits' /\ SeesOthers
    /\ ActView' = [ActView EXCEPT ![c] = v]
    /\ MirView' = MirView /\ DirView' = DirView /\ InfoView' = InfoView
    /\ \/ Settles
       \/ Stays /\ MirOnDisk = MirView /\ DirOnDisk = DirView /\ InfoOnDisk = InfoView

PutsMir(c, v) ==
    /\ MediumFits' /\ SeesOthers
    /\ MirView' = [MirView EXCEPT ![c] = v]
    /\ ActView' = ActView /\ DirView' = DirView /\ InfoView' = InfoView
    /\ Settles \/ Stays

PutsDir(f, v) ==
    /\ MediumFits' /\ SeesOthers
    /\ DirView' = [DirView EXCEPT ![f] = v]
    /\ ActView' = ActView /\ MirView' = MirView /\ InfoView' = InfoView
    /\ \/ Settles
       \/ Stays /\ FatOnDisk = ActView /\ MirOnDisk = MirView /\ InfoOnDisk = InfoView

PutsInfo ==
    /\ MediumFits' /\ SeesOthers
    /\ InfoView' = [x \in {"next_free", "free_cnt"} |->
                        IF x = "next_free" THEN vol.last_used ELSE vol.free_cnt]
    /\ ActView' = ActView /\ MirView' = MirView /\ DirView' = DirView
    /\ Settles \/ Stays
-----------------------------------------------------------------------------
LEMMA Constants ==
    /\ ClustCnt \in Nat /\ ClustCnt > 3 /\ PerSect \in Nat /\ PerSect > 0
    /\ RootClust \in Clusters /\ BadClusts \subseteq Clusters \ {RootClust}
    /\ Mirrored \in BOOLEAN /\ CountMod \in Nat /\ CountMod > ClustCnt /\ MaxFaults \in Nat
  BY VolumeAssumption, WindowAssumption

(* Dividing by the entries of a sector keeps the order of clusters. *)
LEMMA DivisionOrder ==
    ASSUME NEW m \in Nat, NEW n \in Nat, NEW p \in Nat, p > 0, m <= n
    PROVE  m \div p \in 0 .. (n \div p)
  <1> DEFINE a == m \div p
             b == n \div p
             x == p * a
             y == p * b
  <1>1. a \in Nat /\ b \in Nat  OBVIOUS
  <1>2. m = x + (m % p) /\ m % p \in 0 .. (p - 1)  OBVIOUS
  <1>3. n = y + (n % p) /\ n % p \in 0 .. (p - 1)  OBVIOUS
  <1>4. ASSUME a > b PROVE FALSE
    <2> HIDE DEF a, b
    <2>1. a >= b + 1  BY <1>1, <1>4
    <2>2. x >= p * (b + 1) /\ p * (b + 1) = y + p /\ x \in Nat /\ y \in Nat  BY <1>1, <2>1
    <2> HIDE DEF x, y
    <2> QED BY <1>2, <1>3, <2>2
  <1> QED BY <1>1, <1>4

LEMMA SectorsFit ==
    /\ \A c \in Clusters : FatSect("act", c) \in Sects /\ FatSect("mir", c) \in Sects
    /\ \A c, d \in Clusters : FatSect("act", c) # FatSect("mir", d)
    /\ \A c \in Clusters, copy \in {"act", "mir"} :
          /\ FatSect(copy, c) \notin {DirSect, InfoSect, NoSect}
          /\ c \in Cells(FatSect(copy, c))
          /\ SectVals(FatSect(copy, c)) = [Cells(FatSect(copy, c)) -> FatVals]
    /\ DirSect \in Sects /\ InfoSect \in Sects /\ DirSect # InfoSect /\ NoSect \notin Sects
    /\ SectVals(DirSect) = DirVals /\ SectVals(InfoSect) = InfoVals
    /\ NoBuf \in AllVals
  <1>1. \A c \in Clusters : c \div PerSect \in 0 .. ((ClustCnt - 1) \div PerSect)
    <2> TAKE c \in Clusters
    <2>1. c \in Nat /\ ClustCnt - 1 \in Nat /\ c <= ClustCnt - 1  BY Constants DEF Clusters
    <2> QED BY <2>1, DivisionOrder, Constants
  <1>2. \A c \in Clusters : FatSect("act", c) \in Sects /\ FatSect("mir", c) \in Sects
    BY <1>1 DEF FatSect, Sects
  <1>3. \A c, d \in Clusters : FatSect("act", c) # FatSect("mir", d)  BY DEF FatSect
  <1>4. \A c \in Clusters, copy \in {"act", "mir"} :
          FatSect(copy, c) \notin {DirSect, InfoSect, NoSect} /\ c \in Cells(FatSect(copy, c))
    BY DEF FatSect, DirSect, InfoSect, NoSect, Cells
  <1>5. DirSect \in Sects /\ InfoSect \in Sects /\ DirSect # InfoSect /\ NoSect \notin Sects
    BY DEF Sects, DirSect, InfoSect, NoSect
  <1> QED BY <1>2, <1>3, <1>4, <1>5 DEF SectVals, AllVals

LEMMA ViewTypes ==
    ASSUME MediumFits
    PROVE  /\ ActView \in [Clusters -> FatVals] /\ MirView \in [Clusters -> FatVals]
           /\ DirView \in DirVals /\ InfoView \in InfoVals
           /\ FatOnDisk \in [Clusters -> FatVals] /\ MirOnDisk \in [Clusters -> FatVals]
           /\ DirOnDisk \in DirVals /\ InfoOnDisk \in InfoVals
  <1>1. \A c \in Clusters, copy \in {"act", "mir"} :
           View(FatSect(copy, c))[c] \in FatVals /\ disk[FatSect(copy, c)][c] \in FatVals
    BY SectorsFit DEF MediumFits
  <1> QED BY <1>1, SectorsFit
          DEF MediumFits, ActView, MirView, FatView, DirView, InfoView, FatOnDisk, MirOnDisk,
              DirOnDisk, InfoOnDisk

(* Sector by sector, a step leaves what is seen as it is.                  *)
LEMMA LooksFits ==
    ASSUME MediumFits, WindowFits(Sects, NoSect, AllVals)', win'.sect = NoSect => win'.buf = NoBuf,
           \A t \in Sects : View(t)' = View(t),
           disk' = disk \/ \A t \in Sects : disk'[t] = View(t)
    PROVE  Looks
  <1>1. MediumFits'
    BY DEF MediumFits
  <1>2. SameView
    BY SectorsFit DEF SameView, ActView, MirView, FatView, DirView, InfoView, View
  <1>3. CASE disk' = disk
    <2>1. Stays  BY <1>3 DEF Stays, FatOnDisk, MirOnDisk, DirOnDisk, InfoOnDisk
    <2> QED BY <1>1, <1>2, <2>1 DEF Looks, SeesAll
  <1>4. CASE \A t \in Sects : disk'[t] = View(t)
    <2>1. Settles
      BY <1>4, SectorsFit DEF Settles, ActView, MirView, FatView, DirView, InfoView,
                              FatOnDisk, MirOnDisk, DirOnDisk, InfoOnDisk
    <2> QED BY <1>1, <1>2, <2>1 DEF Looks, SeesAll
  <1> QED BY <1>3, <1>4

LEMMA UpdateLooks ==
    ASSUME MediumFits, NEW s \in Sects, NEW o \in UpdateBuf(s), Took(o)
    PROVE  Looks /\ (o.ok => o.win.buf = View(s))
  <1>1. OutcomeFits(o, Sects, NoSect, AllVals) /\ (o.ok => o.win.buf = View(s))
    BY SectorsFit, UpdateBufFits DEF MediumFits
  <1>2. /\ WindowFits(Sects, NoSect, AllVals)'
        /\ \A t \in Sects : View(t)' = View(t)
        /\ disk' = disk \/ \A t \in Sects : disk'[t] = View(t)
    BY <1>1, SectorsFit, TookFits
  <1>3. win'.sect = NoSect => win'.buf = NoBuf
    BY <1>1, SectorsFit DEF OutcomeFits, Took, MediumFits
  <1> QED BY <1>1, <1>2, <1>3, LooksFits

LEMMA SyncLooks ==
    ASSUME MediumFits, NEW o \in SyncBuf, Took(o)
    PROVE  Looks /\ (o.ok => Settles /\ \A s \in Sects : View(s)' = disk'[s])
  <1>1. /\ OutcomeFits(o, Sects, NoSect, AllVals)
        /\ o.ok => \A t \in Sects : o.disk[t] = View(t)
    BY SectorsFit, SyncBufFits DEF MediumFits
  <1>2. /\ WindowFits(Sects, NoSect, AllVals)'
        /\ \A t \in Sects : View(t)' = View(t)
        /\ disk' = disk \/ \A t \in Sects : disk'[t] = View(t)
    BY <1>1, SectorsFit, TookFits
  <1>3. win'.sect = NoSect => win'.buf = NoBuf
    BY <1>1, SectorsFit DEF OutcomeFits, Took, MediumFits
  <1>4. Looks  BY <1>2, <1>3, LooksFits
  <1>5. o.ok => \A t \in Sects : disk'[t] = View(t)  BY <1>1 DEF Took
  <1>6. o.ok => Settles
    BY <1>5, SectorsFit DEF Settles, ActView, MirView, FatView, DirView, InfoView,
                            FatOnDisk, MirOnDisk, DirOnDisk, InfoOnDisk
  <1>7. o.ok => \A s \in Sects : View(s)' = disk'[s]  BY <1>2, <1>5
  <1> QED BY <1>4, <1>6, <1>7

(* Sector by sector, a step changes one sector of what is seen.             *)
LEMMA ChangesTypes ==
    ASSUME MediumFits, NEW s \in Sects, NEW b \in SectVals(s), WindowFits(Sects, NoSect, AllVals)',
           View(s)' = b, \A t \in Sects \ {s} : View(t)' = View(t), win'.sect = s,
           \/ \A t \in Sects : disk'[t] = View(t)
           \/ disk' = disk /\ \A t \in Sects \ {s} : disk[t] = View(t)
    PROVE  MediumFits'
  <1>1. \A t \in Sects : View(t)' \in SectVals(t)  BY DEF MediumFits
  <1>2. \A t \in Sects : disk'[t] \in SectVals(t)  BY DEF MediumFits
  <1>3. win'.sect # NoSect  BY SectorsFit
  <1> QED BY <1>1, <1>2, <1>3 DEF MediumFits

LEMMA WritesTypes ==
    ASSUME MediumFits, NEW s \in Sects, NEW o \in UpdateBuf(s), NEW x, NEW v, Writes(o, x, v),
           [View(s) EXCEPT ![x] = v] \in SectVals(s)
    PROVE  /\ MediumFits'
           /\ View(s)' = [View(s) EXCEPT ![x] = v]
           /\ \A t \in Sects \ {s} : View(t)' = View(t)
           /\ win'.sect = s /\ win'.dirty
           /\ \/ \A t \in Sects : disk'[t] = View(t)
              \/ disk' = disk /\ \A t \in Sects \ {s} : disk[t] = View(t)
  <1>1. [View(s) EXCEPT ![x] = v] \in AllVals  BY DEF AllVals
  <1>2. /\ WindowFits(Sects, NoSect, AllVals)'
        /\ View(s)' = [View(s) EXCEPT ![x] = v]
        /\ \A t \in Sects \ {s} : View(t)' = View(t)
        /\ win'.sect = s /\ win'.dirty
        /\ \/ \A t \in Sects : disk'[t] = View(t)
           \/ disk' = disk /\ \A t \in Sects \ {s} : disk[t] = View(t)
    <2>1. /\ NoSect \notin Sects /\ WindowFits(Sects, NoSect, AllVals)
          /\ Rewritten(s, x, v) \in AllVals
      BY <1>1, SectorsFit DEF MediumFits, Rewritten
    <2>2. /\ WindowFits(Sects, NoSect, AllVals)'
          /\ View(s)' = Rewritten(s, x, v)
          /\ \A t \in Sects \ {s} : View(t)' = View(t)
          /\ win'.sect = s /\ win'.dirty
          /\ \/ \A t \in Sects : disk'[t] = View(t)
             \/ disk' = disk /\ \A t \in Sects \ {s} : disk[t] = View(t)
      BY <2>1, WritesFits
    <2> QED BY <2>2 DEF Rewritten
  <1> QED BY <1>2, ChangesTypes

(* A cell of the FAT is put. *)
LEMMA PutsActFits ==
    ASSUME MediumFits, NEW c \in Clusters, NEW v \in FatVals,
           NEW o \in UpdateBuf(FatSect("act", c)), Writes(o, c, v)
    PROVE  PutsAct(c, v)
  <1> DEFINE s == FatSect("act", c)
  <1>1. s \in Sects /\ c \in Cells(s) /\ View(s) \in [Cells(s) -> FatVals]
        /\ SectVals(s) = [Cells(s) -> FatVals]
    BY SectorsFit DEF MediumFits
  <1>2. [View(s) EXCEPT ![c] = v] \in SectVals(s)  BY <1>1
  <1>3. /\ MediumFits'
        /\ View(s)' = [View(s) EXCEPT ![c] = v]
        /\ \A t \in Sects \ {s} : View(t)' = View(t)
        /\ win'.sect = s /\ win'.dirty
        /\ \/ \A t \in Sects : disk'[t] = View(t)
           \/ disk' = disk /\ \A t \in Sects \ {s} : disk[t] = View(t)
    BY <1>1, <1>2, WritesTypes
  <1>4. \A d \in Clusters : View(FatSect("act", d))'[d] = IF d = c THEN v ELSE View(FatSect("act", d))[d]
    <2> TAKE d \in Clusters
    <2>1. CASE FatSect("act", d) = s
      <3>1. d \in Cells(s)  BY <2>1, SectorsFit
      <3> QED BY <1>1, <1>3, <2>1, <3>1 DEF View
    <2>2. CASE FatSect("act", d) # s
      <3>1. d # c  BY <2>2
      <3> QED BY <1>3, <2>2, <3>1, SectorsFit DEF View
    <2> QED BY <2>1, <2>2
  <1>5. ActView' = [ActView EXCEPT ![c] = v]  BY <1>4 DEF ActView, FatView
  <1>o. SeesOthers  BY <1>3 DEF SeesOthers
  <1>6. MirView' = MirView /\ DirView' = DirView /\ InfoView' = InfoView
    BY <1>3, SectorsFit DEF MirView, FatView, DirView, InfoView, View
  <1>7. CASE \A t \in Sects : disk'[t] = View(t)
    <2>1. Settles
      BY <1>7, SectorsFit DEF Settles, ActView, MirView, FatView, DirView, InfoView,
                              FatOnDisk, MirOnDisk, DirOnDisk, InfoOnDisk
    <2> QED BY <1>3, <1>o, <1>5, <1>6, <2>1 DEF PutsAct
  <1>8. CASE disk' = disk /\ \A t \in Sects \ {s} : disk[t] = View(t)
    <2>1. Stays  BY <1>8 DEF Stays, FatOnDisk, MirOnDisk, DirOnDisk, InfoOnDisk
    <2>2. MirOnDisk = MirView /\ DirOnDisk = DirView /\ InfoOnDisk = InfoView
      BY <1>8, SectorsFit DEF MirView, FatView, DirView, InfoView, MirOnDisk, DirOnDisk, InfoOnDisk
    <2> QED BY <1>3, <1>o, <1>5, <1>6, <2>1, <2>2 DEF PutsAct
  <1> QED BY <1>3, <1>o, <1>7, <1>8

(* A cell of the mirror is put. *)
LEMMA PutsMirFits ==
    ASSUME MediumFits, NEW c \in Clusters, NEW v \in FatVals,
           NEW o \in UpdateBuf(FatSect("mir", c)), Writes(o, c, v)
    PROVE  PutsMir(c, v)
  <1> DEFINE s == FatSect("mir", c)
  <1>1. s \in Sects /\ c \in Cells(s) /\ View(s) \in [Cells(s) -> FatVals]
        /\ SectVals(s) = [Cells(s) -> FatVals]
    BY SectorsFit DEF MediumFits
  <1>2. [View(s) EXCEPT ![c] = v] \in SectVals(s)  BY <1>1
  <1>3. /\ MediumFits'
        /\ View(s)' = [View(s) EXCEPT ![c] = v]
        /\ \A t \in Sects \ {s} : View(t)' = View(t)
        /\ win'.sect = s /\ win'.dirty
        /\ disk' = disk \/ \A t \in Sects : disk'[t] = View(t)
    BY <1>1, <1>2, WritesTypes
  <1>4. \A d \in Clusters : View(FatSect("mir", d))'[d] = IF d = c THEN v ELSE View(FatSect("mir", d))[d]
    <2> TAKE d \in Clusters
    <2>1. CASE FatSect("mir", d) = s
      <3>1. d \in Cells(s)  BY <2>1, SectorsFit
      <3> QED BY <1>1, <1>3, <2>1, <3>1 DEF View
    <2>2. CASE FatSect("mir", d) # s
      <3>1. d # c  BY <2>2
      <3> QED BY <1>3, <2>2, <3>1, SectorsFit DEF View
    <2> QED BY <2>1, <2>2
  <1>5. MirView' = [MirView EXCEPT ![c] = v]  BY <1>4 DEF MirView, FatView
  <1>o. SeesOthers  BY <1>3 DEF SeesOthers
  <1>6. ActView' = ActView /\ DirView' = DirView /\ InfoView' = InfoView
    BY <1>3, SectorsFit DEF ActView, FatView, DirView, InfoView, View
  <1>7. Settles \/ Stays
    <2>1. (\A t \in Sects : disk'[t] = View(t)) => Settles
      BY SectorsFit DEF Settles, ActView, MirView, FatView, DirView, InfoView,
                        FatOnDisk, MirOnDisk, DirOnDisk, InfoOnDisk
    <2>2. disk' = disk => Stays  BY DEF Stays, FatOnDisk, MirOnDisk, DirOnDisk, InfoOnDisk
    <2> QED BY <1>3, <2>1, <2>2
  <1> QED BY <1>3, <1>o, <1>5, <1>6, <1>7 DEF PutsMir

(* An entry of the directory is put. *)
LEMMA PutsDirFits ==
    ASSUME MediumFits, NEW f \in Files, NEW v \in {NoEntry} \cup Clusters,
           NEW o \in UpdateBuf(DirSect), Writes(o, f, v)
    PROVE  PutsDir(f, v)
  <1>1. DirSect \in Sects /\ View(DirSect) \in DirVals /\ SectVals(DirSect) = DirVals
    BY SectorsFit DEF MediumFits
  <1>2. [View(DirSect) EXCEPT ![f] = v] \in SectVals(DirSect)  BY <1>1 DEF DirVals
  <1>3. /\ MediumFits'
        /\ View(DirSect)' = [View(DirSect) EXCEPT ![f] = v]
        /\ \A t \in Sects \ {DirSect} : View(t)' = View(t)
        /\ win'.sect = DirSect /\ win'.dirty
        /\ \/ \A t \in Sects : disk'[t] = View(t)
           \/ disk' = disk /\ \A t \in Sects \ {DirSect} : disk[t] = View(t)
    BY <1>1, <1>2, WritesTypes
  <1>o. SeesOthers  BY <1>3 DEF SeesOthers
  <1>4. DirView' = [DirView EXCEPT ![f] = v]  BY <1>3 DEF DirView
  <1>5. ActView' = ActView /\ MirView' = MirView /\ InfoView' = InfoView
    BY <1>3, SectorsFit DEF ActView, MirView, FatView, InfoView, View
  <1>6. CASE \A t \in Sects : disk'[t] = View(t)
    <2>1. Settles
      BY <1>6, SectorsFit DEF Settles, ActView, MirView, FatView, DirView, InfoView,
                              FatOnDisk, MirOnDisk, DirOnDisk, InfoOnDisk
    <2> QED BY <1>3, <1>o, <1>4, <1>5, <2>1 DEF PutsDir
  <1>7. CASE disk' = disk /\ \A t \in Sects \ {DirSect} : disk[t] = View(t)
    <2>1. Stays  BY <1>7 DEF Stays, FatOnDisk, MirOnDisk, DirOnDisk, InfoOnDisk
    <2>2. FatOnDisk = ActView /\ MirOnDisk = MirView /\ InfoOnDisk = InfoView
      BY <1>7, SectorsFit DEF ActView, MirView, FatView, InfoView, FatOnDisk, MirOnDisk, InfoOnDisk
    <2> QED BY <1>3, <1>o, <1>4, <1>5, <2>1, <2>2 DEF PutsDir
  <1> QED BY <1>3, <1>o, <1>6, <1>7

(* The counters are put in FSINFO. *)
LEMMA PutsInfoFits ==
    ASSUME MediumFits, vol.last_used \in Clusters, vol.free_cnt \in 0 .. (CountMod - 1),
           NEW o \in UpdateBuf(InfoSect), o.ok, disk' = o.disk,
           win' = [o.win EXCEPT !.buf = [next_free |-> vol.last_used, free_cnt |-> vol.free_cnt],
                                !.dirty = TRUE]
    PROVE  PutsInfo
  <1> DEFINE b == [x \in {"next_free", "free_cnt"} |->
                     IF x = "next_free" THEN vol.last_used ELSE vol.free_cnt]
  <1>1. [next_free |-> vol.last_used, free_cnt |-> vol.free_cnt] = b  OBVIOUS
  <1>2. b \in InfoVals  BY Constants DEF InfoVals, Clusters
  <1>3. win' = [o.win EXCEPT !.buf = b, !.dirty = TRUE]  BY <1>1
  <1>4. PutsInfo <=> /\ MediumFits' /\ SeesOthers /\ InfoView' = b
                     /\ ActView' = ActView /\ MirView' = MirView /\ DirView' = DirView
                     /\ Settles \/ Stays
    BY DEF PutsInfo
  <1> HIDE DEF b
  <1>5. b \in SectVals(InfoSect) /\ b \in AllVals  BY <1>2, SectorsFit DEF AllVals
  <1>a. OutcomeFits(o, Sects, NoSect, AllVals) /\ o.win.sect = InfoSect
    BY SectorsFit, UpdateBufFits DEF MediumFits
  <1>b. win' \in [sect : {InfoSect}, buf : {b}, dirty : {TRUE}]
    BY <1>3, <1>a DEF OutcomeFits
  <1>6. /\ WindowFits(Sects, NoSect, AllVals)'
        /\ View(InfoSect)' = b
        /\ \A t \in Sects \ {InfoSect} : View(t)' = View(t)
        /\ win'.sect = InfoSect /\ win'.dirty
        /\ \/ \A t \in Sects : disk'[t] = View(t)
           \/ disk' = disk /\ \A t \in Sects \ {InfoSect} : disk[t] = View(t)
    BY <1>5, <1>b, SectorsFit, ChangesFits DEF MediumFits
  <1>o. SeesOthers  BY <1>6 DEF SeesOthers
  <1>7. MediumFits'  BY <1>5, <1>6, SectorsFit, ChangesTypes
  <1>8. InfoView' = b /\ ActView' = ActView /\ MirView' = MirView /\ DirView' = DirView
    BY <1>6, SectorsFit DEF ActView, MirView, FatView, DirView, InfoView, View
  <1>9. Settles \/ Stays
    <2>1. (\A t \in Sects : disk'[t] = View(t)) => Settles
      BY SectorsFit DEF Settles, ActView, MirView, FatView, DirView, InfoView,
                        FatOnDisk, MirOnDisk, DirOnDisk, InfoOnDisk
    <2>2. disk' = disk => Stays  BY DEF Stays, FatOnDisk, MirOnDisk, DirOnDisk, InfoOnDisk
    <2> QED BY <1>6, <2>1, <2>2
  <1> QED BY <1>4, <1>o, <1>6, <1>7, <1>8, <1>9

(* Power is lost: what is on the medium is seen. *)
LEMMA CrashFits ==
    ASSUME MediumFits, win' = [sect |-> NoSect, buf |-> NoBuf, dirty |-> FALSE], disk' = disk
    PROVE  /\ MediumFits' /\ Stays
           /\ ActView' = FatOnDisk /\ MirView' = MirOnDisk
           /\ DirView' = DirOnDisk /\ InfoView' = InfoOnDisk
           /\ \A s \in Sects : View(s)' = disk'[s]
  <1>1. WindowFits(Sects, NoSect, AllVals)' /\ \A t \in Sects : View(t)' = disk[t]
    BY SectorsFit, LostPowerFits DEF MediumFits
  <1>2. MediumFits'  BY <1>1 DEF MediumFits
  <1>3. Stays  BY DEF Stays, FatOnDisk, MirOnDisk, DirOnDisk, InfoOnDisk
  <1>4. /\ ActView' = FatOnDisk /\ MirView' = MirOnDisk
        /\ DirView' = DirOnDisk /\ InfoView' = InfoOnDisk
    BY <1>1, SectorsFit DEF ActView, MirView, FatView, DirView, InfoView, View,
                            FatOnDisk, MirOnDisk, DirOnDisk, InfoOnDisk
  <1> QED BY <1>1, <1>2, <1>3, <1>4
-----------------------------------------------------------------------------
(* The running call, and where it can be. *)
CallSet == [op : Ops \cup {"none"}, f : Files \cup {"none"}, clust : 0 .. EOC, prev : 0 .. EOC,
            next : 0 .. EOC, then : {"return", "add", "rmEntry"}]
VolSet  == [last_used : Clusters, free_cnt : 0 .. (CountMod - 1), dirty : BOOLEAN]

Stretching == pc \in {"near", "scan", "eocM", "eoc", "linkM", "link"}
Linking    == pc \in {"linkM", "link"}
Freeing    == pc \in {"rmGet", "rmM", "rm"}
Syncing    == pc \in {"flush", "info", "infoFlush"}

(* A new chain is complete, and its entry is to be added. *)
Ready    == pc = "add" \/ (Syncing /\ call.op = "create")
(* A chain is being freed, or is free and its entry still there. *)
Removing == Freeing \/ pc = "rmEntry" \/ (Syncing /\ call.then = "rmEntry")

CallFits ==
    /\ call \in CallSet /\ vol \in VolSet /\ pc \in Pcs
    /\ faults \in 0 .. MaxFaults /\ torn \in BOOLEAN /\ res.err \in Errs
    /\ pc \in {"idle", "dead"} => call = NoCall
    /\ pc \notin {"idle", "dead"} => call.op # "none" /\ (call.op # "sync" => call.f \in Files)
    /\ pc = "find" => call.op \in {"create", "extend", "unlink"} /\ call.prev = 0
    /\ pc = "walk" => call.op = "extend"
    /\ Stretching => /\ call.op \in {"create", "extend"} /\ call.prev \in {0} \cup Clusters
                     /\ call.op = "extend" <=> call.prev # 0
    /\ Linking => call.op = "extend"
    /\ Freeing \/ pc = "rmEntry" => call.op = "unlink"
    /\ pc = "add" => call.op = "create"
    /\ pc = "touch" => call.op = "close"
    /\ call.op = "sync" => Syncing
    /\ Syncing => /\ call.then = "add" <=> call.op = "create"
                  /\ call.then = "rmEntry" => call.op = "unlink"
    /\ ~Syncing => call.then = "return"
    /\ pc = "walk" \/ Stretching \/ Freeing \/ Ready => call.clust \in Clusters
    /\ pc \in {"rmM", "rm"} => call.next \in Clusters \cup {EOC}
    /\ Stretching \/ Freeing \/ pc = "info" => vol.dirty
    /\ pc = "rmEntry" => ~vol.dirty
-----------------------------------------------------------------------------
(* The steps, as they treat what is seen and what is on the medium.        *)
Rests(e) == Looks /\ Return(e) /\ UNCHANGED <<vol, faults>>
FailsAt(e) == Looks /\ Return(e) /\ UNCHANGED vol /\ faults < MaxFaults /\ faults' = faults + 1
GoesOn(l) == Looks /\ Goto(l) /\ UNCHANGED faults

Begins ==
    /\ pc = "idle" /\ Looks /\ res' = NoRes /\ UNCHANGED <<vol, faults, torn>>
    /\ \/ /\ \E op \in Ops \ {"sync"}, f \in Files : call' = [NoCall EXCEPT !.op = op, !.f = f]
          /\ pc' = IF call'.op = "close" THEN "touch" ELSE "find"
       \/ call' = [NoCall EXCEPT !.op = "sync"] /\ pc' = "flush"

FindMoves ==
    /\ pc = "find"
    /\ \/ FailsAt("IO")
       \/ call.op = "create" /\ Rests("NONE")
       \/ call.op = "extend" /\ Rests("DENIED")
       \/ call.op = "unlink" /\ Rests("EOF")
       \/ /\ call.op = "create" /\ DirView[call.f] = NoEntry /\ GoesOn("scan")
          /\ vol' = [vol EXCEPT !.dirty = TRUE] /\ call' = [call EXCEPT !.clust = vol.last_used]
       \/ /\ call.op = "extend" /\ DirView[call.f] # NoEntry /\ GoesOn("walk")
          /\ vol' = vol /\ call' = [call EXCEPT !.clust = DirView[call.f]]
       \/ /\ call.op = "unlink" /\ DirView[call.f] # NoEntry /\ GoesOn("rmGet")
          /\ vol' = [vol EXCEPT !.dirty = TRUE] /\ call' = [call EXCEPT !.clust = DirView[call.f]]

WalkMoves ==
    /\ pc = "walk"
    /\ \/ FailsAt("IO")
       \/ Rests("BROKEN")
       \/ /\ ActView[call.clust] = EOC /\ GoesOn("near") /\ vol' = [vol EXCEPT !.dirty = TRUE]
          /\ call' = [call EXCEPT !.prev = call.clust, !.clust = NextClust(call.clust)]
       \/ /\ ActView[call.clust] \in Clusters /\ GoesOn("walk") /\ vol' = vol
          /\ call' = [call EXCEPT !.clust = ActView[call.clust]]

NearMoves ==
    /\ pc = "near"
    /\ \/ FailsAt("IO")
       \/ ActView[call.clust] = FREE /\ GoesOn(FirstPut("eoc")) /\ UNCHANGED <<vol, call>>
       \/ GoesOn("scan") /\ vol' = vol /\ call' = [call EXCEPT !.clust = vol.last_used]

ScanMoves ==
    /\ pc = "scan" /\ vol' = vol
    /\ \/ FailsAt("FLAGS")
       \/ NextClust(call.clust) = vol.last_used /\ Rests("FULL")
       \/ /\ Looks /\ pc' = "add" /\ torn' = TRUE /\ UNCHANGED res /\ call.op = "create"
          /\ faults < MaxFaults /\ faults' = faults + 1
          /\ \E garbage \in Clusters : call' = [call EXCEPT !.clust = garbage]
       \/ /\ NextClust(call.clust) # vol.last_used
          /\ call' = [call EXCEPT !.clust = NextClust(call.clust)]
          /\ \/ ActView[NextClust(call.clust)] = FREE /\ GoesOn(FirstPut("eoc"))
             \/ ActView[NextClust(call.clust)] # FREE /\ GoesOn("scan")

MirrorMoves(p) ==
    /\ pc = MirrorPc[p]
    /\ \/ FailsAt("IO")
       \/ PutsMir(PutCell(p), PutVal(p)) /\ Goto(p) /\ UNCHANGED <<vol, call, faults>>

EocMoves ==
    /\ pc = "eoc"
    /\ \/ FailsAt("IO")
       \/ /\ PutsAct(call.clust, EOC) /\ UNCHANGED faults
          /\ \/ call.prev # 0 /\ Goto(FirstPut("link")) /\ UNCHANGED <<vol, call>>
             \/ call.prev = 0 /\ Allocated

LinkMoves ==
    /\ pc = "link"
    /\ \/ FailsAt("IO")
       \/ PutsAct(call.prev, call.clust) /\ UNCHANGED faults /\ Allocated

RmGetMoves ==
    /\ pc = "rmGet"
    /\ \/ FailsAt("IO")
       \/ ActView[call.clust] \in {FREE, BAD} /\ Rests("BROKEN")
       \/ /\ ActView[call.clust] \in Clusters \cup {EOC} /\ GoesOn(FirstPut("rm")) /\ vol' = vol
          /\ call' = [call EXCEPT !.next = ActView[call.clust]]

RmMoves ==
    /\ pc = "rm"
    /\ \/ FailsAt("IO")
       \/ /\ PutsAct(call.clust, FREE) /\ UNCHANGED faults
          /\ vol' = [vol EXCEPT !.free_cnt = (vol.free_cnt + 1) % CountMod]
          /\ \/ call.next = EOC /\ Goto("flush") /\ call' = [call EXCEPT !.then = "rmEntry"]
             \/ call.next # EOC /\ Goto("rmGet") /\ call' = [call EXCEPT !.clust = call.next]

Clean == \A s \in Sects : View(s) = disk[s]

FlushMoves ==
    /\ pc = "flush"
    /\ \/ FailsAt("IO")
       \/ /\ Looks /\ Settles /\ Clean' /\ UNCHANGED <<vol, faults>>
          /\ \/ vol.dirty /\ Goto("info") /\ UNCHANGED call
             \/ ~vol.dirty /\ Synced

InfoMoves ==
    /\ pc = "info"
    /\ \/ FailsAt("IO")
       \/ PutsInfo /\ Goto("infoFlush") /\ UNCHANGED <<vol, call, faults>>

InfoFlushMoves ==
    /\ pc = "infoFlush"
    /\ \/ FailsAt("IO")
       \/ /\ Looks /\ Settles /\ Clean' /\ UNCHANGED faults
          /\ vol' = [vol EXCEPT !.dirty = FALSE] /\ Synced

AddMoves ==
    /\ pc = "add"
    /\ \/ FailsAt("IO")
       \/ PutsDir(call.f, call.clust) /\ Return("NONE") /\ UNCHANGED <<vol, faults>>

RmEntryMoves ==
    /\ pc = "rmEntry"
    /\ \/ FailsAt("IO")
       \/ PutsDir(call.f, NoEntry) /\ Goto("flush") /\ UNCHANGED <<vol, call, faults>>

TouchMoves ==
    /\ pc = "touch"
    /\ \/ FailsAt("IO")
       \/ PutsDir(call.f, DirView[call.f]) /\ Goto("flush") /\ UNCHANGED <<vol, call, faults>>

CrashMoves ==
    /\ faults < MaxFaults /\ faults' = faults + 1
    /\ MediumFits' /\ Stays /\ Clean'
    /\ ActView' = FatOnDisk /\ MirView' = MirOnDisk
    /\ DirView' = DirOnDisk /\ InfoView' = InfoOnDisk
    /\ vol' = [last_used |-> InfoOnDisk["next_free"], free_cnt |-> InfoOnDisk["free_cnt"],
               dirty |-> FALSE]
    /\ \/ InfoOnDisk["free_cnt"] # Unknown /\ pc' = "idle" /\ res' = [op |-> "mount", err |-> "NONE"]
       \/ InfoOnDisk["free_cnt"] = Unknown /\ pc' = "dead" /\ res' = [op |-> "mount", err |-> "NOFAT"]
    /\ call' = NoCall /\ torn' = (torn \/ Dangling')

CallMoves ==
    \/ Begins \/ FindMoves \/ WalkMoves \/ NearMoves \/ ScanMoves \/ EocMoves \/ LinkMoves
    \/ \E p \in Puts : MirrorMoves(p)
    \/ RmGetMoves \/ RmMoves \/ FlushMoves \/ InfoMoves \/ InfoFlushMoves
    \/ AddMoves \/ RmEntryMoves \/ TouchMoves

Moves == CallMoves \/ CrashMoves

(* A step that touches neither window nor medium. *)
LEMMA StillLooks == ASSUME MediumFits, UNCHANGED <<disk, win>> PROVE Looks
  <1>1. WindowFits(Sects, NoSect, AllVals)'  BY DEF MediumFits, WindowFits
  <1>2. win'.sect = NoSect => win'.buf = NoBuf  BY DEF MediumFits
  <1>3. \A t \in Sects : View(t)' = View(t)  BY DEF View
  <1> QED BY <1>1, <1>2, <1>3, LooksFits

(* A transfer that fails. *)
LEMMA FailureFits ==
    ASSUME MediumFits, NEW o, (\E s \in Sects : o \in UpdateBuf(s)) \/ o \in SyncBuf, Fails(o)
    PROVE  FailsAt("IO")
  <1>1. Looks  BY UpdateLooks, SyncLooks DEF Fails
  <1> QED BY <1>1 DEF FailsAt, Fails, Took

(* Following or freeing a chain, and looking for a free cluster.           *)
LEMMA NextFits == ASSUME NEW c \in Clusters PROVE NextClust(c) \in Clusters
  BY Constants DEF NextClust, Clusters

LEMMA Marks == /\ FREE \notin Clusters /\ EOC \notin Clusters /\ BAD \notin Clusters
               /\ FREE # EOC /\ FREE # BAD /\ EOC # BAD /\ NoEntry \notin Clusters
               /\ FREE = 0 /\ NoEntry = 0 /\ FREE \in FatVals /\ EOC \in FatVals
               /\ \A c \in Clusters : c \in Nat /\ c \in FatVals /\ c \in 0 .. EOC /\ c # 0
  BY Constants DEF FREE, EOC, BAD, Clusters, NoEntry, FatVals

LEMMA FindFits == ASSUME MediumFits, CallFits, Find PROVE FindMoves
  <1>1. PICK o \in UpdateBuf(DirSect) :
           \/ Fails(o)
           \/ /\ o.ok /\ Took(o)
              /\ LET clust == o.win.buf[call.f]
                     found == clust # NoEntry
                 IN  \/ ~found /\ call.op = "create" /\ Stretch(0)
                     \/ ~found /\ call.op = "extend" /\ Return("DENIED") /\ UNCHANGED vol
                     \/ ~found /\ call.op = "unlink" /\ Return("EOF") /\ UNCHANGED vol
                     \/ found /\ call.op = "create" /\ Return("NONE") /\ UNCHANGED vol
                     \/ /\ found /\ call.op = "extend"
                        /\ Goto("walk") /\ call' = [call EXCEPT !.clust = clust] /\ UNCHANGED vol
                     \/ /\ found /\ call.op = "unlink"
                        /\ Goto("rmGet") /\ call' = [call EXCEPT !.clust = clust]
                        /\ vol' = [vol EXCEPT !.dirty = TRUE]
    BY DEF Find
  <1>2. CASE Fails(o)
    BY <1>2, SectorsFit, FailureFits DEF Find, FindMoves
  <1>3. CASE o.ok /\ Took(o)
    <2>1. Looks /\ o.win.buf = DirView /\ UNCHANGED faults /\ pc = "find"
      BY <1>3, SectorsFit, UpdateLooks DEF DirView, Took, Find
    <2>2. ~Fails(o)  BY <1>3 DEF Fails
    <2> QED BY <1>1, <2>1, <2>2 DEF FindMoves, Rests, GoesOn, Stretch
  <1> QED BY <1>1, <1>2, <1>3

(* What update_buf shows of a sector of the FAT. *)
LEMMA SeesCell ==
    ASSUME MediumFits, NEW c \in Clusters, NEW o \in UpdateBuf(FatSect("act", c)), o.ok, Took(o)
    PROVE  Looks /\ o.win.buf[c] = ActView[c] /\ ActView[c] \in FatVals /\ UNCHANGED faults
  <1>1. Looks /\ o.win.buf = View(FatSect("act", c))  BY SectorsFit, UpdateLooks
  <1>2. ActView[c] = View(FatSect("act", c))[c] /\ ActView[c] \in FatVals
    BY ViewTypes DEF ActView, FatView
  <1> QED BY <1>1, <1>2 DEF Took

LEMMA WalkFits == ASSUME MediumFits, CallFits, Walk PROVE WalkMoves
  <1>1. PICK o \in UpdateBuf(FatSect("act", call.clust)) :
           \/ Fails(o)
           \/ /\ o.ok /\ Took(o)
              /\ LET next == o.win.buf[call.clust] IN
                 \/ ~InChain(next) /\ Return("BROKEN") /\ UNCHANGED vol
                 \/ next = EOC /\ Stretch(call.clust)
                 \/ /\ InChain(next) /\ next # EOC
                    /\ Goto("walk") /\ call' = [call EXCEPT !.clust = next] /\ UNCHANGED vol
    BY DEF Walk
  <1>2. pc = "walk" /\ call.clust \in Clusters  BY DEF Walk, CallFits
  <1>3. CASE Fails(o)
    BY <1>2, <1>3, SectorsFit, FailureFits DEF WalkMoves
  <1>4. CASE o.ok /\ Took(o)
    <2> DEFINE next == ActView[call.clust]
    <2>1. Looks /\ o.win.buf[call.clust] = next /\ next \in FatVals /\ UNCHANGED faults
      BY <1>2, <1>4, SeesCell
    <2>2. ~Fails(o)  BY <1>4 DEF Fails
    <2>3. call.clust # 0  BY <1>2, Marks
    <2>4. InChain(next) /\ next # EOC => next \in Clusters  BY <2>1 DEF InChain, FatVals
    <2> HIDE DEF next
    <2>5. \/ Return("BROKEN") /\ UNCHANGED vol
          \/ next = EOC /\ Stretch(call.clust)
          \/ next \in Clusters /\ Goto("walk") /\ call' = [call EXCEPT !.clust = next] /\ UNCHANGED vol
      BY <1>1, <2>1, <2>2, <2>4
    <2> QED BY <1>2, <2>1, <2>3, <2>5 DEF WalkMoves, Rests, GoesOn, Stretch, next
  <1> QED BY <1>1, <1>3, <1>4

LEMMA NearFits == ASSUME MediumFits, CallFits, Near PROVE NearMoves
  <1>1. PICK o \in UpdateBuf(FatSect("act", call.clust)) :
           \/ Fails(o)
           \/ /\ o.ok /\ Took(o) /\ UNCHANGED vol
              /\ IF o.win.buf[call.clust] = FREE
                 THEN Goto(FirstPut("eoc")) /\ UNCHANGED call
                 ELSE Goto("scan") /\ call' = [call EXCEPT !.clust = vol.last_used]
    BY DEF Near
  <1>2. pc = "near" /\ call.clust \in Clusters  BY DEF Near, CallFits, Stretching
  <1>3. CASE Fails(o)
    BY <1>2, <1>3, SectorsFit, FailureFits DEF NearMoves
  <1>4. CASE o.ok /\ Took(o)
    <2>1. Looks /\ o.win.buf[call.clust] = ActView[call.clust] /\ UNCHANGED faults
      BY <1>2, <1>4, SeesCell
    <2>2. ~Fails(o)  BY <1>4 DEF Fails
    <2> QED BY <1>1, <1>2, <2>1, <2>2 DEF NearMoves, GoesOn
  <1> QED BY <1>1, <1>3, <1>4

LEMMA ScanFits == ASSUME MediumFits, CallFits, Scan PROVE ScanMoves
  <1> DEFINE c == NextClust(call.clust)
  <1>1. pc = "scan" /\ call.clust \in Clusters /\ c \in Clusters
    BY NextFits DEF Scan, CallFits, Stretching
  <1>2. CASE c = vol.last_used
    <2>1. UNCHANGED <<disk, win, vol, faults>> /\ Return("FULL")  BY <1>2 DEF Scan
    <2> QED BY <1>1, <1>2, <2>1, StillLooks DEF ScanMoves, Rests
  <1>3. CASE c # vol.last_used
    <2> HIDE DEF c
    <2>1. PICK o \in UpdateBuf(FatSect("act", c)) :
             \/ ScanFails(o)
             \/ /\ o.ok /\ Took(o) /\ UNCHANGED vol
                /\ call' = [call EXCEPT !.clust = c]
                /\ Goto(IF o.win.buf[c] = FREE THEN FirstPut("eoc") ELSE "scan")
      BY <1>3 DEF Scan, c
    <2>2. CASE ScanFails(o)
      <3>1. Looks  BY <1>1, <2>2, SectorsFit, UpdateLooks DEF ScanFails
      <3>2. vol' = vol /\ faults < MaxFaults /\ faults' = faults + 1
        BY <2>2 DEF ScanFails, Took
      <3>3. FlagsUnset => call.op = "create"
        BY <1>1 DEF FlagsUnset, CallFits, Stretching
      <3>4. \/ Return("FLAGS")
            \/ /\ call.op = "create" /\ \E garbage \in Clusters : call' = [call EXCEPT !.clust = garbage]
               /\ pc' = "add" /\ torn' = TRUE /\ UNCHANGED res
        BY <2>2, <3>3 DEF ScanFails
      <3> QED BY <1>1, <3>1, <3>2, <3>4 DEF ScanMoves, FailsAt
    <2>3. CASE o.ok /\ Took(o) /\ ~ScanFails(o)
      <3>1. Looks /\ o.win.buf[c] = ActView[c] /\ UNCHANGED faults
        BY <1>1, <2>3, SeesCell
      <3>2. /\ vol' = vol /\ call' = [call EXCEPT !.clust = c]
            /\ Goto(IF ActView[c] = FREE THEN FirstPut("eoc") ELSE "scan")
        BY <2>1, <2>3, <3>1
      <3> QED BY <1>1, <1>3, <3>1, <3>2 DEF ScanMoves, GoesOn, c
    <2>4. o.ok => ~ScanFails(o)  BY DEF ScanFails
    <2> QED BY <2>1, <2>2, <2>3, <2>4
  <1> QED BY <1>2, <1>3

(* What the calls put in the FAT. *)
LEMMA PutTypes ==
    ASSUME CallFits, NEW p \in Puts, pc = p \/ pc = MirrorPc[p]
    PROVE  /\ PutCell(p) \in Clusters /\ PutVal(p) \in FatVals
           /\ p = "link" => PutCell(p) = call.prev /\ PutVal(p) = call.clust
           /\ p = "eoc" => PutCell(p) = call.clust /\ PutVal(p) = EOC
           /\ p = "rm" => PutCell(p) = call.clust /\ PutVal(p) = FREE
           /\ MirrorPc[p] \in {"eocM", "linkM", "rmM"}
  <1>1. CASE p = "eoc"
    <2>1. pc \in {"eocM", "eoc"}  BY <1>1 DEF MirrorPc
    <2> QED BY <1>1, <2>1, Marks DEF CallFits, Stretching, PutCell, PutVal, MirrorPc
  <1>2. CASE p = "link"
    <2>1. pc \in {"linkM", "link"}  BY <1>2 DEF MirrorPc
    <2> QED BY <1>2, <2>1, Marks DEF CallFits, Stretching, Linking, PutCell, PutVal, MirrorPc
  <1>3. CASE p = "rm"
    <2>1. pc \in {"rmM", "rm"}  BY <1>3 DEF MirrorPc
    <2> QED BY <1>3, <2>1, Marks DEF CallFits, Freeing, PutCell, PutVal, MirrorPc
  <1> QED BY <1>1, <1>2, <1>3 DEF Puts

LEMMA MirrorFits ==
    ASSUME MediumFits, CallFits, NEW p \in Puts, PutMirror(p)
    PROVE  MirrorMoves(p)
  <1>1. PICK o \in UpdateBuf(FatSect("mir", PutCell(p))) :
           \/ Fails(o)
           \/ Writes(o, PutCell(p), PutVal(p)) /\ Goto(p) /\ UNCHANGED <<vol, call>>
    BY DEF PutMirror
  <1>2. pc = MirrorPc[p]  BY DEF PutMirror
  <1>3. PutCell(p) \in Clusters /\ PutVal(p) \in FatVals  BY <1>2, PutTypes
  <1>4. CASE Fails(o)
    BY <1>2, <1>3, <1>4, SectorsFit, FailureFits DEF MirrorMoves
  <1>5. CASE Writes(o, PutCell(p), PutVal(p)) /\ Goto(p) /\ UNCHANGED <<vol, call>>
    <2>1. PutsMir(PutCell(p), PutVal(p))  BY <1>3, <1>5, PutsMirFits
    <2> QED BY <1>2, <1>5, <2>1 DEF MirrorMoves, Writes
  <1> QED BY <1>1, <1>4, <1>5

LEMMA EocFits == ASSUME MediumFits, CallFits, PutEoc PROVE EocMoves
  <1>1. pc = "eoc" /\ PutCell("eoc") = call.clust /\ call.clust \in Clusters /\ PutVal("eoc") = EOC
        /\ EOC \in FatVals
    BY Marks DEF PutEoc, CallFits, Stretching, PutCell, PutVal
  <1>2. PICK o \in UpdateBuf(FatSect("act", call.clust)) :
           \/ Fails(o)
           \/ /\ Writes(o, call.clust, EOC)
              /\ IF call.prev # 0 THEN Goto(FirstPut("link")) /\ UNCHANGED <<vol, call>>
                 ELSE Allocated
    BY <1>1 DEF PutEoc
  <1>3. CASE Fails(o)
    BY <1>1, <1>3, SectorsFit, FailureFits DEF EocMoves
  <1>4. CASE Writes(o, call.clust, EOC) /\ ~Fails(o)
    <2>1. PutsAct(call.clust, EOC)  BY <1>1, <1>4, PutsActFits
    <2> QED BY <1>1, <1>2, <1>4, <2>1 DEF EocMoves, Writes
  <1> QED BY <1>2, <1>3, <1>4

LEMMA LinkFits == ASSUME MediumFits, CallFits, PutLink PROVE LinkMoves
  <1>1. /\ pc = "link" /\ PutCell("link") = call.prev /\ call.prev \in Clusters
        /\ PutVal("link") = call.clust /\ call.clust \in FatVals
    <2>1. pc = "link"  BY DEF PutLink
    <2>2. /\ call.clust \in Clusters /\ call.prev \in Clusters
      BY <2>1 DEF CallFits, Stretching, Linking
    <2> QED BY <2>1, <2>2, Marks DEF PutCell, PutVal
  <1>2. PICK o \in UpdateBuf(FatSect("act", call.prev)) :
           Fails(o) \/ (Writes(o, call.prev, call.clust) /\ Allocated)
    BY <1>1 DEF PutLink
  <1>3. CASE Fails(o)
    BY <1>1, <1>3, SectorsFit, FailureFits DEF LinkMoves
  <1>4. CASE Writes(o, call.prev, call.clust) /\ Allocated
    <2>1. PutsAct(call.prev, call.clust)  BY <1>1, <1>4, PutsActFits
    <2> QED BY <1>1, <1>4, <2>1 DEF LinkMoves, Writes
  <1> QED BY <1>2, <1>3, <1>4

LEMMA RmGetFits == ASSUME MediumFits, CallFits, RmGet PROVE RmGetMoves
  <1>1. PICK o \in UpdateBuf(FatSect("act", call.clust)) :
           \/ Fails(o)
           \/ /\ o.ok /\ Took(o) /\ UNCHANGED vol
              /\ LET next == o.win.buf[call.clust] IN
                 \/ ~InChain(next) /\ Return("BROKEN")
                 \/ InChain(next) /\ Goto(FirstPut("rm")) /\ call' = [call EXCEPT !.next = next]
    BY DEF RmGet
  <1>2. pc = "rmGet" /\ call.clust \in Clusters  BY DEF RmGet, CallFits, Freeing
  <1>3. CASE Fails(o)
    BY <1>2, <1>3, SectorsFit, FailureFits DEF RmGetMoves
  <1>4. CASE o.ok /\ Took(o)
    <2> DEFINE next == ActView[call.clust]
    <2>1. Looks /\ o.win.buf[call.clust] = next /\ next \in FatVals /\ UNCHANGED faults
      BY <1>2, <1>4, SeesCell
    <2>2. ~Fails(o)  BY <1>4 DEF Fails
    <2>3. IF InChain(next) THEN next \in Clusters \cup {EOC} ELSE next \in {FREE, BAD}
      BY <2>1 DEF InChain, FatVals
    <2> HIDE DEF next
    <2>4. /\ vol' = vol
          /\ \/ next \in {FREE, BAD} /\ Return("BROKEN")
             \/ /\ next \in Clusters \cup {EOC} /\ Goto(FirstPut("rm"))
                /\ call' = [call EXCEPT !.next = next]
      BY <1>1, <2>1, <2>2, <2>3
    <2> QED BY <1>2, <2>1, <2>4 DEF RmGetMoves, Rests, GoesOn, next
  <1> QED BY <1>1, <1>3, <1>4

LEMMA RmFits == ASSUME MediumFits, CallFits, RmPut PROVE RmMoves
  <1>1. /\ pc = "rm" /\ PutCell("rm") = call.clust /\ call.clust \in Clusters
        /\ PutVal("rm") = FREE /\ FREE \in FatVals /\ call.op = "unlink"
    BY Marks DEF RmPut, CallFits, Freeing, PutCell, PutVal
  <1>2. NextPart(call.op) = "rmEntry"  BY <1>1 DEF NextPart
  <1>3. PICK o \in UpdateBuf(FatSect("act", call.clust)) :
           \/ Fails(o)
           \/ /\ Writes(o, call.clust, FREE)
              /\ vol' = [vol EXCEPT !.free_cnt = (@ + 1) % CountMod]
              /\ IF call.next = EOC
                 THEN Goto("flush") /\ call' = [call EXCEPT !.then = "rmEntry"]
                 ELSE Goto("rmGet") /\ call' = [call EXCEPT !.clust = call.next]
    BY <1>1, <1>2 DEF RmPut
  <1>4. CASE Fails(o)
    BY <1>1, <1>4, SectorsFit, FailureFits DEF RmMoves
  <1>5. CASE Writes(o, call.clust, FREE) /\ ~Fails(o)
    <2>1. PutsAct(call.clust, FREE)  BY <1>1, <1>5, PutsActFits
    <2> QED BY <1>1, <1>3, <1>5, <2>1 DEF RmMoves, Writes
  <1> QED BY <1>3, <1>4, <1>5

LEMMA FlushFits == ASSUME MediumFits, CallFits, Flush PROVE FlushMoves
  <1>1. PICK o \in SyncBuf :
           \/ Fails(o)
           \/ /\ o.ok /\ Took(o) /\ UNCHANGED vol
              /\ IF vol.dirty THEN Goto("info") /\ UNCHANGED call ELSE Synced
    BY DEF Flush
  <1>2. CASE Fails(o)
    BY <1>2, FailureFits DEF Flush, FlushMoves
  <1>3. CASE o.ok /\ Took(o)
    <2>1. Looks /\ Settles /\ Clean' /\ UNCHANGED faults
      BY <1>3, SyncLooks DEF Clean, Took
    <2>2. ~Fails(o)  BY <1>3 DEF Fails
    <2> QED BY <1>1, <2>1, <2>2 DEF FlushMoves, Flush
  <1> QED BY <1>1, <1>2, <1>3

LEMMA InfoFlushFits == ASSUME MediumFits, CallFits, FlushInfo PROVE InfoFlushMoves
  <1>1. PICK o \in SyncBuf :
           \/ Fails(o)
           \/ o.ok /\ Took(o) /\ vol' = [vol EXCEPT !.dirty = FALSE] /\ Synced
    BY DEF FlushInfo
  <1>2. CASE Fails(o)
    BY <1>2, FailureFits DEF FlushInfo, InfoFlushMoves
  <1>3. CASE o.ok /\ Took(o)
    <2>1. Looks /\ Settles /\ Clean' /\ UNCHANGED faults
      BY <1>3, SyncLooks DEF Clean, Took
    <2>2. ~Fails(o)  BY <1>3 DEF Fails
    <2> QED BY <1>1, <2>1, <2>2 DEF InfoFlushMoves, FlushInfo
  <1> QED BY <1>1, <1>2, <1>3

LEMMA InfoMovesFit == ASSUME MediumFits, CallFits, UpdateInfo PROVE InfoMoves
  <1>1. PICK o \in UpdateBuf(InfoSect) :
           \/ Fails(o)
           \/ /\ o.ok
              /\ win' = [o.win EXCEPT !.buf = [next_free |-> vol.last_used, free_cnt |-> vol.free_cnt],
                                      !.dirty = TRUE]
              /\ disk' = o.disk /\ Goto("infoFlush") /\ UNCHANGED <<vol, call, faults>>
    BY DEF UpdateInfo
  <1>2. CASE Fails(o)
    BY <1>2, SectorsFit, FailureFits DEF UpdateInfo, InfoMoves
  <1>3. CASE o.ok
    <2>1. ~Fails(o)  BY <1>3 DEF Fails
    <2>2. vol.last_used \in Clusters /\ vol.free_cnt \in 0 .. (CountMod - 1)
      BY DEF CallFits, VolSet
    <2>3. PutsInfo  BY <1>1, <1>3, <2>1, <2>2, PutsInfoFits
    <2> QED BY <1>1, <2>1, <2>3 DEF InfoMoves, UpdateInfo
  <1>4. o.ok \/ Fails(o)  BY <1>1
  <1> QED BY <1>2, <1>3, <1>4

(* The entries of the directory. *)
LEMMA AddFits == ASSUME MediumFits, CallFits, Add PROVE AddMoves
  <1>1. pc = "add" /\ call.f \in Files /\ call.clust \in {NoEntry} \cup Clusters
    BY DEF Add, CallFits, Ready
  <1>2. PICK o \in UpdateBuf(DirSect) :
           \/ Fails(o)
           \/ Writes(o, call.f, call.clust) /\ Return("NONE") /\ UNCHANGED vol
    BY DEF Add
  <1>3. CASE Fails(o)
    BY <1>1, <1>3, SectorsFit, FailureFits DEF AddMoves
  <1>4. CASE Writes(o, call.f, call.clust) /\ Return("NONE") /\ UNCHANGED vol
    <2>1. PutsDir(call.f, call.clust)  BY <1>1, <1>4, PutsDirFits
    <2> QED BY <1>1, <1>4, <2>1 DEF AddMoves, Writes
  <1> QED BY <1>2, <1>3, <1>4

LEMMA RmEntryFits == ASSUME MediumFits, CallFits, RmEntry PROVE RmEntryMoves
  <1>1. pc = "rmEntry" /\ call.f \in Files
    BY DEF RmEntry, CallFits
  <1>2. PICK o \in UpdateBuf(DirSect) :
           \/ Fails(o)
           \/ Writes(o, call.f, NoEntry) /\ Goto("flush") /\ UNCHANGED <<vol, call>>
    BY DEF RmEntry
  <1>3. CASE Fails(o)
    BY <1>1, <1>3, SectorsFit, FailureFits DEF RmEntryMoves
  <1>4. CASE Writes(o, call.f, NoEntry) /\ Goto("flush") /\ UNCHANGED <<vol, call>>
    <2>1. PutsDir(call.f, NoEntry)  BY <1>1, <1>4, PutsDirFits
    <2> QED BY <1>1, <1>4, <2>1 DEF RmEntryMoves, Writes
  <1> QED BY <1>2, <1>3, <1>4

LEMMA TouchFits == ASSUME MediumFits, CallFits, Touch PROVE TouchMoves
  <1>1. pc = "touch" /\ call.f \in Files
    BY DEF Touch, CallFits, Syncing
  <1>2. PICK o \in UpdateBuf(DirSect) :
           \/ Fails(o)
           \/ Writes(o, call.f, o.win.buf[call.f]) /\ Goto("flush") /\ UNCHANGED <<vol, call>>
    BY DEF Touch
  <1>3. CASE Fails(o)
    BY <1>1, <1>3, SectorsFit, FailureFits DEF TouchMoves
  <1>4. CASE Writes(o, call.f, o.win.buf[call.f]) /\ Goto("flush") /\ UNCHANGED <<vol, call>>
    <2>1. o.win.buf = DirView
      BY <1>4, SectorsFit, UpdateBufFits DEF Writes, MediumFits, DirView
    <2>2. DirView[call.f] \in {NoEntry} \cup Clusters  BY <1>1, ViewTypes DEF DirVals
    <2>3. PutsDir(call.f, DirView[call.f])  BY <1>1, <1>4, <2>1, <2>2, PutsDirFits
    <2> QED BY <1>1, <1>4, <2>3 DEF TouchMoves, Writes
  <1> QED BY <1>2, <1>3, <1>4

LEMMA CrashMovesFit == ASSUME MediumFits, CallFits, Crash PROVE CrashMoves
  <1>1. win' = [sect |-> NoSect, buf |-> NoBuf, dirty |-> FALSE] /\ disk' = disk
    BY DEF Crash
  <1>2. /\ MediumFits' /\ Stays /\ Clean'
        /\ ActView' = FatOnDisk /\ MirView' = MirOnDisk
        /\ DirView' = DirOnDisk /\ InfoView' = InfoOnDisk
    BY <1>1, CrashFits DEF Clean
  <1> QED BY <1>2 DEF Crash, CrashMoves, InfoOnDisk

LEMMA BeginsFit ==
    ASSUME MediumFits,
           \/ \E op \in Ops \ {"sync"}, f \in Files : Begin(op, f)
           \/ BeginSync
    PROVE  Begins
  <1>1. CASE BeginSync
    <2>1. Looks  BY <1>1, StillLooks DEF BeginSync
    <2> QED BY <1>1, <2>1 DEF Begins, BeginSync
  <1>2. ASSUME NEW op \in Ops \ {"sync"}, NEW f \in Files, Begin(op, f) PROVE Begins
    <2>1. Looks  BY <1>2, StillLooks DEF Begin
    <2>2. call'.op = op  BY <1>2 DEF Begin, NoCall
    <2> QED BY <1>2, <2>1, <2>2 DEF Begins, Begin
  <1> QED BY <1>1, <1>2

(* Every step is one of the moves. *)
LEMMA NextMoves == ASSUME MediumFits, CallFits, Next PROVE CallMoves \/ (Crash /\ CrashMoves)
  <1>1. CASE Step
    BY <1>1, FindFits, WalkFits, NearFits, ScanFits, MirrorFits, EocFits, LinkFits, RmGetFits, RmFits,
       FlushFits, InfoMovesFit, InfoFlushFits, AddFits, RmEntryFits, TouchFits DEF Step, CallMoves
  <1> QED BY <1>1, BeginsFit, CrashMovesFit DEF Next, CallMoves

(* What a step of a call changes is in one sector, and that is in the window. *)
LEMMA MovesSee == ASSUME CallMoves PROVE SeesAll \/ SeesOthers
  BY DEF CallMoves, Begins, FindMoves, WalkMoves, NearMoves, ScanMoves, EocMoves, LinkMoves, MirrorMoves,
         RmGetMoves, RmMoves, FlushMoves, InfoMoves, InfoFlushMoves, AddMoves, RmEntryMoves, TouchMoves,
         Rests, FailsAt, GoesOn, Looks, PutsAct, PutsMir, PutsDir, PutsInfo
-----------------------------------------------------------------------------
(* First part of the invariant: the call and its place fit each other.     *)
LEMMA MovesKeepMedium == ASSUME Moves PROVE MediumFits'
  BY DEF Moves, CallMoves, Begins, FindMoves, WalkMoves, NearMoves, ScanMoves, EocMoves, LinkMoves, MirrorMoves,
         RmGetMoves, RmMoves, FlushMoves, InfoMoves, InfoFlushMoves, AddMoves, RmEntryMoves, TouchMoves,
         CrashMoves, Rests, FailsAt, GoesOn, Looks, PutsAct, PutsMir, PutsDir, PutsInfo

LEMMA NoCallFits == /\ NoCall \in CallSet /\ NoCall.op = "none" /\ NoCall.then = "return"
  BY Marks, Constants DEF NoCall, CallSet, EOC

(* The fields of a call that changes. *)
LEMMA NewClust ==
    ASSUME call \in CallSet, NEW c \in Clusters, call' = [call EXCEPT !.clust = c]
    PROVE  /\ call' \in CallSet /\ call'.clust = c /\ call'.op = call.op /\ call'.f = call.f
           /\ call'.prev = call.prev /\ call'.next = call.next /\ call'.then = call.then
  <1>1. c \in 0 .. EOC  BY Marks
  <1> QED BY <1>1 DEF CallSet

LEMMA NewPrev ==
    ASSUME call \in CallSet, NEW p \in Clusters, NEW c \in Clusters,
           call' = [call EXCEPT !.prev = p, !.clust = c]
    PROVE  /\ call' \in CallSet /\ call'.clust = c /\ call'.op = call.op /\ call'.f = call.f
           /\ call'.prev = p /\ call'.next = call.next /\ call'.then = call.then
  <1>1. c \in 0 .. EOC /\ p \in 0 .. EOC  BY Marks
  <1> QED BY <1>1 DEF CallSet

LEMMA NewNext ==
    ASSUME call \in CallSet, NEW c \in Clusters \cup {EOC}, call' = [call EXCEPT !.next = c]
    PROVE  /\ call' \in CallSet /\ call'.clust = call.clust /\ call'.op = call.op /\ call'.f = call.f
           /\ call'.prev = call.prev /\ call'.next = c /\ call'.then = call.then
  <1>1. c \in 0 .. EOC  BY Marks, Constants DEF EOC
  <1> QED BY <1>1 DEF CallSet

LEMMA NewThen ==
    ASSUME call \in CallSet, NEW t \in {"return", "add", "rmEntry"}, call' = [call EXCEPT !.then = t]
    PROVE  /\ call' \in CallSet /\ call'.clust = call.clust /\ call'.op = call.op /\ call'.f = call.f
           /\ call'.prev = call.prev /\ call'.next = call.next /\ call'.then = t
  BY DEF CallSet

LEMMA NewDirty ==
    ASSUME vol \in VolSet, NEW b \in BOOLEAN, vol' = [vol EXCEPT !.dirty = b]
    PROVE  vol' \in VolSet /\ vol'.dirty = b /\ vol'.last_used = vol.last_used /\ vol'.free_cnt = vol.free_cnt
  BY DEF VolSet

(* Counting modulo CountMod. *)
LEMMA CountFits ==
    ASSUME NEW n \in 0 .. (CountMod - 1)
    PROVE  /\ CountDown(n) \in 0 .. (CountMod - 1) /\ (n + 1) % CountMod \in 0 .. (CountMod - 1)
           /\ n > 0 => CountDown(n) = n - 1
           /\ n + 1 < CountMod => (n + 1) % CountMod = n + 1
  <1>1. CountMod \in Nat /\ CountMod > 0  BY Constants
  <1>2. CountDown(n) \in 0 .. (CountMod - 1) /\ (n + 1) % CountMod \in 0 .. (CountMod - 1)
    BY <1>1 DEF CountDown
  <1>3. ASSUME n > 0 PROVE CountDown(n) = n - 1
    <2> DEFINE k == n - 1
    <2>1. k \in 0 .. (CountMod - 1) /\ n + CountMod - 1 = CountMod + k  BY <1>1, <1>3
    <2> HIDE DEF k
    <2>2. (CountMod + k) % CountMod = k  BY <1>1, <2>1
    <2> QED BY <2>1, <2>2 DEF CountDown, k
  <1>4. ASSUME n + 1 < CountMod PROVE (n + 1) % CountMod = n + 1
    BY <1>1, <1>4
  <1> QED BY <1>2, <1>3, <1>4

(* A call that returns is over. *)
LEMMA ReturnsFit ==
    ASSUME CallFits, NEW e \in Errs, Return(e), vol' = vol, faults' \in 0 .. MaxFaults
    PROVE  CallFits'
  <1>1. pc' = "idle" /\ call' = NoCall  BY DEF Return
  <1>2. res'.err \in Errs  BY DEF Return
  <1>3. torn' \in BOOLEAN  BY DEF Return, CallFits
  <1> QED BY <1>1, <1>2, <1>3, NoCallFits
          DEF CallFits, Pcs, Stretching, Linking, Freeing, Syncing, Ready

LEMMA RestsFit == ASSUME CallFits, NEW e \in Errs, Rests(e) \/ FailsAt(e) PROVE CallFits'
  <1>1. faults' \in 0 .. MaxFaults  BY Constants DEF CallFits, Rests, FailsAt
  <1> QED BY <1>1, ReturnsFit DEF Rests, FailsAt

(* What stays as it is when a call goes on. *)
LEMMA GoesFit ==
    ASSUME CallFits, NEW l, Goto(l), faults' = faults
    PROVE  pc' = l /\ faults' \in 0 .. MaxFaults /\ torn' \in BOOLEAN /\ res'.err \in Errs /\ torn' = torn
  BY DEF Goto, CallFits

LEMMA FirstPuts == /\ FirstPut("eoc") \in {"eocM", "eoc"} /\ FirstPut("link") \in {"linkM", "link"}
                   /\ FirstPut("rm") \in {"rmM", "rm"}
  BY DEF FirstPut, MirrorPc

LEMMA AllocatedFits ==
    ASSUME CallFits, call.op \in {"create", "extend"}, call.clust \in Clusters, Allocated
    PROVE  /\ pc' = "flush" /\ vol' \in VolSet /\ vol'.dirty = vol.dirty
           /\ vol'.free_cnt = CountDown(vol.free_cnt) /\ vol'.last_used = call.clust
           /\ call' \in CallSet /\ call'.clust = call.clust /\ call'.op = call.op /\ call'.f = call.f
           /\ call'.then = IF call.op = "create" THEN "add" ELSE "return"
           /\ torn' = torn /\ res' = res
  <1> DEFINE t == NextPart(call.op)
  <1>1. t = (IF call.op = "create" THEN "add" ELSE "return") /\ t \in {"return", "add", "rmEntry"}
    BY DEF NextPart
  <1>2. vol' = [vol EXCEPT !.last_used = call.clust, !.free_cnt = CountDown(vol.free_cnt)]
    BY DEF Allocated
  <1>3. vol \in VolSet /\ CountDown(vol.free_cnt) \in 0 .. (CountMod - 1)
    BY CountFits DEF CallFits, VolSet
  <1>4. /\ vol' \in VolSet /\ vol'.dirty = vol.dirty /\ vol'.last_used = call.clust
        /\ vol'.free_cnt = CountDown(vol.free_cnt)
    BY <1>2, <1>3 DEF VolSet
  <1>5. call' = [call EXCEPT !.then = t] /\ call \in CallSet  BY DEF Allocated, CallFits
  <1> HIDE DEF t
  <1>6. /\ call' \in CallSet /\ call'.clust = call.clust /\ call'.op = call.op /\ call'.f = call.f
        /\ call'.then = t
    BY <1>1, <1>5, NewThen
  <1>7. pc' = "flush" /\ torn' = torn /\ res' = res  BY DEF Allocated, Goto
  <1> QED BY <1>1, <1>4, <1>6, <1>7

LEMMA BeginsKeepsCall == ASSUME CallFits, Begins PROVE CallFits'
  <1>1. /\ vol' = vol /\ faults' = faults /\ torn' = torn /\ res'.err \in Errs
    BY DEF Begins, NoRes, Errs
  <1>2. ASSUME NEW op \in Ops \ {"sync"}, NEW f \in Files, call' = [NoCall EXCEPT !.op = op, !.f = f],
               pc' = IF call'.op = "close" THEN "touch" ELSE "find"
        PROVE  CallFits'
    <2>1. /\ call' \in CallSet /\ call'.op = op /\ call'.f = f /\ call'.then = "return"
          /\ call'.prev = 0
      <3>1. NoCall.prev = 0  BY DEF NoCall
      <3> QED BY <1>2, <3>1, NoCallFits DEF CallSet
    <2>2. op \in {"create", "extend", "unlink", "close"}  BY DEF Ops
    <2> QED BY <1>1, <1>2, <2>1, <2>2 DEF CallFits, Pcs, Stretching, Linking, Freeing, Syncing, Ready
  <1>3. ASSUME call' = [NoCall EXCEPT !.op = "sync"], pc' = "flush"
        PROVE  CallFits'
    <2>1. call' \in CallSet /\ call'.op = "sync" /\ call'.then = "return"
      BY <1>3, NoCallFits DEF CallSet, Ops
    <2> QED BY <1>1, <1>3, <2>1 DEF CallFits, Pcs, Stretching, Linking, Freeing, Syncing, Ready
  <1> QED BY <1>2, <1>3 DEF Begins

LEMMA FindKeepsCall == ASSUME MediumFits, CallFits, FindMoves PROVE CallFits'
  <1>0. pc = "find" /\ call \in CallSet /\ vol \in VolSet /\ call.f \in Files /\ call.then = "return"
    BY DEF FindMoves, CallFits, Syncing
  <1>1. CASE \E e \in Errs : Rests(e) \/ FailsAt(e)
    BY <1>1, RestsFit
  <1>2. ASSUME NEW l, GoesOn(l), vol' = vol \/ vol' = [vol EXCEPT !.dirty = TRUE],
               NEW c \in Clusters, call' = [call EXCEPT !.clust = c],
               \/ l = "scan" /\ call.op = "create" /\ vol' = [vol EXCEPT !.dirty = TRUE]
               \/ l = "walk" /\ call.op = "extend"
               \/ l = "rmGet" /\ call.op = "unlink" /\ vol' = [vol EXCEPT !.dirty = TRUE]
        PROVE  CallFits'
    <2> USE DEF Pcs, Stretching, Linking, Freeing, Syncing, Ready
    <2>1. /\ call' \in CallSet /\ call'.clust = c /\ call'.op = call.op /\ call'.f = call.f
          /\ call'.prev = call.prev /\ call'.next = call.next /\ call'.then = call.then
      BY <1>0, <1>2, NewClust
    <2>2. vol' \in VolSet /\ (vol' = vol \/ vol'.dirty)  BY <1>0, <1>2, NewDirty
    <2>3. /\ pc' = l /\ faults' \in 0 .. MaxFaults /\ torn' \in BOOLEAN /\ res'.err \in Errs
      BY <1>2, GoesFit DEF GoesOn
    <2>4. CASE l = "scan"
      <3>1. call.op = "create" /\ vol'.dirty  BY <1>0, <1>2, <2>4, NewDirty
      <3>2. call.prev = 0  BY <1>0 DEF CallFits
      <3> QED BY <1>0, <2>1, <2>2, <2>3, <2>4, <3>1, <3>2 DEF CallFits
    <2>5. CASE l = "walk"
      <3>1. call.op = "extend"  BY <1>2, <2>5
      <3> QED BY <1>0, <2>1, <2>2, <2>3, <2>5, <3>1 DEF CallFits
    <2>6. CASE l = "rmGet"
      <3>1. call.op = "unlink" /\ vol'.dirty  BY <1>0, <1>2, <2>6, NewDirty
      <3> QED BY <1>0, <2>1, <2>2, <2>3, <2>6, <3>1 DEF CallFits
    <2> QED BY <1>2, <2>4, <2>5, <2>6
  <1>3. DirView[call.f] # NoEntry => DirView[call.f] \in Clusters  BY <1>0, ViewTypes DEF DirVals
  <1>4. vol.last_used \in Clusters  BY <1>0 DEF VolSet
  <1> QED BY <1>1, <1>2, <1>3, <1>4 DEF FindMoves, Errs

LEMMA WalkKeepsCall == ASSUME MediumFits, CallFits, WalkMoves PROVE CallFits'
  <1>0. pc = "walk" /\ call \in CallSet /\ vol \in VolSet /\ call.f \in Files /\ call.then = "return"
        /\ call.clust \in Clusters /\ call.op = "extend"
    BY DEF WalkMoves, CallFits, Syncing
  <1> USE DEF Pcs, Stretching, Linking, Freeing, Syncing, Ready
  <1>1. CASE \E e \in Errs : Rests(e) \/ FailsAt(e)
    BY <1>1, RestsFit
  <1>2. CASE /\ GoesOn("near") /\ vol' = [vol EXCEPT !.dirty = TRUE]
             /\ call' = [call EXCEPT !.prev = call.clust, !.clust = NextClust(call.clust)]
    <2> DEFINE n == NextClust(call.clust)
    <2>1. n \in Clusters  BY <1>0, NextFits
    <2>2. call' = [call EXCEPT !.prev = call.clust, !.clust = n]  BY <1>2
    <2> HIDE DEF n
    <2>3. /\ call' \in CallSet /\ call'.clust \in Clusters /\ call'.op = call.op /\ call'.f = call.f
          /\ call'.prev = call.clust /\ call'.then = call.then
      BY <1>0, <2>1, <2>2, NewPrev
    <2>4. vol' \in VolSet /\ vol'.dirty  BY <1>0, <1>2, NewDirty
    <2>5. /\ pc' = "near" /\ faults' \in 0 .. MaxFaults /\ torn' \in BOOLEAN /\ res'.err \in Errs
      BY <1>2, GoesFit DEF GoesOn
    <2>6. call'.prev # 0 /\ call'.prev \in Clusters  BY <1>0, <2>3, Marks
    <2> QED BY <1>0, <2>3, <2>4, <2>5, <2>6 DEF CallFits
  <1>3. CASE /\ ActView[call.clust] \in Clusters /\ GoesOn("walk") /\ vol' = vol
             /\ call' = [call EXCEPT !.clust = ActView[call.clust]]
    <2>3. /\ call' \in CallSet /\ call'.clust \in Clusters /\ call'.op = call.op /\ call'.f = call.f
          /\ call'.prev = call.prev /\ call'.then = call.then
      BY <1>0, <1>3, NewClust
    <2>5. /\ pc' = "walk" /\ faults' \in 0 .. MaxFaults /\ torn' \in BOOLEAN /\ res'.err \in Errs
      BY <1>3, GoesFit DEF GoesOn
    <2> QED BY <1>0, <1>3, <2>3, <2>5 DEF CallFits
  <1> QED BY <1>1, <1>2, <1>3 DEF WalkMoves, Errs

LEMMA NearKeepsCall == ASSUME MediumFits, CallFits, NearMoves PROVE CallFits'
  <1>0. pc = "near" /\ call \in CallSet /\ vol \in VolSet /\ call.f \in Files /\ call.then = "return"
        /\ call.clust \in Clusters /\ call.op \in {"create", "extend"} /\ vol.dirty
        /\ call.prev \in {0} \cup Clusters /\ (call.op = "extend" <=> call.prev # 0)
    BY DEF NearMoves, CallFits, Syncing, Stretching
  <1> USE DEF Pcs, Stretching, Linking, Freeing, Syncing, Ready
  <1>1. CASE \E e \in Errs : Rests(e) \/ FailsAt(e)
    BY <1>1, RestsFit
  <1>2. CASE GoesOn(FirstPut("eoc")) /\ UNCHANGED <<vol, call>>
    <2>5. /\ pc' \in {"eocM", "eoc"} /\ faults' \in 0 .. MaxFaults /\ torn' \in BOOLEAN /\ res'.err \in Errs
      BY <1>2, GoesFit, FirstPuts DEF GoesOn
    <2> QED BY <1>0, <1>2, <2>5 DEF CallFits
  <1>3. CASE GoesOn("scan") /\ vol' = vol /\ call' = [call EXCEPT !.clust = vol.last_used]
    <2>1. vol.last_used \in Clusters  BY <1>0 DEF VolSet
    <2>3. /\ call' \in CallSet /\ call'.clust \in Clusters /\ call'.op = call.op /\ call'.f = call.f
          /\ call'.prev = call.prev /\ call'.then = call.then
      BY <1>0, <1>3, <2>1, NewClust
    <2>5. /\ pc' = "scan" /\ faults' \in 0 .. MaxFaults /\ torn' \in BOOLEAN /\ res'.err \in Errs
      BY <1>3, GoesFit DEF GoesOn
    <2> QED BY <1>0, <1>3, <2>3, <2>5 DEF CallFits
  <1> QED BY <1>1, <1>2, <1>3 DEF NearMoves, Errs

LEMMA ScanKeepsCall == ASSUME MediumFits, CallFits, ScanMoves PROVE CallFits'
  <1>0. pc = "scan" /\ call \in CallSet /\ vol \in VolSet /\ call.f \in Files /\ call.then = "return"
        /\ call.clust \in Clusters /\ call.op \in {"create", "extend"} /\ vol.dirty /\ vol' = vol
        /\ call.prev \in {0} \cup Clusters /\ (call.op = "extend" <=> call.prev # 0)
    BY DEF ScanMoves, CallFits, Syncing, Stretching
  <1> USE DEF Pcs, Stretching, Linking, Freeing, Syncing, Ready
  <1>1. CASE \E e \in Errs : Rests(e) \/ FailsAt(e)
    BY <1>1, RestsFit
  <1>2. CASE /\ pc' = "add" /\ torn' = TRUE /\ UNCHANGED res /\ call.op = "create"
             /\ faults < MaxFaults /\ faults' = faults + 1
             /\ \E garbage \in Clusters : call' = [call EXCEPT !.clust = garbage]
    <2>1. PICK garbage \in Clusters : call' = [call EXCEPT !.clust = garbage]  BY <1>2
    <2>3. /\ call' \in CallSet /\ call'.clust \in Clusters /\ call'.op = call.op /\ call'.f = call.f
          /\ call'.prev = call.prev /\ call'.then = call.then
      BY <1>0, <2>1, NewClust
    <2>5. faults' \in 0 .. MaxFaults /\ res'.err \in Errs
      BY <1>2, Constants DEF CallFits
    <2>6. torn' \in BOOLEAN  BY <1>2, Zenon
    <2> QED BY <1>0, <1>2, <2>3, <2>5, <2>6 DEF CallFits
  <1>3. CASE /\ call' = [call EXCEPT !.clust = NextClust(call.clust)]
             /\ GoesOn(FirstPut("eoc")) \/ GoesOn("scan")
    <2> DEFINE n == NextClust(call.clust)
    <2>1. n \in Clusters /\ call' = [call EXCEPT !.clust = n]  BY <1>0, <1>3, NextFits
    <2> HIDE DEF n
    <2>3. /\ call' \in CallSet /\ call'.clust \in Clusters /\ call'.op = call.op /\ call'.f = call.f
          /\ call'.prev = call.prev /\ call'.then = call.then
      BY <1>0, <2>1, NewClust
    <2>5. /\ pc' \in {"eocM", "eoc", "scan"} /\ faults' \in 0 .. MaxFaults /\ torn' \in BOOLEAN
          /\ res'.err \in Errs
      BY <1>3, GoesFit, FirstPuts DEF GoesOn
    <2> QED BY <1>0, <2>3, <2>5 DEF CallFits
  <1> QED BY <1>1, <1>2, <1>3 DEF ScanMoves, Errs

LEMMA MirrorKeepsCall == ASSUME CallFits, NEW p \in Puts, MirrorMoves(p) PROVE CallFits'
  <1> USE DEF Pcs, Stretching, Linking, Freeing, Syncing, Ready
  <1>1. CASE \E e \in Errs : Rests(e) \/ FailsAt(e)
    BY <1>1, RestsFit
  <1>2. CASE Goto(p) /\ UNCHANGED <<vol, call, faults>>
    <2>1. \/ pc = "eocM" /\ p = "eoc"
          \/ pc = "linkM" /\ p = "link"
          \/ pc = "rmM" /\ p = "rm"
      BY DEF MirrorMoves, Puts, MirrorPc
    <2>2. /\ pc' = p /\ faults' \in 0 .. MaxFaults /\ torn' \in BOOLEAN /\ res'.err \in Errs
      BY <1>2, GoesFit
    <2> QED BY <1>2, <2>1, <2>2 DEF CallFits
  <1> QED BY <1>1, <1>2 DEF MirrorMoves, Errs

LEMMA EocKeepsCall == ASSUME CallFits, EocMoves PROVE CallFits'
  <1>0. pc = "eoc" /\ call \in CallSet /\ vol \in VolSet /\ call.f \in Files /\ call.then = "return"
        /\ call.clust \in Clusters /\ call.op \in {"create", "extend"} /\ vol.dirty
        /\ call.prev \in {0} \cup Clusters /\ (call.op = "extend" <=> call.prev # 0)
    BY DEF EocMoves, CallFits, Syncing, Stretching
  <1> USE DEF Pcs, Stretching, Linking, Freeing, Syncing, Ready
  <1>1. CASE \E e \in Errs : Rests(e) \/ FailsAt(e)
    BY <1>1, RestsFit
  <1>2. CASE call.prev # 0 /\ Goto(FirstPut("link")) /\ UNCHANGED <<vol, call, faults>>
    <2>5. /\ pc' \in {"linkM", "link"} /\ faults' \in 0 .. MaxFaults /\ torn' \in BOOLEAN /\ res'.err \in Errs
      BY <1>2, GoesFit, FirstPuts
    <2> QED BY <1>0, <1>2, <2>5 DEF CallFits
  <1>3. CASE call.prev = 0 /\ Allocated /\ UNCHANGED faults
    <2>1. /\ pc' = "flush" /\ vol' \in VolSet /\ vol'.dirty = vol.dirty
          /\ call' \in CallSet /\ call'.clust = call.clust /\ call'.op = call.op /\ call'.f = call.f
          /\ call'.then = (IF call.op = "create" THEN "add" ELSE "return")
          /\ torn' = torn /\ res' = res
      BY <1>0, <1>3, AllocatedFits
    <2> QED BY <1>0, <1>3, <2>1 DEF CallFits
  <1> QED BY <1>1, <1>2, <1>3 DEF EocMoves, Errs

LEMMA LinkKeepsCall == ASSUME CallFits, LinkMoves PROVE CallFits'
  <1>0. pc = "link" /\ call \in CallSet /\ vol \in VolSet /\ call.f \in Files
        /\ call.clust \in Clusters /\ call.op = "extend" /\ vol.dirty
    BY DEF LinkMoves, CallFits, Syncing, Stretching, Linking
  <1> USE DEF Pcs, Stretching, Linking, Freeing, Syncing, Ready
  <1>1. CASE \E e \in Errs : Rests(e) \/ FailsAt(e)
    BY <1>1, RestsFit
  <1>3. CASE Allocated /\ UNCHANGED faults
    <2>1. /\ pc' = "flush" /\ vol' \in VolSet /\ vol'.dirty = vol.dirty
          /\ call' \in CallSet /\ call'.clust = call.clust /\ call'.op = call.op /\ call'.f = call.f
          /\ call'.then = "return" /\ torn' = torn /\ res' = res
      BY <1>0, <1>3, AllocatedFits
    <2> QED BY <1>0, <1>3, <2>1 DEF CallFits
  <1> QED BY <1>1, <1>3 DEF LinkMoves, Errs

LEMMA RmGetKeepsCall == ASSUME CallFits, RmGetMoves PROVE CallFits'
  <1>0. pc = "rmGet" /\ call \in CallSet /\ vol \in VolSet /\ call.f \in Files
        /\ call.clust \in Clusters /\ call.op = "unlink" /\ vol.dirty /\ call.then = "return"
    BY DEF RmGetMoves, CallFits, Syncing, Freeing
  <1> USE DEF Pcs, Stretching, Linking, Freeing, Syncing, Ready
  <1>1. CASE \E e \in Errs : Rests(e) \/ FailsAt(e)
    BY <1>1, RestsFit
  <1>3. CASE /\ ActView[call.clust] \in Clusters \cup {EOC} /\ GoesOn(FirstPut("rm")) /\ vol' = vol
             /\ call' = [call EXCEPT !.next = ActView[call.clust]]
    <2>1. /\ call' \in CallSet /\ call'.clust = call.clust /\ call'.op = call.op /\ call'.f = call.f
          /\ call'.next \in Clusters \cup {EOC} /\ call'.then = call.then
      BY <1>0, <1>3, NewNext
    <2>2. /\ pc' \in {"rmM", "rm"} /\ faults' \in 0 .. MaxFaults /\ torn' \in BOOLEAN /\ res'.err \in Errs
      BY <1>3, GoesFit, FirstPuts DEF GoesOn
    <2> QED BY <1>0, <1>3, <2>1, <2>2 DEF CallFits
  <1> QED BY <1>1, <1>3 DEF RmGetMoves, Errs

LEMMA RmKeepsCall == ASSUME CallFits, RmMoves PROVE CallFits'
  <1>0. pc = "rm" /\ call \in CallSet /\ vol \in VolSet /\ call.f \in Files
        /\ call.clust \in Clusters /\ call.op = "unlink" /\ vol.dirty /\ call.then = "return"
        /\ call.next \in Clusters \cup {EOC}
    BY DEF RmMoves, CallFits, Syncing, Freeing
  <1> USE DEF Pcs, Stretching, Linking, Freeing, Syncing, Ready
  <1>1. CASE \E e \in Errs : Rests(e) \/ FailsAt(e)
    BY <1>1, RestsFit
  <1>2. CASE ~\E e \in Errs : Rests(e) \/ FailsAt(e)
    <2>1. /\ vol' = [vol EXCEPT !.free_cnt = (vol.free_cnt + 1) % CountMod] /\ faults' = faults
          /\ \/ call.next = EOC /\ Goto("flush") /\ call' = [call EXCEPT !.then = "rmEntry"]
             \/ call.next # EOC /\ Goto("rmGet") /\ call' = [call EXCEPT !.clust = call.next]
      BY <1>2 DEF RmMoves, Errs
    <2>2. vol' \in VolSet /\ vol'.dirty
      <3>1. (vol.free_cnt + 1) % CountMod \in 0 .. (CountMod - 1)  BY <1>0, CountFits DEF VolSet
      <3> QED BY <1>0, <2>1, <3>1 DEF VolSet
    <2>3. CASE call.next = EOC /\ Goto("flush") /\ call' = [call EXCEPT !.then = "rmEntry"]
      <3>1. call' \in CallSet /\ call'.op = call.op /\ call'.f = call.f /\ call'.then = "rmEntry"
        BY <1>0, <2>3, NewThen
      <3>2. /\ pc' = "flush" /\ faults' \in 0 .. MaxFaults /\ torn' \in BOOLEAN /\ res'.err \in Errs
        BY <2>1, <2>3, GoesFit
      <3> QED BY <1>0, <2>2, <3>1, <3>2 DEF CallFits
    <2>4. CASE call.next # EOC /\ Goto("rmGet") /\ call' = [call EXCEPT !.clust = call.next]
      <3>1. /\ call' \in CallSet /\ call'.op = call.op /\ call'.f = call.f /\ call'.then = call.then
            /\ call'.clust \in Clusters
        BY <1>0, <2>4, NewClust
      <3>2. /\ pc' = "rmGet" /\ faults' \in 0 .. MaxFaults /\ torn' \in BOOLEAN /\ res'.err \in Errs
        BY <2>1, <2>4, GoesFit
      <3> QED BY <1>0, <2>2, <3>1, <3>2 DEF CallFits
    <2> QED BY <2>1, <2>3, <2>4
  <1> QED BY <1>1, <1>2

(* sync_fs has returned. *)
LEMMA SyncedKeepsCall ==
    ASSUME CallFits, Syncing, Synced, vol' \in VolSet, ~vol'.dirty, faults' = faults
    PROVE  CallFits'
  <1>0. call \in CallSet /\ call.then \in {"return", "add", "rmEntry"}  BY DEF CallFits, CallSet
  <1>1. CASE call.then = "return"
    <2>1. Return("NONE")  BY <1>1 DEF Synced
    <2>2. pc' = "idle" /\ call' = NoCall /\ res'.err \in Errs  BY <2>1 DEF Return, Errs
    <2>3. torn' \in BOOLEAN  BY <2>1 DEF Return, CallFits
    <2>4. faults' \in 0 .. MaxFaults  BY DEF CallFits
    <2> QED BY <2>2, <2>3, <2>4, NoCallFits
            DEF CallFits, Pcs, Stretching, Linking, Freeing, Syncing, Ready
  <1>2. CASE call.then # "return"
    <2>1. Goto(call.then) /\ call' = [call EXCEPT !.then = "return"]  BY <1>2 DEF Synced
    <2>2. /\ call' \in CallSet /\ call'.clust = call.clust /\ call'.op = call.op /\ call'.f = call.f
          /\ call'.then = "return"
      BY <1>0, <2>1, NewThen
    <2>3. /\ pc' = call.then /\ faults' \in 0 .. MaxFaults /\ torn' \in BOOLEAN /\ res'.err \in Errs
      BY <2>1, GoesFit
    <2>4. /\ call.then = "add" => call.op = "create" /\ call.clust \in Clusters
          /\ call.then = "rmEntry" => call.op = "unlink"
          /\ call.then # "return" => call.f \in Files
      BY <1>0 DEF CallFits, Ready, Syncing
    <2> QED BY <1>0, <1>2, <2>2, <2>3, <2>4
            DEF CallFits, Pcs, Stretching, Linking, Freeing, Syncing, Ready
  <1> QED BY <1>1, <1>2

LEMMA FlushKeepsCall == ASSUME CallFits, FlushMoves PROVE CallFits'
  <1> USE DEF Pcs, Stretching, Linking, Freeing, Syncing, Ready
  <1>1. CASE \E e \in Errs : Rests(e) \/ FailsAt(e)
    BY <1>1, RestsFit
  <1>2. CASE vol.dirty /\ Goto("info") /\ UNCHANGED <<vol, call, faults>>
    <2>1. /\ pc' = "info" /\ faults' \in 0 .. MaxFaults /\ torn' \in BOOLEAN /\ res'.err \in Errs
      BY <1>2, GoesFit
    <2>2. pc = "flush"  BY DEF FlushMoves
    <2> QED BY <1>2, <2>1, <2>2 DEF CallFits
  <1>3. CASE ~vol.dirty /\ Synced /\ UNCHANGED <<vol, faults>>
    <2>1. Syncing /\ vol' \in VolSet /\ ~vol'.dirty  BY <1>3 DEF FlushMoves, CallFits
    <2> QED BY <1>3, <2>1, SyncedKeepsCall
  <1> QED BY <1>1, <1>2, <1>3 DEF FlushMoves, Errs

LEMMA InfoKeepsCall == ASSUME CallFits, InfoMoves PROVE CallFits'
  <1> USE DEF Pcs, Stretching, Linking, Freeing, Syncing, Ready
  <1>1. CASE \E e \in Errs : Rests(e) \/ FailsAt(e)
    BY <1>1, RestsFit
  <1>2. CASE Goto("infoFlush") /\ UNCHANGED <<vol, call, faults>>
    <2>1. /\ pc' = "infoFlush" /\ faults' \in 0 .. MaxFaults /\ torn' \in BOOLEAN /\ res'.err \in Errs
      BY <1>2, GoesFit
    <2>2. pc = "info"  BY DEF InfoMoves
    <2> QED BY <1>2, <2>1, <2>2 DEF CallFits
  <1> QED BY <1>1, <1>2 DEF InfoMoves, Errs

LEMMA InfoFlushKeepsCall == ASSUME CallFits, InfoFlushMoves PROVE CallFits'
  <1>1. CASE \E e \in Errs : Rests(e) \/ FailsAt(e)
    BY <1>1, RestsFit
  <1>2. CASE vol' = [vol EXCEPT !.dirty = FALSE] /\ Synced /\ UNCHANGED faults
    <2>1. vol' \in VolSet /\ ~vol'.dirty
      <3>1. FALSE \in BOOLEAN /\ vol \in VolSet  BY DEF CallFits
      <3> QED BY <1>2, <3>1, NewDirty
    <2>2. Syncing  BY DEF InfoFlushMoves, Syncing
    <2> QED BY <1>2, <2>1, <2>2, SyncedKeepsCall
  <1> QED BY <1>1, <1>2 DEF InfoFlushMoves, Errs

LEMMA EntryKeepsCall == ASSUME CallFits, AddMoves \/ RmEntryMoves \/ TouchMoves PROVE CallFits'
  <1> USE DEF Pcs, Stretching, Linking, Freeing, Syncing, Ready
  <1>1. CASE \E e \in Errs : Rests(e) \/ FailsAt(e)
    BY <1>1, RestsFit
  <1>2. CASE Return("NONE") /\ UNCHANGED <<vol, faults>>
    <2>1. "NONE" \in Errs /\ faults' \in 0 .. MaxFaults  BY <1>2 DEF Errs, CallFits
    <2> QED BY <1>2, <2>1, ReturnsFit
  <1>3. CASE Goto("flush") /\ UNCHANGED <<vol, call, faults>> /\ pc \in {"rmEntry", "touch"}
    <2>1. /\ pc' = "flush" /\ faults' \in 0 .. MaxFaults /\ torn' \in BOOLEAN /\ res'.err \in Errs
      BY <1>3, GoesFit
    <2>2. call.op \in {"unlink", "close"}
      BY <1>3 DEF CallFits
    <2> QED BY <1>3, <2>1, <2>2 DEF CallFits
  <1> QED BY <1>1, <1>2, <1>3 DEF AddMoves, RmEntryMoves, TouchMoves, Errs

LEMMA CrashKeepsCall == ASSUME MediumFits, CallFits, CrashMoves PROVE CallFits'
  <1>1. vol' \in VolSet
    <2>1. InfoOnDisk["next_free"] \in Clusters /\ InfoOnDisk["free_cnt"] \in 0 .. (CountMod - 1)
      BY ViewTypes DEF InfoVals
    <2> QED BY <2>1 DEF CrashMoves, VolSet
  <1>2. faults' \in 0 .. MaxFaults  BY Constants DEF CallFits, CrashMoves
  <1>3. torn' \in BOOLEAN  BY DEF CrashMoves, CallFits
  <1>4. pc' \in {"idle", "dead"} /\ call' = NoCall /\ res'.err \in Errs  BY DEF CrashMoves, Errs
  <1> QED BY <1>1, <1>2, <1>3, <1>4, NoCallFits
          DEF CallFits, Pcs, Stretching, Linking, Freeing, Syncing, Ready

LEMMA MovesKeepCall == ASSUME MediumFits, CallFits, Moves PROVE CallFits'
  BY BeginsKeepsCall, FindKeepsCall, WalkKeepsCall, NearKeepsCall, ScanKeepsCall, MirrorKeepsCall,
     EocKeepsCall, LinkKeepsCall, RmGetKeepsCall, RmKeepsCall, FlushKeepsCall, InfoKeepsCall,
     InfoFlushKeepsCall, EntryKeepsCall, CrashKeepsCall DEF Moves, CallMoves
-----------------------------------------------------------------------------
(* The counters.  Unless they have changed since, FSINFO has them; and a   *)
(* chain is complete on the medium before its entry is added.              *)
Counted == ~vol.dirty \/ pc = "infoFlush" => InfoView["free_cnt"] = vol.free_cnt
Flushed == pc = "add" /\ ~torn => Clean

LEMMA DirtyWhenOpen ==
    ASSUME CallFits, pc \in {"eoc", "link", "rm", "near", "scan"} PROVE vol.dirty
  BY DEF CallFits, Stretching, Freeing

LEMMA CountedKeeps == ASSUME MediumFits, CallFits, Counted, Moves PROVE Counted'
  <1> USE DEF Counted
  <1>0. vol \in VolSet  BY DEF CallFits
  <1>1. ASSUME NEW e, Rests(e) \/ FailsAt(e) PROVE Counted'
    BY <1>1 DEF Rests, FailsAt, Return, Looks, SameView
  <1>2. ASSUME SameView, vol' = vol, pc' # "infoFlush" PROVE Counted'
    BY <1>2 DEF SameView
  <1>3. ASSUME SameView, vol' = [vol EXCEPT !.dirty = TRUE], pc' # "infoFlush" PROVE Counted'
    BY <1>0, <1>3 DEF VolSet
  <1>4. CASE Begins
    BY <1>2, <1>4 DEF Begins, Looks
  <1>5. CASE FindMoves
    BY <1>1, <1>2, <1>3, <1>5 DEF FindMoves, GoesOn, Goto, Looks
  <1>6. CASE WalkMoves
    BY <1>1, <1>2, <1>3, <1>6 DEF WalkMoves, GoesOn, Goto, Looks
  <1>7. CASE NearMoves
    BY <1>1, <1>2, <1>7, FirstPuts DEF NearMoves, GoesOn, Goto, Looks
  <1>8. CASE ScanMoves
    BY <1>1, <1>2, <1>8, FirstPuts DEF ScanMoves, GoesOn, Goto, Looks
  <1>9. ASSUME NEW p \in Puts, MirrorMoves(p) PROVE Counted'
    BY <1>1, <1>9 DEF MirrorMoves, Goto, PutsMir, Puts
  <1>10. CASE EocMoves
    <2>1. vol.dirty /\ call.clust \in Clusters /\ call.op \in {"create", "extend"}
      BY <1>10 DEF EocMoves, CallFits, Stretching
    <2>2. Allocated => vol'.dirty /\ pc' = "flush"  BY <2>1, AllocatedFits
    <2> QED BY <1>1, <1>10, <2>1, <2>2, FirstPuts DEF EocMoves, Goto
  <1>11. CASE LinkMoves
    <2>1. vol.dirty /\ call.clust \in Clusters /\ call.op \in {"create", "extend"}
      BY <1>11 DEF LinkMoves, CallFits, Stretching
    <2>2. Allocated => vol'.dirty /\ pc' = "flush"  BY <2>1, AllocatedFits
    <2> QED BY <1>1, <1>11, <2>2 DEF LinkMoves
  <1>12. CASE RmGetMoves
    BY <1>1, <1>2, <1>12, FirstPuts DEF RmGetMoves, GoesOn, Goto, Looks
  <1>13. CASE RmMoves
    <2>1. vol.dirty  BY <1>13, DirtyWhenOpen DEF RmMoves
    <2>2. \/ FailsAt("IO")
          \/ vol'.dirty = vol.dirty /\ pc' \in {"flush", "rmGet"}
      BY <1>0, <1>13 DEF RmMoves, Goto, VolSet
    <2> QED BY <1>1, <2>1, <2>2
  <1>14. CASE FlushMoves
    <2>1. Synced => pc' # "infoFlush"
      BY DEF Synced, Return, Goto, CallFits, CallSet
    <2> QED BY <1>1, <1>2, <1>14, <2>1 DEF FlushMoves, Goto, Looks
  <1>15. CASE InfoMoves
    BY <1>1, <1>15 DEF InfoMoves, PutsInfo
  <1>16. CASE InfoFlushMoves
    BY <1>0, <1>1, <1>16 DEF InfoFlushMoves, Looks, SameView, VolSet
  <1>17. CASE AddMoves
    BY <1>1, <1>17 DEF AddMoves, PutsDir, Return
  <1>18. CASE RmEntryMoves
    BY <1>1, <1>18 DEF RmEntryMoves, PutsDir, Goto
  <1>19. CASE TouchMoves
    BY <1>1, <1>19 DEF TouchMoves, PutsDir, Goto
  <1>20. CASE CrashMoves
    BY <1>20 DEF CrashMoves
  <1> QED BY <1>4, <1>5, <1>6, <1>7, <1>8, <1>9, <1>10, <1>11, <1>12, <1>13, <1>14, <1>15, <1>16,
             <1>17, <1>18, <1>19, <1>20 DEF Moves, CallMoves

LEMMA FlushedKeeps == ASSUME CallFits, Moves PROVE Flushed'
  <1>1. CASE FlushMoves \/ InfoFlushMoves
    BY <1>1 DEF FlushMoves, InfoFlushMoves, Flushed, FailsAt, Return
  <1>2. CASE ~(FlushMoves \/ InfoFlushMoves)
    <2>1. pc' = "add" => torn'
      BY <1>2, FirstPuts DEF Moves, CallMoves, Begins, FindMoves, WalkMoves, NearMoves, ScanMoves, EocMoves, LinkMoves,
         MirrorMoves, RmGetMoves, RmMoves, InfoMoves, AddMoves, RmEntryMoves, TouchMoves, CrashMoves,
         Rests, FailsAt, GoesOn, Return, Goto, Allocated, Puts
    <2> QED BY <2>1 DEF Flushed
  <1> QED BY <1>1, <1>2

(* A call that returns success without synchronising is a create.          *)
LEMMA DurableKeeps ==
    ASSUME MediumFits, CallFits, Counted, SyncIsDurable, Moves PROVE SyncIsDurable'
  <1> USE DEF SyncIsDurable
  <1>1. ASSUME NEW e, e # "NONE", Return(e) PROVE SyncIsDurable'
    BY <1>1 DEF Return
  <1>2. ASSUME Return("NONE"), call.op = "create" PROVE SyncIsDurable'
    BY <1>2 DEF Return
  <1>3. ASSUME pc' # "idle" PROVE SyncIsDurable'
    BY <1>3
  <1>4. ASSUME Looks, Clean', ~vol'.dirty, vol'.free_cnt = vol.free_cnt,
               ~vol.dirty \/ pc = "infoFlush"
        PROVE  SyncIsDurable'
    <2>1. \A s \in Sects : View(s)' = disk'[s]  BY <1>4 DEF Clean
    <2>2. disk'[InfoSect] = InfoView  BY <1>4, <2>1, SectorsFit DEF Looks, SameView, InfoView
    <2>3. InfoView["free_cnt"] = vol.free_cnt  BY <1>4 DEF Counted
    <2> QED BY <1>4, <2>1, <2>2, <2>3
  <1>5. CASE FlushMoves
    <2>1. FailsAt("IO") => SyncIsDurable'  BY <1>1 DEF FailsAt
    <2> QED BY <1>3, <1>4, <1>5, <2>1 DEF FlushMoves, Goto
  <1>6. CASE InfoFlushMoves
    <2>1. FailsAt("IO") => SyncIsDurable'  BY <1>1 DEF FailsAt
    <2>2. vol' = [vol EXCEPT !.dirty = FALSE] => ~vol'.dirty /\ vol'.free_cnt = vol.free_cnt
      BY DEF CallFits, VolSet
    <2> QED BY <1>4, <1>6, <2>1, <2>2 DEF InfoFlushMoves
  <1>7. CASE CrashMoves
    BY <1>7 DEF CrashMoves
  <1>8. CASE Begins
    BY <1>8 DEF Begins
  <1>9. CASE FindMoves
    BY <1>1, <1>2, <1>3, <1>9 DEF FindMoves, Rests, FailsAt, GoesOn, Goto
  <1>10. CASE AddMoves
    <2>1. call.op = "create"  BY <1>10 DEF AddMoves, CallFits
    <2> QED BY <1>1, <1>2, <1>10, <2>1 DEF AddMoves, FailsAt
  <1>11. CASE \/ WalkMoves \/ NearMoves \/ ScanMoves \/ EocMoves \/ LinkMoves
              \/ \E p \in Puts : MirrorMoves(p)
              \/ RmGetMoves \/ RmMoves \/ InfoMoves \/ RmEntryMoves \/ TouchMoves
    <2>1. pc' # "idle" \/ \E e : e # "NONE" /\ Return(e)
      BY <1>11, FirstPuts DEF WalkMoves, NearMoves, ScanMoves, EocMoves, LinkMoves, MirrorMoves, Puts,
         RmGetMoves, RmMoves, InfoMoves, RmEntryMoves, TouchMoves, Rests, FailsAt, GoesOn, Goto, Allocated
    <2> QED BY <1>1, <1>3, <2>1
  <1> QED BY <1>5, <1>6, <1>7, <1>8, <1>9, <1>10, <1>11 DEF Moves, CallMoves
-----------------------------------------------------------------------------
(* What the scan for a free cluster has passed.                *)
Behind(last, c, x) == IF last <= c THEN last < x /\ x <= c ELSE x > last \/ x <= c
Passed == pc = "scan" =>
            \A x \in Clusters : Behind(vol.last_used, call.clust, x) => ActView[x] # FREE

(* One step of the scan, and its end. *)
LEMMA ScanStep ==
    ASSUME NEW last \in Clusters, NEW c \in Clusters, NEW x \in Clusters
    PROVE  /\ ~Behind(last, last, x)
           /\ NextClust(c) # last /\ Behind(last, NextClust(c), x) => Behind(last, c, x) \/ x = NextClust(c)
           /\ NextClust(c) = last /\ x # last => Behind(last, c, x)
  BY Constants DEF Clusters, NextClust, Behind

LEMMA PassedKeeps == ASSUME MediumFits, CallFits, Passed, Moves PROVE Passed'
  <1> SUFFICES ASSUME pc' = "scan", NEW x \in Clusters, Behind(vol'.last_used, call'.clust, x)
               PROVE  ActView'[x] # FREE
    BY DEF Passed
  <1>0. vol \in VolSet /\ vol.last_used \in Clusters /\ call \in CallSet  BY DEF CallFits, VolSet
  <1>1. FindMoves \/ NearMoves \/ ScanMoves
    BY FirstPuts DEF Moves, CallMoves, Begins, WalkMoves, EocMoves, LinkMoves,
       MirrorMoves, RmGetMoves, RmMoves, FlushMoves, InfoMoves, InfoFlushMoves, AddMoves, RmEntryMoves,
       TouchMoves, CrashMoves, Rests, FailsAt, GoesOn, Return, Goto, Allocated, Puts, Synced, CallFits, CallSet
  <1>2. CASE FindMoves
    <2>1. vol' = [vol EXCEPT !.dirty = TRUE] /\ call' = [call EXCEPT !.clust = vol.last_used]
      BY <1>2 DEF FindMoves, GoesOn, Goto, Rests, FailsAt, Return
    <2>2. vol'.last_used = vol.last_used /\ call'.clust = vol.last_used
      BY <1>0, <2>1 DEF VolSet, CallSet
    <2> QED BY <1>0, <2>2, ScanStep
  <1>3. CASE NearMoves
    <2>1. vol' = vol /\ call' = [call EXCEPT !.clust = vol.last_used]
      BY <1>3, FirstPuts DEF NearMoves, GoesOn, Goto, Rests, FailsAt, Return
    <2>2. call'.clust = vol.last_used  BY <1>0, <2>1 DEF CallSet
    <2> QED BY <1>0, <2>1, <2>2, ScanStep
  <1>4. CASE ScanMoves
    <2> DEFINE n == NextClust(call.clust)
    <2>1. /\ vol' = vol /\ call' = [call EXCEPT !.clust = n] /\ ActView[n] # FREE
          /\ n # vol.last_used /\ ActView' = ActView /\ pc = "scan"
      BY <1>4, FirstPuts DEF ScanMoves, GoesOn, Goto, Rests, FailsAt, Return, Looks, SameView
    <2>2. call.clust \in Clusters  BY <2>1 DEF CallFits, Stretching
    <2>3. call'.clust = n
      <3> HIDE DEF n
      <3> QED BY <1>0, <2>1 DEF CallSet
    <2>4. Behind(vol.last_used, call.clust, x) \/ x = n  BY <1>0, <2>1, <2>2, <2>3, ScanStep
    <2> QED BY <2>1, <2>4 DEF Passed
  <1> QED BY <1>1, <1>2, <1>3, <1>4

(* When the scan says that the volume is full. *)
LEMMA FullIsFull ==
    ASSUME MediumFits, CallFits, Passed, Moves, res' # res, res'.err = "FULL"
    PROVE  \A c \in Clusters \ {vol.last_used} : ActView[c] # FREE
  <1> DEFINE Other == res' = res \/ res'.err # "FULL"
  <1>a. ASSUME NEW e, Return(e), e # "FULL" PROVE Other
    BY <1>a DEF Return
  <1>b. ASSUME NEW l, Goto(l) PROVE Other
    BY <1>b DEF Goto
  <1>c. ~(FindMoves \/ WalkMoves \/ NearMoves)
    <2>1. FindMoves => Other
      BY <1>a, <1>b DEF FindMoves, Rests, FailsAt, GoesOn
    <2>2. WalkMoves => Other
      BY <1>a, <1>b DEF WalkMoves, Rests, FailsAt, GoesOn
    <2>3. NearMoves => Other
      BY <1>a, <1>b DEF NearMoves, Rests, FailsAt, GoesOn
    <2> QED BY <2>1, <2>2, <2>3
  <1>d. ~(EocMoves \/ LinkMoves \/ (\E p \in Puts : MirrorMoves(p)) \/ RmGetMoves \/ RmMoves)
    <2>1. Allocated => Other
      BY <1>b DEF Allocated
    <2>2. EocMoves \/ LinkMoves \/ (\E p \in Puts : MirrorMoves(p)) => Other
      BY <1>a, <1>b, <2>1 DEF EocMoves, LinkMoves, MirrorMoves, FailsAt
    <2>3. RmGetMoves \/ RmMoves => Other
      BY <1>a, <1>b DEF RmGetMoves, RmMoves, Rests, FailsAt, GoesOn
    <2> QED BY <2>2, <2>3
  <1>e. ~(FlushMoves \/ InfoMoves \/ InfoFlushMoves)
    <2>1. Synced => Other
      BY <1>a, <1>b DEF Synced
    <2> QED BY <1>a, <1>b, <2>1 DEF FlushMoves, InfoMoves, InfoFlushMoves, FailsAt
  <1>f. ~(AddMoves \/ RmEntryMoves \/ TouchMoves)
    BY <1>a, <1>b DEF AddMoves, RmEntryMoves, TouchMoves, FailsAt
  <1>g. ~(Begins \/ CrashMoves)
    <2>a. Begins => res' = NoRes
      BY DEF Begins
    <2>1. Begins => res'.err = "NONE"
      BY <2>a DEF NoRes
    <2>2. CrashMoves => res'.err = "NONE" \/ res'.err = "NOFAT"
      BY DEF CrashMoves
    <2>3. Begins \/ CrashMoves => Other
      BY <2>1, <2>2
    <2> QED BY <2>3
  <1>h. ScanMoves
    BY <1>c, <1>d, <1>e, <1>f, <1>g DEF Moves, CallMoves
  <1>1. pc = "scan" /\ NextClust(call.clust) = vol.last_used
    BY <1>a, <1>b, <1>h DEF ScanMoves, FailsAt, GoesOn
  <1>2. vol.last_used \in Clusters /\ call.clust \in Clusters
    BY <1>1 DEF CallFits, VolSet, Stretching
  <1>3. \A x \in Clusters \ {vol.last_used} : Behind(vol.last_used, call.clust, x)
    BY <1>1, <1>2, ScanStep
  <1> QED BY <1>1, <1>3 DEF Passed
-----------------------------------------------------------------------------
(* The links.  A directory and a FAT fit together: no cluster has two       *)
(* owners, links lead to clusters in use, and nothing leads to the root.    *)
Sound(dir, fat) ==
    /\ \A c, d \in Clusters : fat[c] = fat[d] /\ fat[c] \in Clusters => c = d
    /\ \A f, g \in Files : dir[f] = dir[g] /\ dir[f] # NoEntry => f = g
    /\ \A f \in Files, c \in Clusters : dir[f] # NoEntry => fat[c] # dir[f]
    /\ \A c \in Clusters : fat[c] \in Clusters => fat[fat[c]] \notin {FREE, BAD} /\ fat[c] # RootClust
    /\ \A f \in Files : dir[f] # RootClust
    /\ fat[RootClust] = EOC

Dangles(dir, fat, f) == dir[f] # NoEntry /\ fat[dir[f]] = FREE

(* Nothing leads to cluster c. *)
Fresh(dir, fat, c) == /\ c # RootClust
                      /\ \A f \in Files : dir[f] # c
                      /\ \A d \in Clusters : fat[d] # c

LEMMA SoundEoc ==
    ASSUME NEW dir \in DirVals, NEW fat \in [Clusters -> FatVals], Sound(dir, fat),
           NEW c \in Clusters, fat[c] = FREE, \A f \in Files : ~Dangles(dir, fat, f)
    PROVE  /\ Sound(dir, [fat EXCEPT ![c] = EOC])
           /\ \A f \in Files : ~Dangles(dir, [fat EXCEPT ![c] = EOC], f)
           /\ Fresh(dir, [fat EXCEPT ![c] = EOC], c)
  <1> DEFINE new == [fat EXCEPT ![c] = EOC]
  <1>1. \A d \in Clusters : new[d] = IF d = c THEN EOC ELSE fat[d]  OBVIOUS
  <1>2. c # RootClust /\ RootClust \in Clusters  BY Marks, Constants DEF Sound
  <1>3. \A d \in Clusters : fat[d] # c  BY DEF Sound
  <1>4. \A f \in Files : dir[f] # c  BY Marks DEF Dangles
  <1>5. \A f \in Files : dir[f] # NoEntry => dir[f] \in Clusters  BY DEF DirVals
  <1> HIDE DEF new
  <1>6. Sound(dir, new)
    <2>1. \A a, b \in Clusters : new[a] = new[b] /\ new[a] \in Clusters => a = b
      BY <1>1, Marks DEF Sound
    <2>2. \A f \in Files, a \in Clusters : dir[f] # NoEntry => new[a] # dir[f]
      BY <1>1, <1>5, Marks DEF Sound
    <2>3. \A a \in Clusters : new[a] \in Clusters => new[new[a]] \notin {FREE, BAD} /\ new[a] # RootClust
      BY <1>1, Marks DEF Sound
    <2> QED BY <1>1, <1>2, <2>1, <2>2, <2>3 DEF Sound
  <1>7. \A f \in Files : ~Dangles(dir, new, f)  BY <1>1, <1>5, Marks DEF Dangles
  <1>8. Fresh(dir, new, c)  BY <1>1, <1>2, <1>3, <1>4, Marks DEF Fresh
  <1> QED BY <1>6, <1>7, <1>8 DEF new

LEMMA SoundLink ==
    ASSUME NEW dir \in DirVals, NEW fat \in [Clusters -> FatVals], Sound(dir, fat),
           NEW c \in Clusters, NEW p \in Clusters, fat[c] = EOC, fat[p] = EOC, Fresh(dir, fat, c),
           p # c, p # RootClust
    PROVE  /\ Sound(dir, [fat EXCEPT ![p] = c])
           /\ \A f \in Files : Dangles(dir, [fat EXCEPT ![p] = c], f) <=> Dangles(dir, fat, f)
  <1> DEFINE new == [fat EXCEPT ![p] = c]
  <1>1. \A d \in Clusters : new[d] = IF d = p THEN c ELSE fat[d]  OBVIOUS
  <1>5. \A f \in Files : dir[f] # NoEntry => dir[f] \in Clusters  BY DEF DirVals
  <1>2. RootClust \in Clusters  BY Constants
  <1> HIDE DEF new
  <1>6. Sound(dir, new)
    <2>1. \A a, b \in Clusters : new[a] = new[b] /\ new[a] \in Clusters => a = b
      BY <1>1, Marks DEF Sound, Fresh
    <2>2. \A f \in Files, a \in Clusters : dir[f] # NoEntry => new[a] # dir[f]
      BY <1>1, <1>5, Marks DEF Sound, Fresh
    <2>3. \A a \in Clusters : new[a] \in Clusters => new[new[a]] \notin {FREE, BAD} /\ new[a] # RootClust
      BY <1>1, Marks DEF Sound, Fresh
    <2> QED BY <1>1, <1>2, <2>1, <2>2, <2>3 DEF Sound
  <1>7. \A f \in Files : Dangles(dir, new, f) <=> Dangles(dir, fat, f)
    BY <1>1, <1>5, Marks DEF Dangles
  <1> QED BY <1>6, <1>7 DEF new

LEMMA SoundFree ==
    ASSUME NEW dir \in DirVals, NEW fat \in [Clusters -> FatVals], Sound(dir, fat),
           NEW c \in Clusters, c # RootClust, \A d \in Clusters : fat[d] # c
    PROVE  /\ Sound(dir, [fat EXCEPT ![c] = FREE])
           /\ \A f \in Files : Dangles(dir, fat, f) => Dangles(dir, [fat EXCEPT ![c] = FREE], f)
           /\ \A f \in Files : Dangles(dir, [fat EXCEPT ![c] = FREE], f) =>
                 Dangles(dir, fat, f) \/ dir[f] = c
           /\ \A f \in Files : dir[f] = c => Dangles(dir, [fat EXCEPT ![c] = FREE], f)
  <1> DEFINE new == [fat EXCEPT ![c] = FREE]
  <1>1. \A d \in Clusters : new[d] = IF d = c THEN FREE ELSE fat[d]  OBVIOUS
  <1>5. \A f \in Files : dir[f] # NoEntry => dir[f] \in Clusters  BY DEF DirVals
  <1>2. RootClust \in Clusters  BY Constants
  <1> HIDE DEF new
  <1>6. Sound(dir, new)
    <2>1. \A a, b \in Clusters : new[a] = new[b] /\ new[a] \in Clusters => a = b
      BY <1>1, Marks DEF Sound
    <2>2. \A f \in Files, a \in Clusters : dir[f] # NoEntry => new[a] # dir[f]
      BY <1>1, <1>5, Marks DEF Sound
    <2>3. \A a \in Clusters : new[a] \in Clusters => new[new[a]] \notin {FREE, BAD} /\ new[a] # RootClust
      BY <1>1, Marks DEF Sound
    <2> QED BY <1>1, <1>2, <2>1, <2>2, <2>3 DEF Sound
  <1>7. \A f \in Files : /\ Dangles(dir, fat, f) => Dangles(dir, new, f)
                         /\ Dangles(dir, new, f) => Dangles(dir, fat, f) \/ dir[f] = c
                         /\ dir[f] = c => Dangles(dir, new, f)
    BY <1>1, <1>5, Marks DEF Dangles
  <1> QED BY <1>6, <1>7 DEF new

LEMMA SoundEntry ==
    ASSUME NEW dir \in DirVals, NEW fat \in [Clusters -> FatVals], Sound(dir, fat),
           NEW f \in Files, NEW v \in {NoEntry} \cup Clusters,
           v # NoEntry => Fresh(dir, fat, v) /\ fat[v] # FREE
    PROVE  /\ Sound([dir EXCEPT ![f] = v], fat)
           /\ \A g \in Files : Dangles([dir EXCEPT ![f] = v], fat, g) <=> g # f /\ Dangles(dir, fat, g)
  <1> DEFINE new == [dir EXCEPT ![f] = v]
  <1>1. \A g \in Files : new[g] = IF g = f THEN v ELSE dir[g]  BY DEF DirVals
  <1>2. RootClust \in Clusters /\ NoEntry # RootClust  BY Constants, Marks
  <1> HIDE DEF new
  <1>6. Sound(new, fat)  BY <1>1, <1>2 DEF Sound, Fresh
  <1>7. \A g \in Files : Dangles(new, fat, g) <=> g # f /\ Dangles(dir, fat, g)
    BY <1>1 DEF Dangles
  <1> QED BY <1>6, <1>7 DEF new
-----------------------------------------------------------------------------
(* An entry may dangle only while the call that unlinks it runs, and on the *)
(* medium only until its removal gets there.                                *)
Entries ==
    /\ Sound(DirView, ActView) /\ Sound(DirOnDisk, FatOnDisk)
    /\ \A f \in Files : Dangles(DirOnDisk, FatOnDisk, f) =>
            DirView[f] = NoEntry \/ Dangles(DirView, ActView, f)
Unlinking == \A f \in Files : Dangles(DirView, ActView, f) => Removing /\ call.f = f

(* What the running call knows of the clusters it holds. *)
InHand ==
    /\ pc = "walk" => call.clust # RootClust
    /\ pc \in {"eocM", "eoc"} => ActView[call.clust] = FREE
    /\ Stretching /\ call.prev # 0 => ActView[call.prev] = EOC /\ call.prev # RootClust
    /\ Linking => call.prev # call.clust
    /\ Linking \/ Ready => /\ ActView[call.clust] = EOC
                           /\ Fresh(DirView, ActView, call.clust)
    /\ Freeing => /\ call.clust # RootClust /\ \A d \in Clusters : ActView[d] # call.clust
                  /\ \A f \in Files : DirView[f] = call.clust => f = call.f
                  /\ DirView[call.f] # NoEntry
                  /\ DirView[call.f] = call.clust \/ Dangles(DirView, ActView, call.f)
    /\ pc \in {"rmM", "rm"} => call.next = ActView[call.clust]
    /\ Removing /\ ~Freeing => Dangles(DirView, ActView, call.f)
    /\ call.op = "create" /\ pc # "find" => DirView[call.f] = NoEntry

Whole == Entries /\ Unlinking /\ InHand

(* Of the four things, these two matter here.                              *)
Calm == /\ ActView' = ActView /\ DirView' = DirView
        /\ \/ FatOnDisk' = FatOnDisk /\ DirOnDisk' = DirOnDisk
           \/ FatOnDisk' = ActView /\ DirOnDisk' = DirView

LEMMA CalmSteps ==
    /\ Looks => Calm
    /\ PutsInfo => Calm
    /\ \A c, v : PutsMir(c, v) => Calm
  BY DEF Calm, Looks, SameView, Stays, Settles, PutsInfo, PutsMir

LEMMA CalmEntries == ASSUME Entries, Calm PROVE Entries'
  <1>1. CASE FatOnDisk' = FatOnDisk /\ DirOnDisk' = DirOnDisk
    BY <1>1 DEF Calm, Entries, Sound, Dangles
  <1>2. CASE FatOnDisk' = ActView /\ DirOnDisk' = DirView
    BY <1>2 DEF Calm, Entries, Sound, Dangles
  <1> QED BY <1>1, <1>2 DEF Calm

LEMMA NotRemoving ==
    ASSUME Unlinking, ~Removing PROVE \A f \in Files : ~Dangles(DirView, ActView, f)
  BY DEF Unlinking

(* A call that returns: with an error it leaves no entry behind that       *)
(* dangles, or torn says so.                                               *)
LEMMA ReturnsWhole ==
    ASSUME NEW e, Return(e), Entries', ~torn',
           e # "NONE" \/ \A f \in Files : ~Dangles(DirView, ActView, f)'
    PROVE  Whole'
  <1>1. pc' = "idle" /\ call' = NoCall  BY DEF Return
  <1>2. \A f \in Files : ~Dangles(DirView, ActView, f)'
    <2>1. e # "NONE" => ~Dangling'  BY DEF Return
    <2>2. Dangling' <=> \E f \in Files : Dangles(DirView, ActView, f)'
      BY DEF Dangling, Dangles, ActView
    <2> QED BY <2>1, <2>2
  <1>3. Unlinking'  BY <1>2 DEF Unlinking
  <1>4. InHand'
    BY <1>1 DEF InHand, NoCall, Stretching, Linking, Freeing, Syncing, Ready, Removing
  <1> QED BY <1>3, <1>4 DEF Whole

LEMMA RestsWhole ==
    ASSUME Whole, NEW e, Rests(e) \/ FailsAt(e), ~torn', e # "NONE" \/ ~Removing
    PROVE  Whole'
  <1>1. Entries' /\ Return(e) /\ Calm
    BY CalmSteps, CalmEntries DEF Whole, Rests, FailsAt
  <1>2. ~Removing => \A f \in Files : ~Dangles(DirView, ActView, f)'
    <2>1. ActView' = ActView /\ DirView' = DirView  BY <1>1 DEF Calm
    <2> QED BY <2>1, NotRemoving DEF Whole, Dangles
  <1> QED BY <1>1, <1>2, ReturnsWhole

(* A step that goes on within the call. *)
LEMMA CalmWhole ==
    ASSUME Whole, Calm, InHand', Removing <=> Removing', call'.f = call.f \/ ~Removing
    PROVE  Whole'
  <1>1. Entries'  BY CalmEntries DEF Whole
  <1>2. Unlinking'  BY DEF Whole, Unlinking, Calm, Dangles
  <1> QED BY <1>1, <1>2 DEF Whole
-----------------------------------------------------------------------------
LEMMA BeginsWhole == ASSUME CallFits, Whole, Begins PROVE Whole'
  <1>1. pc = "idle" /\ Calm  BY CalmSteps DEF Begins
  <1>2. ~Removing
    BY <1>1 DEF Removing, Freeing, Syncing
  <1>3. pc' \in {"touch", "find", "flush"}  BY DEF Begins
  <1>4. /\ call'.then = "return" /\ call'.prev = 0
        /\ pc' = "flush" => call'.op = "sync"
        /\ pc' = "touch" => call'.op = "close"
    <2>1. CASE \E op \in Ops \ {"sync"}, f \in Files : call' = [NoCall EXCEPT !.op = op, !.f = f]
      BY <2>1 DEF Begins, NoCall
    <2>2. CASE call' = [NoCall EXCEPT !.op = "sync"] /\ pc' = "flush"
      BY <2>2 DEF NoCall
    <2> QED BY <2>1, <2>2 DEF Begins
  <1>5. ~Removing' /\ ~Stretching' /\ ~Freeing' /\ ~Ready' /\ ~Linking'
    BY <1>3, <1>4 DEF Removing, Freeing, Syncing, Stretching, Ready, Linking
  <1>6. InHand'
    BY <1>3, <1>4, <1>5 DEF InHand
  <1> QED BY <1>1, <1>2, <1>5, <1>6, CalmWhole

LEMMA FindWhole == ASSUME MediumFits, CallFits, Whole, FindMoves, ~torn' PROVE Whole'
  <1> USE DEF Removing, Freeing, Syncing, Stretching, Ready, Linking
  <1>0. pc = "find" /\ ~Removing /\ call \in CallSet /\ call.f \in Files /\ call.prev = 0
        /\ DirView \in DirVals /\ call.op \in {"create", "extend", "unlink"} /\ vol.last_used \in Clusters
    BY ViewTypes DEF FindMoves, CallFits, VolSet
  <1>1. CASE \E e \in Errs : Rests(e) \/ FailsAt(e)
    BY <1>0, <1>1, RestsWhole
  <1>2. CASE /\ call.op = "create" /\ DirView[call.f] = NoEntry /\ GoesOn("scan")
             /\ call' = [call EXCEPT !.clust = vol.last_used]
    <2>1. call'.op = "create" /\ call'.f = call.f /\ call'.prev = 0 /\ call'.then = call.then
      BY <1>0, <1>2 DEF CallSet
    <2>2. Calm /\ pc' = "scan"  BY <1>2, CalmSteps DEF GoesOn, Goto
    <2>3. InHand'  BY <1>2, <2>1, <2>2 DEF InHand, Calm
    <2> QED BY <1>0, <2>1, <2>2, <2>3, CalmWhole
  <1>3. CASE /\ call.op = "extend" /\ DirView[call.f] # NoEntry /\ GoesOn("walk")
             /\ call' = [call EXCEPT !.clust = DirView[call.f]]
    <2> DEFINE c == DirView[call.f]
    <2>1. c \in Clusters /\ c # RootClust /\ call' = [call EXCEPT !.clust = c]
      BY <1>0, <1>3 DEF DirVals, Whole, Entries, Sound
    <2> HIDE DEF c
    <2>2. call'.clust = c /\ call'.op = "extend" /\ call'.f = call.f
      BY <1>0, <1>3, <2>1 DEF CallSet
    <2>3. Calm /\ pc' = "walk"  BY <1>3, CalmSteps DEF GoesOn, Goto
    <2>4. InHand'  BY <2>1, <2>2, <2>3 DEF InHand
    <2> QED BY <1>0, <2>2, <2>3, <2>4, CalmWhole
  <1>4. CASE /\ call.op = "unlink" /\ DirView[call.f] # NoEntry /\ GoesOn("rmGet")
             /\ call' = [call EXCEPT !.clust = DirView[call.f]]
    <2> DEFINE c == DirView[call.f]
    <2>1. c \in Clusters /\ c # RootClust /\ call' = [call EXCEPT !.clust = c]
          /\ (\A d \in Clusters : ActView[d] # c) /\ c = DirView[call.f] /\ c # NoEntry
          /\ \A f \in Files : DirView[f] = c => f = call.f
      BY <1>0, <1>4 DEF DirVals, Whole, Entries, Sound
    <2> HIDE DEF c
    <2>2. call'.clust = c /\ call'.op = "unlink" /\ call'.f = call.f
      BY <1>0, <1>4, <2>1 DEF CallSet
    <2>3. Calm /\ pc' = "rmGet"  BY <1>4, CalmSteps DEF GoesOn, Goto
    <2>4. InHand'  BY <2>1, <2>2, <2>3 DEF InHand, Calm
    <2>5. Entries'  BY <2>3, CalmEntries DEF Whole
    <2>6. Unlinking'  BY <1>0, <2>3, NotRemoving DEF Whole, Unlinking, Calm, Dangles
    <2> QED BY <2>4, <2>5, <2>6 DEF Whole
  <1> QED BY <1>1, <1>2, <1>3, <1>4 DEF FindMoves, Errs

LEMMA WalkWhole == ASSUME MediumFits, CallFits, Whole, WalkMoves, ~torn' PROVE Whole'
  <1> USE DEF Removing, Freeing, Syncing, Stretching, Ready, Linking
  <1>0. pc = "walk" /\ ~Removing /\ call \in CallSet /\ call.f \in Files /\ call.op = "extend"
        /\ call.clust \in Clusters /\ call.clust # RootClust
    BY DEF WalkMoves, CallFits, Whole, InHand
  <1>1. CASE \E e \in Errs : Rests(e) \/ FailsAt(e)
    BY <1>0, <1>1, RestsWhole
  <1>2. CASE /\ ActView[call.clust] = EOC /\ GoesOn("near")
             /\ call' = [call EXCEPT !.prev = call.clust, !.clust = NextClust(call.clust)]
    <2> DEFINE n == NextClust(call.clust)
    <2>1. n \in Clusters /\ call' = [call EXCEPT !.prev = call.clust, !.clust = n]
      BY <1>0, <1>2, NextFits
    <2> HIDE DEF n
    <2>2. call'.clust = n /\ call'.prev = call.clust /\ call'.op = "extend" /\ call'.f = call.f
      BY <1>0, <2>1 DEF CallSet
    <2>3. Calm /\ pc' = "near"  BY <1>2, CalmSteps DEF GoesOn, Goto
    <2>4. InHand'  BY <1>0, <1>2, <2>1, <2>2, <2>3 DEF InHand, Calm
    <2> QED BY <1>0, <2>2, <2>3, <2>4, CalmWhole
  <1>3. CASE /\ ActView[call.clust] \in Clusters /\ GoesOn("walk")
             /\ call' = [call EXCEPT !.clust = ActView[call.clust]]
    <2> DEFINE n == ActView[call.clust]
    <2>1. n \in Clusters /\ n # RootClust /\ call' = [call EXCEPT !.clust = n]
      BY <1>0, <1>3 DEF Whole, Entries, Sound
    <2> HIDE DEF n
    <2>2. call'.clust = n /\ call'.op = "extend" /\ call'.f = call.f
      BY <1>0, <2>1 DEF CallSet
    <2>3. Calm /\ pc' = "walk"  BY <1>3, CalmSteps DEF GoesOn, Goto
    <2>4. InHand'  BY <2>1, <2>2, <2>3 DEF InHand
    <2> QED BY <1>0, <2>2, <2>3, <2>4, CalmWhole
  <1> QED BY <1>1, <1>2, <1>3 DEF WalkMoves, Errs

LEMMA NearWhole == ASSUME MediumFits, CallFits, Whole, NearMoves, ~torn' PROVE Whole'
  <1> USE DEF Removing, Freeing, Syncing, Stretching, Ready, Linking
  <1>0. pc = "near" /\ ~Removing /\ call \in CallSet /\ call.f \in Files /\ call.op \in {"create", "extend"}
        /\ call.clust \in Clusters /\ vol.last_used \in Clusters
    BY DEF NearMoves, CallFits, VolSet
  <1>1. CASE \E e \in Errs : Rests(e) \/ FailsAt(e)
    BY <1>0, <1>1, RestsWhole
  <1>2. CASE ActView[call.clust] = FREE /\ GoesOn(FirstPut("eoc")) /\ UNCHANGED call
    <2>1. Calm /\ pc' \in {"eocM", "eoc"}  BY <1>2, CalmSteps, FirstPuts DEF GoesOn, Goto
    <2>2. InHand'  BY <1>0, <1>2, <2>1 DEF Whole, InHand, Calm
    <2> QED BY <1>0, <1>2, <2>1, <2>2, CalmWhole
  <1>3. CASE GoesOn("scan") /\ call' = [call EXCEPT !.clust = vol.last_used]
    <2>1. call'.op = call.op /\ call'.f = call.f /\ call'.prev = call.prev
      BY <1>0, <1>3 DEF CallSet
    <2>2. Calm /\ pc' = "scan"  BY <1>3, CalmSteps DEF GoesOn, Goto
    <2>3. InHand'  BY <1>0, <2>1, <2>2 DEF Whole, InHand, Calm
    <2> QED BY <1>0, <2>1, <2>2, <2>3, CalmWhole
  <1> QED BY <1>1, <1>2, <1>3 DEF NearMoves, Errs

LEMMA ScanWhole == ASSUME MediumFits, CallFits, Whole, ScanMoves, ~torn' PROVE Whole'
  <1> USE DEF Removing, Freeing, Syncing, Stretching, Ready, Linking
  <1>0. pc = "scan" /\ ~Removing /\ call \in CallSet /\ call.f \in Files /\ call.op \in {"create", "extend"}
        /\ call.clust \in Clusters
    BY DEF ScanMoves, CallFits
  <1>1. CASE \E e \in Errs : Rests(e) \/ FailsAt(e)
    BY <1>0, <1>1, RestsWhole
  <1>2. CASE ~\E e \in Errs : Rests(e) \/ FailsAt(e)
    <2> DEFINE n == NextClust(call.clust)
    <2>1. /\ n \in Clusters /\ call' = [call EXCEPT !.clust = n]
          /\ (ActView[n] = FREE /\ GoesOn(FirstPut("eoc"))) \/ GoesOn("scan")
      BY <1>0, <1>2, NextFits DEF ScanMoves, Errs
    <2> HIDE DEF n
    <2>2. call'.clust = n /\ call'.op = call.op /\ call'.f = call.f /\ call'.prev = call.prev
      BY <1>0, <2>1 DEF CallSet
    <2>3. Calm /\ pc' \in {"eocM", "eoc", "scan"} /\ (pc' # "scan" => ActView[n] = FREE)
      BY <2>1, CalmSteps, FirstPuts DEF GoesOn, Goto
    <2>4. InHand'  BY <1>0, <2>1, <2>2, <2>3 DEF Whole, InHand, Calm
    <2> QED BY <1>0, <2>2, <2>3, <2>4, CalmWhole
  <1> QED BY <1>1, <1>2

LEMMA MirrorWhole == ASSUME CallFits, Whole, NEW p \in Puts, MirrorMoves(p), ~torn' PROVE Whole'
  <1> USE DEF Removing, Freeing, Syncing, Stretching, Ready, Linking
  <1>0. \/ pc = "eocM" /\ p = "eoc"
        \/ pc = "linkM" /\ p = "link"
        \/ pc = "rmM" /\ p = "rm"
    BY DEF MirrorMoves, Puts, MirrorPc
  <1>1. CASE FailsAt("IO")
    BY <1>1, RestsWhole
  <1>2. CASE PutsMir(PutCell(p), PutVal(p)) /\ Goto(p) /\ UNCHANGED <<vol, call, faults>>
    <2>1. Calm /\ pc' = p /\ call' = call
      BY <1>2, CalmSteps DEF Goto
    <2>2. InHand'  BY <1>0, <2>1 DEF Whole, InHand, Calm, Dangles
    <2> QED BY <1>0, <2>1, <2>2, CalmWhole
  <1> QED BY <1>1, <1>2 DEF MirrorMoves
-----------------------------------------------------------------------------
(* The steps that put something: the medium keeps what it has, or gets what *)
(* was seen before the step.                                                *)
LEMMA PutsActEntries ==
    ASSUME Entries, NEW c, NEW v, PutsAct(c, v), Sound(DirView, ActView)',
           \A f \in Files : Dangles(DirView, ActView, f) => Dangles(DirView, ActView, f)'
    PROVE  Entries'
  <1>1. DirView' = DirView  BY DEF PutsAct
  <1>2. \/ FatOnDisk' = ActView /\ DirOnDisk' = DirView
        \/ FatOnDisk' = FatOnDisk /\ DirOnDisk' = DirOnDisk
    BY DEF PutsAct, Settles, Stays
  <1>3. Sound(DirOnDisk, FatOnDisk)'
    <2>1. FatOnDisk' = ActView /\ DirOnDisk' = DirView => Sound(DirOnDisk, FatOnDisk)'
      BY DEF Entries, Sound
    <2>2. FatOnDisk' = FatOnDisk /\ DirOnDisk' = DirOnDisk => Sound(DirOnDisk, FatOnDisk)'
      BY DEF Entries, Sound
    <2> QED BY <1>2, <2>1, <2>2
  <1>4. ASSUME NEW f \in Files, Dangles(DirOnDisk, FatOnDisk, f)'
        PROVE  DirView[f] = NoEntry \/ Dangles(DirView, ActView, f)
    BY <1>2, <1>4 DEF Entries, Dangles
  <1> QED BY <1>1, <1>3, <1>4 DEF Entries

LEMMA PutsDirEntries ==
    ASSUME Entries, NEW f \in Files, NEW v \in {NoEntry} \cup Clusters, PutsDir(f, v),
           DirView \in DirVals, Sound(DirView, ActView)', 
           \A g \in Files : g # f /\ Dangles(DirView, ActView, g) => Dangles(DirView, ActView, g)',
           v = NoEntry \/ (FatOnDisk = ActView /\ DirOnDisk = DirView /\ ~Dangles(DirView, ActView, f))
    PROVE  Entries'
  <1>1. /\ \A g \in Files : DirView'[g] = IF g = f THEN v ELSE DirView[g]
        /\ ActView' = ActView
    BY DEF PutsDir, DirVals
  <1>2. \/ FatOnDisk' = ActView /\ DirOnDisk' = DirView
        \/ FatOnDisk' = FatOnDisk /\ DirOnDisk' = DirOnDisk
    BY DEF PutsDir, Settles, Stays
  <1>3. Sound(DirOnDisk, FatOnDisk)'
    <2>1. FatOnDisk' = ActView /\ DirOnDisk' = DirView => Sound(DirOnDisk, FatOnDisk)'
      BY DEF Entries, Sound
    <2>2. FatOnDisk' = FatOnDisk /\ DirOnDisk' = DirOnDisk => Sound(DirOnDisk, FatOnDisk)'
      BY DEF Entries, Sound
    <2> QED BY <1>2, <2>1, <2>2
  <1>4. ASSUME NEW g \in Files, Dangles(DirOnDisk, FatOnDisk, g)'
        PROVE  DirView'[g] = NoEntry \/ Dangles(DirView, ActView, g)'
    <2>1. DirView[g] = NoEntry \/ Dangles(DirView, ActView, g)
      BY <1>2, <1>4 DEF Entries, Dangles
    <2>2. CASE g # f
      BY <1>1, <2>1, <2>2
    <2>3. CASE g = f /\ v # NoEntry
      BY <1>2, <1>4, <2>3 DEF Dangles
    <2>4. CASE g = f /\ v = NoEntry
      BY <1>1, <2>4
    <2> QED BY <2>2, <2>3, <2>4
  <1> QED BY <1>3, <1>4 DEF Entries

LEMMA EocWhole == ASSUME MediumFits, CallFits, Whole, EocMoves, ~torn' PROVE Whole'
  <1> USE DEF Removing, Freeing, Syncing, Stretching, Ready, Linking
  <1>0. /\ pc = "eoc" /\ ~Removing /\ call \in CallSet /\ call.f \in Files /\ call.clust \in Clusters
        /\ call.op \in {"create", "extend"} /\ call.prev \in {0} \cup Clusters
        /\ call.op = "extend" <=> call.prev # 0
    BY DEF EocMoves, CallFits
  <1>1. CASE FailsAt("IO")
    BY <1>1, RestsWhole
  <1>2. CASE ~FailsAt("IO")
    <2>1. /\ PutsAct(call.clust, EOC)
          /\ \/ call.prev # 0 /\ Goto(FirstPut("link")) /\ UNCHANGED <<vol, call>>
             \/ call.prev = 0 /\ Allocated
      BY <1>2 DEF EocMoves
    <2>2. /\ ActView' = [ActView EXCEPT ![call.clust] = EOC] /\ DirView' = DirView
          /\ ActView \in [Clusters -> FatVals] /\ DirView \in DirVals
          /\ ActView[call.clust] = FREE /\ Sound(DirView, ActView)
          /\ \A f \in Files : ~Dangles(DirView, ActView, f)
      BY <1>0, <2>1, ViewTypes, NotRemoving DEF PutsAct, Whole, InHand, Entries
    <2>3. /\ Sound(DirView', ActView') /\ Fresh(DirView', ActView', call.clust)
          /\ \A f \in Files : ~Dangles(DirView', ActView', f)
      BY <1>0, <2>2, SoundEoc
    <2>4. Entries'  BY <2>1, <2>2, <2>3, PutsActEntries DEF Whole
    <2>5. Unlinking'  BY <2>3 DEF Unlinking
    <2>6. CASE call.prev # 0 /\ Goto(FirstPut("link")) /\ UNCHANGED <<vol, call>>
      <3>1. pc' \in {"linkM", "link"} /\ call' = call  BY <2>6, FirstPuts DEF Goto
      <3>2. ActView[call.prev] = EOC /\ call.prev # RootClust /\ call.prev \in Clusters
        BY <1>0, <2>6 DEF Whole, InHand
      <3>3. ActView'[call.prev] = EOC /\ ActView'[call.clust] = EOC /\ call.prev # call.clust
        BY <1>0, <2>2, <3>2, Marks
      <3>4. InHand'  BY <1>0, <2>3, <2>6, <3>1, <3>2, <3>3 DEF InHand
      <3> QED BY <2>4, <2>5, <3>4 DEF Whole
    <2>7. CASE call.prev = 0 /\ Allocated
      <3>1. vol \in VolSet  BY DEF CallFits
      <3>2. /\ pc' = "flush" /\ call'.clust = call.clust /\ call'.op = call.op /\ call'.f = call.f
            /\ call'.then = (IF call.op = "create" THEN "add" ELSE "return")
        BY <1>0, <2>7, <3>1, AllocatedFits
      <3>3. ActView'[call.clust] = EOC  BY <1>0, <2>2
      <3>4. call.op = "create" /\ DirView[call.f] = NoEntry  BY <1>0, <2>7 DEF Whole, InHand
      <3>5. InHand'  BY <2>2, <2>3, <3>2, <3>3, <3>4 DEF InHand
      <3> QED BY <2>4, <2>5, <3>5 DEF Whole
    <2> QED BY <2>1, <2>6, <2>7
  <1> QED BY <1>1, <1>2

LEMMA LinkWhole == ASSUME MediumFits, CallFits, Whole, LinkMoves, ~torn' PROVE Whole'
  <1> USE DEF Removing, Freeing, Syncing, Stretching, Ready, Linking
  <1>0. /\ pc = "link" /\ ~Removing /\ call \in CallSet /\ call.f \in Files /\ call.clust \in Clusters
        /\ call.op = "extend" /\ call.prev \in Clusters /\ call.prev # 0 /\ vol \in VolSet
    BY Marks DEF LinkMoves, CallFits
  <1>1. CASE FailsAt("IO")
    BY <1>1, RestsWhole
  <1>2. CASE ~FailsAt("IO")
    <2>1. PutsAct(call.prev, call.clust) /\ Allocated
      BY <1>2 DEF LinkMoves
    <2>2. /\ ActView' = [ActView EXCEPT ![call.prev] = call.clust] /\ DirView' = DirView
          /\ ActView \in [Clusters -> FatVals] /\ DirView \in DirVals
          /\ ActView[call.clust] = EOC /\ ActView[call.prev] = EOC /\ call.prev # RootClust
          /\ Fresh(DirView, ActView, call.clust) /\ call.prev # call.clust
          /\ Sound(DirView, ActView) /\ \A f \in Files : ~Dangles(DirView, ActView, f)
      BY <1>0, <2>1, ViewTypes, NotRemoving DEF PutsAct, Whole, InHand, Entries
    <2>3. /\ Sound(DirView', ActView')
          /\ \A f \in Files : ~Dangles(DirView', ActView', f)
      BY <1>0, <2>2, SoundLink
    <2>4. Entries'  BY <2>1, <2>2, <2>3, PutsActEntries DEF Whole
    <2>5. Unlinking'  BY <2>3 DEF Unlinking
    <2>6. /\ pc' = "flush" /\ call'.op = "extend" /\ call'.then = "return"
      BY <1>0, <2>1, AllocatedFits
    <2>7. InHand'  BY <2>6 DEF InHand
    <2> QED BY <2>4, <2>5, <2>7 DEF Whole
  <1> QED BY <1>1, <1>2

LEMMA RmGetWhole == ASSUME MediumFits, CallFits, Whole, RmGetMoves, ~torn' PROVE Whole'
  <1> USE DEF Removing, Freeing, Syncing, Stretching, Ready, Linking
  <1>0. pc = "rmGet" /\ call \in CallSet /\ call.f \in Files /\ call.clust \in Clusters
        /\ call.op = "unlink"
    BY DEF RmGetMoves, CallFits
  <1>1. CASE \E e \in Errs \ {"NONE"} : Rests(e) \/ FailsAt(e)
    BY <1>0, <1>1, RestsWhole
  <1>2. CASE GoesOn(FirstPut("rm")) /\ call' = [call EXCEPT !.next = ActView[call.clust]]
    <2> DEFINE n == ActView[call.clust]
    <2>1. call' = [call EXCEPT !.next = n]  BY <1>2
    <2> HIDE DEF n
    <2>2. call'.next = n /\ call'.clust = call.clust /\ call'.op = call.op /\ call'.f = call.f
      BY <1>0, <2>1 DEF CallSet
    <2>3. Calm /\ pc' \in {"rmM", "rm"}  BY <1>2, CalmSteps, FirstPuts DEF GoesOn, Goto
    <2>4. InHand'  BY <1>0, <2>2, <2>3 DEF Whole, InHand, Calm, Dangles, n
    <2> QED BY <1>0, <2>2, <2>3, <2>4, CalmWhole
  <1> QED BY <1>1, <1>2 DEF RmGetMoves, Errs

LEMMA RmWhole == ASSUME MediumFits, CallFits, Whole, RmMoves, ~torn' PROVE Whole'
  <1> USE DEF Removing, Freeing, Syncing, Stretching, Ready, Linking
  <1>0. pc = "rm" /\ call \in CallSet /\ call.f \in Files /\ call.clust \in Clusters
        /\ call.op = "unlink" /\ call.next \in Clusters \cup {EOC} /\ call.then = "return"
    BY DEF RmMoves, CallFits
  <1>1. CASE FailsAt("IO")
    BY <1>1, RestsWhole
  <1>2. CASE ~FailsAt("IO")
    <2>1. /\ PutsAct(call.clust, FREE)
          /\ \/ call.next = EOC /\ Goto("flush") /\ call' = [call EXCEPT !.then = "rmEntry"]
             \/ call.next # EOC /\ Goto("rmGet") /\ call' = [call EXCEPT !.clust = call.next]
      BY <1>2 DEF RmMoves
    <2>2. /\ ActView' = [ActView EXCEPT ![call.clust] = FREE] /\ DirView' = DirView
          /\ ActView \in [Clusters -> FatVals] /\ DirView \in DirVals
          /\ call.clust # RootClust /\ (\A d \in Clusters : ActView[d] # call.clust)
          /\ DirView[call.f] # NoEntry /\ call.next = ActView[call.clust]
          /\ \A f \in Files : DirView[f] = call.clust => f = call.f
          /\ DirView[call.f] = call.clust \/ Dangles(DirView, ActView, call.f)
          /\ Sound(DirView, ActView) /\ \A f \in Files : Dangles(DirView, ActView, f) => f = call.f
      BY <1>0, <2>1, ViewTypes DEF PutsAct, Whole, InHand, Entries, Unlinking
    <2>3. /\ Sound(DirView', ActView')
          /\ \A f \in Files : Dangles(DirView, ActView, f) => Dangles(DirView', ActView', f)
          /\ \A f \in Files : Dangles(DirView', ActView', f) => Dangles(DirView, ActView, f) \/ DirView[f] = call.clust
          /\ \A f \in Files : DirView[f] = call.clust => Dangles(DirView', ActView', f)
      BY <1>0, <2>2, SoundFree
    <2>4. Entries'  BY <2>1, <2>2, <2>3, PutsActEntries DEF Whole
    <2>5. Dangles(DirView', ActView', call.f)  BY <1>0, <2>2, <2>3
    <2>6. \A f \in Files : Dangles(DirView', ActView', f) => f = call.f
      BY <1>0, <2>2, <2>3
    <2>7. CASE call.next = EOC /\ Goto("flush") /\ call' = [call EXCEPT !.then = "rmEntry"]
      <3>1. pc' = "flush" /\ call'.op = call.op /\ call'.f = call.f /\ call'.then = "rmEntry"
        BY <1>0, <2>7 DEF CallSet, Goto
      <3>2. Unlinking'  BY <2>6, <3>1 DEF Unlinking
      <3>3. InHand'  BY <1>0, <2>5, <3>1 DEF InHand
      <3> QED BY <2>4, <3>2, <3>3 DEF Whole
    <2>8. CASE call.next # EOC /\ Goto("rmGet") /\ call' = [call EXCEPT !.clust = call.next]
      <3>1. pc' = "rmGet" /\ call'.op = call.op /\ call'.f = call.f /\ call'.clust = call.next
        BY <1>0, <2>8 DEF CallSet, Goto
      <3>2. Unlinking'  BY <2>6, <3>1 DEF Unlinking
      <3>3. call.next \in Clusters /\ call.next # RootClust
        BY <1>0, <2>2, <2>8 DEF Sound
      <3>4. \A d \in Clusters : ActView'[d] # call.next
        <4> TAKE d \in Clusters
        <4>1. CASE d = call.clust
          BY <1>0, <2>2, <3>3, <4>1, Marks
        <4>2. CASE d # call.clust
          BY <1>0, <2>2, <3>3, <4>2 DEF Sound
        <4> QED BY <4>1, <4>2
      <3>5. \A f \in Files : DirView[f] # call.next
        BY <1>0, <2>2, <3>3, Marks DEF Sound
      <3>6. InHand'  BY <1>0, <2>2, <2>5, <3>1, <3>3, <3>4, <3>5 DEF InHand
      <3> QED BY <2>4, <3>2, <3>6 DEF Whole
    <2> QED BY <2>1, <2>7, <2>8
  <1> QED BY <1>1, <1>2

LEMMA SyncedWhole == ASSUME CallFits, Whole, Syncing, Calm, Synced, ~torn' PROVE Whole'
  <1>0. call \in CallSet /\ call.then \in {"return", "add", "rmEntry"}  BY DEF CallFits, CallSet
  <1> USE DEF Removing, Freeing, Syncing, Stretching, Ready, Linking
  <1>1. CASE call.then = "return"
    <2>1. Return("NONE") /\ ~Removing  BY <1>1 DEF Synced
    <2>2. Entries'  BY CalmEntries DEF Whole
    <2>3. \A f \in Files : ~Dangles(DirView, ActView, f)'
      BY <2>1, NotRemoving DEF Whole, Calm, Dangles
    <2> QED BY <2>1, <2>2, <2>3, ReturnsWhole
  <1>2. CASE call.then # "return"
    <2>1. /\ pc' = call.then /\ call'.clust = call.clust /\ call'.op = call.op /\ call'.f = call.f
          /\ call'.then = "return"
      BY <1>0, <1>2, NewThen DEF Synced, Goto
    <2>2. /\ call.then = "add" => call.op = "create"
          /\ call.then = "rmEntry" => call.op = "unlink"
      BY DEF CallFits
    <2>3. InHand'
      BY <1>0, <1>2, <2>1, <2>2 DEF Whole, InHand, Calm, Dangles
    <2>4. Removing <=> Removing'
      BY <1>0, <1>2, <2>1, <2>2
    <2> QED BY <2>1, <2>3, <2>4, CalmWhole
  <1> QED BY <1>1, <1>2

LEMMA SyncsWhole ==
    ASSUME CallFits, Whole, FlushMoves \/ InfoMoves \/ InfoFlushMoves, ~torn' PROVE Whole'
  <1> USE DEF Removing, Freeing, Syncing, Stretching, Ready, Linking
  <1>0. pc \in {"flush", "info", "infoFlush"}  BY DEF FlushMoves, InfoMoves, InfoFlushMoves
  <1>1. CASE FailsAt("IO")
    BY <1>1, RestsWhole
  <1>2. CASE Calm /\ Synced
    BY <1>0, <1>2, SyncedWhole
  <1>3. CASE Calm /\ pc' \in {"info", "infoFlush"} /\ call' = call
    <2>1. InHand'  BY <1>0, <1>3 DEF Whole, InHand, Calm, Dangles
    <2> QED BY <1>0, <1>3, <2>1, CalmWhole
  <1> QED BY <1>1, <1>2, <1>3, CalmSteps DEF FlushMoves, InfoMoves, InfoFlushMoves, Goto

LEMMA AddWhole ==
    ASSUME MediumFits, CallFits, Flushed, Whole, AddMoves, ~torn' PROVE Whole'
  <1> USE DEF Removing, Freeing, Syncing, Stretching, Ready, Linking
  <1>0. /\ pc = "add" /\ ~Removing /\ call.op = "create" /\ call.f \in Files /\ call.clust \in Clusters
    BY DEF AddMoves, CallFits
  <1>1. CASE FailsAt("IO")
    BY <1>1, RestsWhole
  <1>2. CASE PutsDir(call.f, call.clust) /\ Return("NONE")
    <2>1. /\ DirView' = [DirView EXCEPT ![call.f] = call.clust] /\ ActView' = ActView
          /\ ActView \in [Clusters -> FatVals] /\ DirView \in DirVals
          /\ ActView[call.clust] = EOC /\ Fresh(DirView, ActView, call.clust)
          /\ Sound(DirView, ActView) /\ \A f \in Files : ~Dangles(DirView, ActView, f)
      BY <1>0, <1>2, ViewTypes, NotRemoving DEF PutsDir, Whole, InHand, Entries
    <2>2. /\ Sound(DirView', ActView')
          /\ \A f \in Files : ~Dangles(DirView', ActView', f)
      BY <1>0, <2>1, SoundEntry, Marks
    <2>3. FatOnDisk = ActView /\ DirOnDisk = DirView
      <3>1. ~torn  BY <1>2 DEF Return
      <3>2. Clean  BY <1>0, <3>1 DEF Flushed
      <3> QED BY <3>2, SectorsFit DEF Clean, FatOnDisk, ActView, FatView, DirOnDisk, DirView
    <2>4. Entries'  BY <1>0, <1>2, <2>1, <2>2, <2>3, PutsDirEntries DEF Whole
    <2> QED BY <1>2, <2>2, <2>4, ReturnsWhole
  <1> QED BY <1>1, <1>2 DEF AddMoves

LEMMA RmEntryWhole == ASSUME MediumFits, CallFits, Whole, RmEntryMoves, ~torn' PROVE Whole'
  <1> USE DEF Removing, Freeing, Syncing, Stretching, Ready, Linking
  <1>0. /\ pc = "rmEntry" /\ call.op = "unlink" /\ call.f \in Files /\ call.then = "return"
    BY DEF RmEntryMoves, CallFits
  <1>1. CASE FailsAt("IO")
    BY <1>1, RestsWhole
  <1>2. CASE PutsDir(call.f, NoEntry) /\ Goto("flush") /\ UNCHANGED <<vol, call, faults>>
    <2>1. /\ DirView' = [DirView EXCEPT ![call.f] = NoEntry] /\ ActView' = ActView
          /\ ActView \in [Clusters -> FatVals] /\ DirView \in DirVals
          /\ Sound(DirView, ActView) /\ \A f \in Files : Dangles(DirView, ActView, f) => f = call.f
      BY <1>0, <1>2, ViewTypes DEF PutsDir, Whole, InHand, Entries, Unlinking
    <2>2. /\ Sound(DirView', ActView')
          /\ \A g \in Files : Dangles(DirView', ActView', g) <=> g # call.f /\ Dangles(DirView, ActView, g)
      BY <1>0, <2>1, SoundEntry
    <2>3. Entries'  BY <1>0, <1>2, <2>1, <2>2, PutsDirEntries DEF Whole
    <2>4. Unlinking'  BY <2>1, <2>2 DEF Unlinking
    <2>5. InHand'  BY <1>0, <1>2 DEF InHand, Goto
    <2> QED BY <2>3, <2>4, <2>5 DEF Whole
  <1> QED BY <1>1, <1>2 DEF RmEntryMoves

LEMMA TouchWhole == ASSUME MediumFits, CallFits, Whole, TouchMoves, ~torn' PROVE Whole'
  <1> USE DEF Removing, Freeing, Syncing, Stretching, Ready, Linking
  <1>0. /\ pc = "touch" /\ ~Removing /\ call.op = "close" /\ call.f \in Files /\ call.then = "return"
    BY DEF TouchMoves, CallFits
  <1>1. CASE FailsAt("IO")
    BY <1>1, RestsWhole
  <1>2. CASE PutsDir(call.f, DirView[call.f]) /\ Goto("flush") /\ UNCHANGED <<vol, call, faults>>
    <2>1. DirView' = DirView
      BY <1>0, <1>2, ViewTypes DEF PutsDir, DirVals
    <2>2. Calm  BY <1>2, <2>1 DEF PutsDir, Calm, Settles, Stays
    <2>3. InHand'  BY <1>0, <1>2 DEF InHand, Goto
    <2> QED BY <1>0, <1>2, <2>2, <2>3, CalmWhole DEF Goto
  <1> QED BY <1>1, <1>2 DEF TouchMoves

LEMMA CrashWhole == ASSUME CallFits, Whole, CrashMoves, ~torn' PROVE Whole'
  <1>1. /\ ActView' = FatOnDisk /\ DirView' = DirOnDisk /\ FatOnDisk' = FatOnDisk
        /\ DirOnDisk' = DirOnDisk
    BY DEF CrashMoves, Stays
  <1>2. pc' \in {"idle", "dead"} /\ call' = NoCall /\ ~Dangling'  BY DEF CrashMoves
  <1>3. Entries'  BY <1>1 DEF Whole, Entries, Sound, Dangles
  <1>4. Unlinking'
    BY <1>2 DEF Unlinking, Dangling, Dangles, ActView
  <1>5. InHand'
    BY <1>2 DEF InHand, NoCall, Stretching, Linking, Freeing, Syncing, Ready, Removing
  <1> QED BY <1>3, <1>4, <1>5 DEF Whole

LEMMA WholeKeeps ==
    ASSUME MediumFits, CallFits, Flushed, ~torn => Whole, Moves PROVE ~torn' => Whole'
  <1>1. torn => torn'
    BY DEF Moves, CallMoves, Begins, FindMoves, WalkMoves, NearMoves, ScanMoves, EocMoves, LinkMoves,
       MirrorMoves, RmGetMoves, RmMoves, FlushMoves, InfoMoves, InfoFlushMoves, AddMoves, RmEntryMoves,
       TouchMoves, CrashMoves, Rests, FailsAt, GoesOn, Return, Goto, Allocated, Synced
  <1> QED BY <1>1, BeginsWhole, FindWhole, WalkWhole, NearWhole, ScanWhole, MirrorWhole, EocWhole, LinkWhole,
             RmGetWhole, RmWhole, SyncsWhole, AddWhole, RmEntryWhole, TouchWhole, CrashWhole DEF Moves, CallMoves
-----------------------------------------------------------------------------
(* The inductive invariant. *)
IInv ==
    /\ MediumFits /\ CallFits
    /\ Counted /\ Flushed /\ SyncIsDurable
    /\ Passed
    /\ ~torn => Whole

(* The free clusters of a new volume can be counted. *)
LEMMA ClustersFinite ==
    /\ IsFiniteSet(Clusters) /\ Cardinality(Clusters) = ClustCnt - 2
    /\ \A T \in SUBSET Clusters : IsFiniteSet(T) /\ Cardinality(T) \in 0 .. (ClustCnt - 2)
  <1>1. 2 \in Int /\ ClustCnt - 1 \in Int /\ ~(2 > ClustCnt - 1)  BY Constants
  <1>2. IsFiniteSet(Clusters) /\ Cardinality(Clusters) = ClustCnt - 2
    BY <1>1, Constants, FS_Interval DEF Clusters
  <1> QED BY <1>2, Constants, FS_Subset, FS_CardinalityType

LEMMA InitMedium ==
    ASSUME Init
    PROVE  /\ MediumFits
           /\ ActView = FatOnDisk /\ DirView = DirOnDisk
           /\ \A f \in Files : DirView[f] = NoEntry
           /\ \A c \in Clusters : ActView[c] = IF c \in BadClusts THEN BAD
                                               ELSE IF c = RootClust THEN EOC ELSE FREE
           /\ vol \in VolSet /\ ~vol.dirty /\ InfoView["free_cnt"] = vol.free_cnt
           /\ MirView = ActView /\ MirOnDisk = FatOnDisk /\ InfoOnDisk = InfoView
           /\ vol.free_cnt = Cardinality(Clusters \ (BadClusts \cup {RootClust}))
  <1> DEFINE n == Cardinality(Clusters \ (BadClusts \cup {RootClust}))
             fat(s) == [c \in Cells(s) |-> IF c \in BadClusts THEN BAD
                                           ELSE IF c = RootClust THEN EOC ELSE FREE]
             dir == [f \in Files |-> NoEntry]
             info(last) == [x \in {"next_free", "free_cnt"} |-> IF x = "next_free" THEN last ELSE n]
  <1>1. PICK last \in Clusters :
           disk = [s \in Sects |-> CASE s = DirSect -> dir [] s = InfoSect -> info(last)
                                     [] OTHER -> fat(s)]
    BY DEF Init
  <1>2. n \in 0 .. (CountMod - 1)
    BY ClustersFinite, Constants
  <1>3. dir \in DirVals /\ \A f \in Files : dir[f] = NoEntry  BY DEF DirVals
  <1>4. info(last) \in InfoVals /\ info(last)["next_free"] = last /\ info(last)["free_cnt"] = n
    BY <1>2, Constants DEF InfoVals, Clusters
  <1>5. \A s \in Sects : fat(s) \in [Cells(s) -> FatVals]  BY Marks DEF FatVals
  <1>6. DirSect # InfoSect /\ NoSect \notin Sects /\ DirSect \in Sects /\ InfoSect \in Sects  BY SectorsFit
  <1>7. /\ disk[DirSect] = dir /\ disk[InfoSect] = info(last)
        /\ \A s \in Sects \ {DirSect, InfoSect} : disk[s] = fat(s)
    <2> HIDE DEF dir, info, fat
    <2> QED BY <1>1, <1>6
  <1>8. \A s \in Sects : disk[s] \in SectVals(s)
    <2> HIDE DEF dir, info, fat
    <2> QED BY <1>3, <1>4, <1>5, <1>7 DEF SectVals
  <1>9. win = [sect |-> NoSect, buf |-> NoBuf, dirty |-> FALSE]  BY DEF Init
  <1>10. win.sect = NoSect /\ win.buf = NoBuf /\ ~win.dirty
         /\ win \in [sect : Sects \cup {NoSect}, buf : AllVals, dirty : BOOLEAN]
    BY <1>9 DEF AllVals
  <1>11. \A s \in Sects : View(s) = disk[s]  BY <1>6, <1>10 DEF View
  <1>12. disk \in [Sects -> AllVals]
    <2>1. \A s \in Sects : disk[s] \in AllVals  BY <1>8 DEF AllVals
    <2>2. disk = [s \in Sects |-> disk[s]]
      <3> HIDE DEF dir, info, fat
      <3> QED BY <1>1
    <2> QED BY <2>1, <2>2
  <1>13. MediumFits  BY <1>6, <1>8, <1>10, <1>11, <1>12 DEF MediumFits, WindowFits
  <1>14. ActView = FatOnDisk /\ DirView = DirOnDisk
    BY <1>11, SectorsFit DEF ActView, FatView, FatOnDisk, DirView, DirOnDisk
  <1>15. \A c \in Clusters : ActView[c] = IF c \in BadClusts THEN BAD
                                          ELSE IF c = RootClust THEN EOC ELSE FREE
    <2> TAKE c \in Clusters
    <2> DEFINE s == FatSect("act", c)
    <2>1. s \in Sects \ {DirSect, InfoSect} /\ c \in Cells(s)  BY SectorsFit
    <2>2. ActView[c] = fat(s)[c]  BY <1>7, <1>11, <2>1 DEF ActView, FatView
    <2> QED BY <2>1, <2>2
  <1>16. vol = [last_used |-> disk[InfoSect]["next_free"], free_cnt |-> disk[InfoSect]["free_cnt"],
                dirty |-> FALSE]
    BY DEF Init
  <1>17. disk[InfoSect]["next_free"] = last /\ disk[InfoSect]["free_cnt"] = n
    <2> HIDE DEF info, n
    <2> QED BY <1>4, <1>7
  <1>18. vol \in VolSet /\ ~vol.dirty /\ InfoView["free_cnt"] = vol.free_cnt /\ vol.free_cnt = n
    <2> HIDE DEF n
    <2> QED BY <1>2, <1>6, <1>11, <1>16, <1>17 DEF VolSet, InfoView
  <1>19. MirOnDisk = FatOnDisk
    <2>1. ASSUME NEW c \in Clusters, NEW copy \in {"act", "mir"}
          PROVE  disk[FatSect(copy, c)][c] = IF c \in BadClusts THEN BAD
                                             ELSE IF c = RootClust THEN EOC ELSE FREE
      <3> DEFINE s == FatSect(copy, c)
      <3>1. s \in Sects \ {DirSect, InfoSect} /\ c \in Cells(s)  BY SectorsFit
      <3>2. disk[s][c] = fat(s)[c]  BY <1>7, <3>1
      <3> QED BY <3>1, <3>2
    <2> QED BY <2>1 DEF MirOnDisk, FatOnDisk
  <1>20. MirView = MirOnDisk /\ InfoOnDisk = InfoView
    BY <1>11, SectorsFit DEF MirView, FatView, MirOnDisk, InfoOnDisk, InfoView
  <1> QED BY <1>3, <1>6, <1>7, <1>11, <1>13, <1>14, <1>15, <1>18, <1>19, <1>20 DEF DirView

LEMMA InitHolds == ASSUME Init PROVE IInv
  <1>1. /\ MediumFits
        /\ ActView = FatOnDisk /\ DirView = DirOnDisk
        /\ \A f \in Files : DirView[f] = NoEntry
        /\ \A c \in Clusters : ActView[c] = IF c \in BadClusts THEN BAD
                                            ELSE IF c = RootClust THEN EOC ELSE FREE
        /\ vol \in VolSet /\ ~vol.dirty /\ InfoView["free_cnt"] = vol.free_cnt
    BY InitMedium
  <1>2. pc = "idle" /\ call = NoCall /\ res = NoRes /\ faults = 0 /\ torn = FALSE  BY DEF Init
  <1>3. CallFits
    <2>1. torn \in BOOLEAN  BY <1>2, Zenon
    <2>2. res.err \in Errs /\ faults \in 0 .. MaxFaults  BY <1>2, Constants DEF NoRes, Errs
    <2> QED BY <1>1, <1>2, <2>1, <2>2, NoCallFits
            DEF CallFits, Pcs, Stretching, Linking, Freeing, Syncing, Ready
  <1>4. Counted /\ Flushed /\ Passed  BY <1>1, <1>2 DEF Counted, Flushed, Passed
  <1>5. SyncIsDurable  BY <1>2 DEF SyncIsDurable, NoRes
  <1>6. Sound(DirView, ActView)
    BY <1>1, Marks, Constants DEF Sound
  <1>7. \A f \in Files : ~Dangles(DirView, ActView, f)  BY <1>1 DEF Dangles
  <1>8. InHand
    BY <1>2 DEF InHand, NoCall, Stretching, Linking, Freeing, Syncing, Ready, Removing
  <1>9. Whole  BY <1>1, <1>6, <1>7, <1>8 DEF Whole, Entries, Unlinking
  <1> QED BY <1>1, <1>3, <1>4, <1>5, <1>9 DEF IInv

LEMMA StepKeeps == ASSUME IInv, Next PROVE IInv'
  <1>1. Moves  BY NextMoves DEF IInv, Moves
  <1> QED BY <1>1, MovesKeepMedium, MovesKeepCall, CountedKeeps, FlushedKeeps, DurableKeeps, PassedKeeps,
             WholeKeeps DEF IInv

LEMMA StutterKeeps == ASSUME IInv, UNCHANGED vars PROVE IInv'
  <1>1. /\ disk' = disk /\ win' = win /\ vol' = vol /\ pc' = pc /\ call' = call /\ res' = res
        /\ faults' = faults /\ torn' = torn
    BY DEF vars
  <1>2. /\ ActView' = ActView /\ DirView' = DirView /\ InfoView' = InfoView
        /\ FatOnDisk' = FatOnDisk /\ DirOnDisk' = DirOnDisk /\ \A s \in Sects : View(s)' = View(s)
    BY <1>1 DEF ActView, DirView, InfoView, FatView, View, FatOnDisk, DirOnDisk
  <1>3. MediumFits'  BY <1>1, <1>2 DEF IInv, MediumFits, WindowFits
  <1>4. CallFits'
    BY <1>1 DEF IInv, CallFits, Stretching, Linking, Freeing, Syncing, Ready
  <1>5. Counted' /\ Flushed' /\ SyncIsDurable' /\ Passed'
    BY <1>1, <1>2 DEF IInv, Counted, Flushed, SyncIsDurable, Passed, Clean
  <1>6. Whole => Whole'
    BY <1>1, <1>2 DEF Whole, Entries, Unlinking, InHand, Sound, Dangles, Fresh, Removing, Stretching,
                      Linking, Freeing, Syncing, Ready
  <1> QED BY <1>1, <1>3, <1>4, <1>5, <1>6 DEF IInv

LEMMA Inductive == Spec => []IInv
  <1>1. IInv /\ [Next]_vars => IInv'  BY StepKeeps, StutterKeeps
  <1> QED BY <1>1, InitHolds, PTL DEF Spec
-----------------------------------------------------------------------------
(* Sets of at most one element, which are finite whatever they are taken from. *)
LEMMA AtMostOne ==
    ASSUME NEW S, \A x, y \in S : x = y
    PROVE  Cardinality(S) \in {0, 1} /\ (S = {} <=> Cardinality(S) = 0)
  <1>1. CASE S = {}
    BY <1>1, FS_EmptySet
  <1>2. CASE S # {}
    <2>1. PICK x : S = {x}  BY <1>2
    <2>2. Cardinality({x}) = 1  BY FS_Singleton
    <2> QED BY <1>2, <2>1, <2>2
  <1> QED BY <1>1, <1>2

LEMMA SoundLinks ==
    ASSUME MediumFits, Sound(DirOnDisk, FatOnDisk), NEW c \in Clusters
    PROVE  /\ Referrers(DirOnDisk, FatOnDisk, c) <= 1
           /\ (\E d \in Clusters : FatOnDisk[d] = c) => FatOnDisk[c] \notin {FREE, BAD}
           /\ c = RootClust => Referrers(DirOnDisk, FatOnDisk, c) = 0
  <1> DEFINE names == {f \in Files : DirOnDisk[f] = c}
             links == {d \in Clusters : FatOnDisk[d] = c}
  <1>1. \A x, y \in names : x = y  BY Marks DEF Sound
  <1>2. \A x, y \in links : x = y  BY DEF Sound
  <1>3. names = {} \/ links = {}  BY Marks DEF Sound
  <1>4. c = RootClust => names = {} /\ links = {}  BY DEF Sound
  <1>5. (\E d \in Clusters : FatOnDisk[d] = c) => FatOnDisk[c] \notin {FREE, BAD}  BY DEF Sound
  <1>6. Referrers(DirOnDisk, FatOnDisk, c) = Cardinality(names) + Cardinality(links)
    BY DEF Referrers
  <1> HIDE DEF names, links
  <1>7. /\ Cardinality(names) \in {0, 1} /\ Cardinality(links) \in {0, 1}
        /\ names = {} => Cardinality(names) = 0
        /\ links = {} => Cardinality(links) = 0
    BY <1>1, <1>2, AtMostOne
  <1> QED BY <1>3, <1>4, <1>5, <1>6, <1>7

(* What fits in a sector can be stored there. *)
LEMMA SectorTypes ==
    ASSUME NEW s \in Sects, NEW b \in SectVals(s) PROVE b \in [Cells(s) -> Vals]
  <1>1. FatVals \subseteq Vals /\ {NoEntry} \cup Clusters \subseteq Vals /\ 0 .. (CountMod - 1) \subseteq Vals
        /\ Clusters \subseteq Vals
    BY Constants DEF FatVals, FREE, EOC, BAD, Clusters, NoEntry, Vals
  <1>2. Cells(DirSect) = Files /\ Cells(InfoSect) = {"next_free", "free_cnt"}
    BY DEF Cells, DirSect, InfoSect
  <1>3. CASE s = DirSect
    BY <1>1, <1>2, <1>3 DEF SectVals, DirVals
  <1>4. CASE s = InfoSect
    BY <1>1, <1>2, <1>4, SectorsFit DEF InfoVals
  <1>5. CASE s \notin {DirSect, InfoSect}
    BY <1>1, <1>5 DEF SectVals
  <1> QED BY <1>3, <1>4, <1>5

LEMMA InvTypes == ASSUME IInv PROVE TypeOK
  <1>1. MediumFits /\ CallFits  BY DEF IInv
  <1>2. DOMAIN disk = Sects /\ \A s \in Sects : disk[s] \in [Cells(s) -> Vals]
    BY <1>1, SectorTypes DEF MediumFits, WindowFits
  <1>3. win.sect \in Sects \cup {NoSect} /\ win.dirty \in BOOLEAN
    BY <1>1 DEF MediumFits, WindowFits
  <1>4. win.buf \in [Cells(win.sect) -> Vals]
    <2>1. CASE win.sect \in Sects
      <3>1. win.buf \in SectVals(win.sect)  BY <1>1, <2>1 DEF MediumFits, View
      <3> QED BY <2>1, <3>1, SectorTypes
    <2>2. CASE win.sect = NoSect
      <3>1. Cells(win.sect) = {}  BY <2>2 DEF Cells, NoSect, DirSect, InfoSect
      <3>2. win.buf = NoBuf  BY <1>1, <2>2 DEF MediumFits
      <3> QED BY <3>1, <3>2 DEF NoBuf
    <2> QED BY <1>3, <2>1, <2>2
  <1>5. /\ call.op \in Ops \cup {"none"} /\ call.f \in Files \cup {"none"}
        /\ {call.clust, call.prev, call.next} \subseteq 0 .. EOC
        /\ call.then \in {"return", "add", "rmEntry"}
    BY <1>1 DEF CallFits, CallSet
  <1>6. vol \in [last_used : Clusters, free_cnt : 0 .. (CountMod - 1), dirty : BOOLEAN]
    BY <1>1 DEF CallFits, VolSet
  <1>7. pc \in Pcs /\ faults \in 0 .. MaxFaults /\ torn \in BOOLEAN /\ res.err \in Errs
    BY <1>1 DEF CallFits
  <1> QED BY <1>2, <1>3, <1>4, <1>5, <1>6, <1>7 DEF TypeOK

LEMMA InvSound == ASSUME IInv PROVE MediumSound
  <1>1. LinksSound
    BY SoundLinks DEF LinksSound, IInv, Whole, Entries
  <1>2. EntriesSound
    <2> SUFFICES ASSUME ~torn, NEW f \in Files, DirOnDisk[f] # NoEntry, FatOnDisk[DirOnDisk[f]] = FREE,
                        DirView[f] # NoEntry
                 PROVE  call.op = "unlink" /\ call.f = f
      BY DEF EntriesSound
    <2>1. Removing /\ call.f = f
      BY DEF IInv, Whole, Entries, Unlinking, Dangles
    <2> QED BY <2>1 DEF IInv, CallFits, Removing, Freeing, Syncing
  <1> QED BY <1>1, <1>2, InvTypes DEF MediumSound

(* For every size of volume, all files and any number of failed transfers  *)
(* and crashes: at any moment the file system on the medium holds together. *)
(* No cluster has two owners, no link leads to a cluster that is free, bad *)
(* or the root's, and an entry without its chain is one being unlinked, as *)
(* long as no call failed between freeing a chain and taking its entry.    *)
THEOREM MediumIsSound == Spec => []MediumSound
  BY Inductive, InvSound, PTL

(* Whatever failed before, a call that synchronises and returns success    *)
(* has left nothing in the window or the counters for a crash to lose.     *)
THEOREM SyncedIsDurable == Spec => []SyncIsDurable
  <1>1. IInv => SyncIsDurable  BY DEF IInv
  <1> QED BY <1>1, Inductive, PTL

(* FAT_ERR_FULL is only returned when the scan has gone round all clusters *)
(* but the last one used, on a volume of any size.                         *)
THEOREM FullIsSaidOfFull == Spec => FullMeansFull
  <1>1. IInv /\ [Next]_vars =>
          [(res' # res /\ res'.err = "FULL")
              => \A c \in Clusters \ {vol.last_used} : FatView("act")[c] # FREE]_vars
    <2> SUFFICES ASSUME IInv, Next, res' # res, res'.err = "FULL"
                 PROVE  \A c \in Clusters \ {vol.last_used} : FatView("act")[c] # FREE
      OBVIOUS
    <2>1. Moves  BY NextMoves DEF IInv, Moves
    <2> QED BY <2>1, FullIsFull DEF IInv, ActView
  <1> QED BY <1>1, Inductive, PTL DEF Spec, FullMeansFull

(* Whichever sectors the calls need, and whatever fails: the window never  *)
(* drops a change.  A step changes what is seen of one sector at most, and *)
(* then that sector is in the window, marked as changed.                   *)
THEOREM WindowKeepsAll == Spec => WindowLosesNothing
  <1> DEFINE changed == {s \in Sects : View(s)' # View(s)}
             A == Crash \/ (changed # {} => changed = {win'.sect} /\ win'.dirty)
  <1>1. IInv /\ [Next]_vars => [A]_vars
    <2> SUFFICES ASSUME IInv, Next, ~Crash PROVE changed # {} => changed = {win'.sect} /\ win'.dirty
      OBVIOUS
    <2>1. SeesAll \/ SeesOthers  BY NextMoves, MovesSee DEF IInv
    <2> QED BY <2>1 DEF SeesAll, SeesOthers
  <1>2. WindowLosesNothing <=> [][A]_vars  BY DEF WindowLosesNothing
  <1> HIDE DEF A
  <1> QED BY <1>1, <1>2, Inductive, PTL DEF Spec
-----------------------------------------------------------------------------
(* What failed transfers and crashes cost for good: an entry in which the  *)
(* two copies of the FAT differ, one in the count of free clusters, and a   *)
(* cluster that nothing leads to, for each failure.  The three parts of the *)
(* argument are inductive together with IInv.                               *)

(* Sets of clusters, and what changing one cell of a FAT does to how many   *)
(* clusters are free.                                                       *)
LEMMA Counting ==
    ASSUME NEW S \in SUBSET Clusters, NEW T \in SUBSET Clusters, NEW n \in Nat, Cardinality(S) <= n
    PROVE  /\ Cardinality(S) \in Nat /\ Cardinality(T) \in Nat
           /\ T \subseteq S => Cardinality(T) <= n
           /\ \A x \in Clusters : T \subseteq S \cup {x} => Cardinality(T) <= n + 1
  <1>1. IsFiniteSet(S) /\ IsFiniteSet(T) /\ Cardinality(S) \in Nat /\ Cardinality(T) \in Nat
    BY ClustersFinite, Constants
  <1>2. ASSUME T \subseteq S PROVE Cardinality(T) <= n
    <2>1. Cardinality(T) <= Cardinality(S)  BY <1>1, <1>2, FS_Subset
    <2> QED BY <1>1, <2>1
  <1>3. ASSUME NEW x \in Clusters, T \subseteq S \cup {x} PROVE Cardinality(T) <= n + 1
    <2>a. /\ IsFiniteSet(S \cup {x})
          /\ Cardinality(S \cup {x}) = IF x \in S THEN Cardinality(S) ELSE Cardinality(S) + 1
      BY <1>1, FS_AddElement
    <2>1. IsFiniteSet(S \cup {x}) /\ Cardinality(S \cup {x}) <= Cardinality(S) + 1
      BY <1>1, <2>a
    <2>2. Cardinality(T) <= Cardinality(S \cup {x})  BY <1>3, <2>1, FS_Subset
    <2>3. Cardinality(S \cup {x}) \in Nat  BY <2>1, FS_CardinalityType
    <2> QED BY <1>1, <2>1, <2>2, <2>3
  <1> QED BY <1>1, <1>2, <1>3

FreeOf(fat) == Cardinality({c \in Clusters : fat[c] = FREE})

LEMMA FreeChanges ==
    ASSUME NEW fat \in [Clusters -> FatVals], NEW c \in Clusters, NEW v \in FatVals
    PROVE  /\ FreeOf(fat) \in 0 .. (ClustCnt - 2)
           /\ FreeOf([fat EXCEPT ![c] = v]) =
                IF fat[c] = FREE /\ v # FREE THEN FreeOf(fat) - 1
                ELSE IF fat[c] # FREE /\ v = FREE THEN FreeOf(fat) + 1 ELSE FreeOf(fat)
  <1> DEFINE new == [fat EXCEPT ![c] = v]
             S == {d \in Clusters : fat[d] = FREE}
             T == {d \in Clusters : new[d] = FREE}
  <1>1. \A d \in Clusters : new[d] = IF d = c THEN v ELSE fat[d]  OBVIOUS
  <1>2. IsFiniteSet(S) /\ IsFiniteSet(T) /\ Cardinality(S) \in 0 .. (ClustCnt - 2)
    BY ClustersFinite
  <1>3. fat[c] = FREE /\ v # FREE => T = S \ {c} /\ c \in S  BY <1>1
  <1>4. fat[c] # FREE /\ v = FREE => T = S \cup {c} /\ c \notin S  BY <1>1
  <1>5. (fat[c] = FREE <=> v = FREE) => T = S  BY <1>1
  <1>6. FreeOf(fat) = Cardinality(S) /\ FreeOf(new) = Cardinality(T)  BY DEF FreeOf
  <1> HIDE DEF S, T, new
  <1>7. fat[c] = FREE /\ v # FREE => Cardinality(T) = Cardinality(S) - 1
    BY <1>2, <1>3, FS_RemoveElement
  <1>8. fat[c] # FREE /\ v = FREE => Cardinality(T) = Cardinality(S) + 1
    BY <1>2, <1>4, FS_AddElement
  <1>9. FreeOf(new) = IF fat[c] = FREE /\ v # FREE THEN FreeOf(fat) - 1
                      ELSE IF fat[c] # FREE /\ v = FREE THEN FreeOf(fat) + 1 ELSE FreeOf(fat)
    BY <1>5, <1>6, <1>7, <1>8
  <1> QED BY <1>2, <1>6, <1>9 DEF new
-----------------------------------------------------------------------------
(* The two copies: an entry in which they differ, for a failure.  Between   *)
(* the two halves of put_fat they also differ in the entry that is put.     *)
Apart(mir, fat) == {c \in Clusters : mir[c] # fat[c]}
MidPut == IF pc \in Puts THEN {PutCell(pc)} ELSE {}

MirrorCost ==
    Mirrored =>
      /\ Cardinality(Apart(MirView, ActView) \ MidPut) <= faults
      /\ pc \in Puts => MirView[PutCell(pc)] = PutVal(pc)
      /\ Cardinality(Apart(MirOnDisk, FatOnDisk)) <= faults + 1

(* What is on the medium differs no more than what was seen, or than it did. *)
LEMMA MirrorOnDisk ==
    ASSUME CallFits, Mirrored, MirrorCost, Stays \/ Settles, faults' = faults \/ faults' = faults + 1
    PROVE  Cardinality(Apart(MirOnDisk, FatOnDisk)') <= faults' + 1
  <1>1. faults \in Nat  BY DEF CallFits
  <1>2. CASE Stays
    <2>1. Apart(MirOnDisk, FatOnDisk)' = Apart(MirOnDisk, FatOnDisk)  BY <1>2 DEF Stays, Apart
    <2> DEFINE A == Apart(MirOnDisk, FatOnDisk)
    <2>2. A \in SUBSET Clusters /\ Cardinality(A) <= faults + 1  BY DEF Apart, MirrorCost
    <2>3. Cardinality(A) \in Nat  BY <2>2, ClustersFinite
    <2> HIDE DEF A
    <2> QED BY <1>1, <2>1, <2>2, <2>3 DEF A
  <1>3. CASE Settles
    <2> DEFINE A == Apart(MirView, ActView)
    <2>1. Apart(MirOnDisk, FatOnDisk)' = A  BY <1>3 DEF Settles, Apart
    <2>2. A \in SUBSET Clusters /\ A \ MidPut \in SUBSET Clusters /\ Cardinality(A \ MidPut) <= faults
      BY DEF Apart, MirrorCost
    <2>3. \E x \in Clusters : A \subseteq (A \ MidPut) \cup {x}
      <3>1. pc \in Puts => PutCell(pc) \in Clusters  BY PutTypes
      <3> QED BY <3>1, Constants DEF MidPut
    <2> HIDE DEF A
    <2>4. Cardinality(A) <= faults + 1 /\ Cardinality(A) \in Nat  BY <1>1, <2>2, <2>3, Counting
    <2> QED BY <1>1, <2>1, <2>4
  <1> QED BY <1>2, <1>3

(* A step that leaves both copies alone, and is not between the halves after it. *)
LEMMA MirrorStill ==
    ASSUME CallFits, MirrorCost, ActView' = ActView, MirView' = MirView, Stays \/ Settles,
           Mirrored => pc' \notin Puts,
           (faults' = faults /\ pc \notin Puts) \/ faults' = faults + 1
    PROVE  MirrorCost'
  <1> SUFFICES ASSUME Mirrored PROVE MirrorCost'  BY DEF MirrorCost
  <1>1. faults \in Nat /\ MidPut' = {}  BY DEF CallFits, MidPut
  <1> DEFINE A == Apart(MirView, ActView)
  <1>2. A \in SUBSET Clusters /\ A \ MidPut \in SUBSET Clusters /\ Cardinality(A \ MidPut) <= faults
    BY DEF Apart, MirrorCost
  <1>3. Apart(MirView, ActView)' \ MidPut' = A  BY <1>1 DEF Apart
  <1>4. pc \notin Puts => A = A \ MidPut  BY DEF MidPut
  <1>5. \E x \in Clusters : A \subseteq (A \ MidPut) \cup {x}
    <2>1. pc \in Puts => PutCell(pc) \in Clusters  BY PutTypes
    <2> QED BY <2>1, Constants DEF MidPut
  <1> HIDE DEF A
  <1>6. Cardinality(A) <= faults' /\ Cardinality(A) \in Nat
    <2>1. Cardinality(A) \in Nat  BY <1>2, ClustersFinite
    <2>2. CASE faults' = faults /\ pc \notin Puts
      BY <1>2, <1>4, <2>1, <2>2
    <2>3. CASE faults' = faults + 1
      BY <1>1, <1>2, <1>5, <2>3, Counting
    <2> QED BY <2>1, <2>2, <2>3
  <1>7. Cardinality(Apart(MirOnDisk, FatOnDisk)') <= faults' + 1  BY MirrorOnDisk
  <1> QED BY <1>3, <1>6, <1>7 DEF MirrorCost

(* The second half of put_fat. *)
LEMMA MirrorPut ==
    ASSUME MediumFits, CallFits, MirrorCost, pc \in Puts, PutsAct(PutCell(pc), PutVal(pc)), pc' \notin Puts,
           faults' = faults
    PROVE  MirrorCost'
  <1> SUFFICES ASSUME Mirrored PROVE MirrorCost'  BY DEF MirrorCost
  <1>1. faults \in Nat /\ MidPut' = {} /\ PutCell(pc) \in Clusters  BY PutTypes DEF CallFits, MidPut
  <1> DEFINE A == Apart(MirView, ActView)
             B == Apart(MirView, ActView)' \ MidPut'
  <1>2. A \ MidPut \in SUBSET Clusters /\ Cardinality(A \ MidPut) <= faults
    BY DEF Apart, MirrorCost
  <1>3. B \subseteq A \ MidPut /\ B \in SUBSET Clusters
    <2>1. ActView' = [ActView EXCEPT ![PutCell(pc)] = PutVal(pc)] /\ MirView' = MirView  BY DEF PutsAct
    <2>2. ActView \in [Clusters -> FatVals]  BY ViewTypes
    <2>3. MirView[PutCell(pc)] = PutVal(pc)  BY DEF MirrorCost
    <2>4. \A c \in Clusters : ActView'[c] = IF c = PutCell(pc) THEN PutVal(pc) ELSE ActView[c]
      BY <2>1, <2>2
    <2> QED BY <1>1, <2>1, <2>3, <2>4 DEF Apart, MidPut
  <1> HIDE DEF A, B
  <1>4. Cardinality(B) <= faults'  BY <1>1, <1>2, <1>3, Counting
  <1>5. Cardinality(Apart(MirOnDisk, FatOnDisk)') <= faults' + 1  BY MirrorOnDisk DEF PutsAct
  <1> QED BY <1>4, <1>5 DEF MirrorCost, B

(* Where put_fat begins, when there is a mirror. *)
LEMMA MirrorFirst == ASSUME NEW p \in Puts, Mirrored PROVE FirstPut(p) \notin Puts /\ MirrorPc[p] \notin Puts
  BY DEF FirstPut, MirrorPc, Puts

LEMMA MirrorKeeps == ASSUME MediumFits, CallFits, MirrorCost, Moves PROVE MirrorCost'
  <1>1. ASSUME NEW e, FailsAt(e) PROVE MirrorCost'
    <2>1. pc' \notin Puts  BY <1>1 DEF FailsAt, Return, Puts
    <2> QED BY <1>1, <2>1, MirrorStill DEF FailsAt, Looks, SameView
  <1>2. ASSUME NEW e, Rests(e), pc \notin Puts PROVE MirrorCost'
    <2>1. pc' \notin Puts  BY <1>2 DEF Rests, Return, Puts
    <2> QED BY <1>2, <2>1, MirrorStill DEF Rests, Looks, SameView
  <1>3. ASSUME NEW l, GoesOn(l), pc \notin Puts, Mirrored => l \notin Puts PROVE MirrorCost'
    <2>1. Mirrored => pc' \notin Puts  BY <1>3 DEF GoesOn, Goto
    <2> QED BY <1>3, <2>1, MirrorStill DEF GoesOn, Looks, SameView
  <1>4. /\ Mirrored => FirstPut("eoc") \notin Puts /\ FirstPut("link") \notin Puts /\ FirstPut("rm") \notin Puts
        /\ {"eoc", "link", "rm"} = Puts
    BY MirrorFirst DEF Puts
  <1>5. CASE Begins
    <2>1. pc \notin Puts /\ pc' \notin Puts  BY <1>5 DEF Begins, Puts
    <2> QED BY <1>5, <2>1, MirrorStill DEF Begins, Looks, SameView
  <1>6. CASE FindMoves
    <2>1. pc \notin Puts /\ "scan" \notin Puts /\ "walk" \notin Puts /\ "rmGet" \notin Puts
      BY <1>6 DEF FindMoves, Puts
    <2> QED BY <1>1, <1>2, <1>3, <1>6, <2>1 DEF FindMoves
  <1>7. CASE WalkMoves
    <2>1. pc \notin Puts /\ "near" \notin Puts /\ "walk" \notin Puts  BY <1>7 DEF WalkMoves, Puts
    <2> QED BY <1>1, <1>2, <1>3, <1>7, <2>1 DEF WalkMoves
  <1>8. CASE NearMoves
    <2>1. pc \notin Puts /\ "scan" \notin Puts  BY <1>8 DEF NearMoves, Puts
    <2> QED BY <1>1, <1>3, <1>4, <1>8, <2>1 DEF NearMoves
  <1>9. CASE ScanMoves
    <2>1. pc \notin Puts /\ "scan" \notin Puts /\ "add" \notin Puts  BY <1>9 DEF ScanMoves, Puts
    <2>2. Looks /\ pc' = "add" /\ faults' = faults + 1 => MirrorCost'
      BY <2>1, MirrorStill DEF Looks, SameView
    <2> QED BY <1>1, <1>2, <1>3, <1>4, <1>9, <2>1, <2>2 DEF ScanMoves
  <1>10. ASSUME NEW p \in Puts, MirrorMoves(p), ~FailsAt("IO") PROVE MirrorCost'
    <2>1. /\ pc = MirrorPc[p] /\ PutsMir(PutCell(p), PutVal(p)) /\ pc' = p /\ call' = call /\ faults' = faults
      BY <1>10 DEF MirrorMoves, Goto
    <2>2. PutCell(p) \in Clusters /\ PutVal(p) \in FatVals  BY <2>1, PutTypes
    <2>3. PutCell(p)' = PutCell(p) /\ PutVal(p)' = PutVal(p)  BY <2>1 DEF PutCell, PutVal
    <2> DEFINE A == Apart(MirView, ActView) \ MidPut
               B == Apart(MirView, ActView)' \ MidPut'
    <2> SUFFICES ASSUME Mirrored PROVE MirrorCost'  BY DEF MirrorCost
    <2>4. faults \in Nat /\ MidPut = {} /\ MidPut' = {PutCell(p)}
      BY <2>1, <2>3, MirrorFirst DEF CallFits, MidPut
    <2>5. A \in SUBSET Clusters /\ B \in SUBSET Clusters /\ Cardinality(A) <= faults
      BY DEF Apart, MirrorCost
    <2>6. /\ \A c \in Clusters : MirView'[c] = IF c = PutCell(p) THEN PutVal(p) ELSE MirView[c]
          /\ ActView' = ActView
      BY <2>1, ViewTypes DEF PutsMir
    <2>7. B \subseteq A  BY <2>4, <2>6 DEF Apart
    <2> HIDE DEF A, B
    <2>8. Cardinality(B) <= faults'  BY <2>1, <2>4, <2>5, <2>7, Counting
    <2>9. MirView'[PutCell(p)'] = PutVal(p)'  BY <2>2, <2>3, <2>6
    <2>10. Cardinality(Apart(MirOnDisk, FatOnDisk)') <= faults' + 1  BY <2>1, MirrorOnDisk DEF PutsMir
    <2> QED BY <2>1, <2>8, <2>9, <2>10 DEF MirrorCost, B
  <1>11. CASE EocMoves /\ ~FailsAt("IO")
    <2>1. PutCell(pc) = call.clust /\ PutVal(pc) = EOC /\ pc \in Puts  BY <1>11 DEF EocMoves, PutCell, PutVal, Puts
    <2>2. PutsAct(PutCell(pc), PutVal(pc)) /\ faults' = faults /\ (Mirrored => pc' \notin Puts)
      BY <1>4, <1>11, <2>1 DEF EocMoves, Goto, Allocated
    <2> QED BY <2>1, <2>2, MirrorPut DEF MirrorCost
  <1>12. CASE LinkMoves /\ ~FailsAt("IO")
    <2>1. PutCell(pc) = call.prev /\ PutVal(pc) = call.clust /\ pc \in Puts
      BY <1>12 DEF LinkMoves, PutCell, PutVal, Puts
    <2>2. PutsAct(PutCell(pc), PutVal(pc)) /\ faults' = faults /\ pc' \notin Puts
      BY <1>12, <2>1 DEF LinkMoves, Goto, Allocated, Puts
    <2> QED BY <2>1, <2>2, MirrorPut
  <1>13. CASE RmMoves /\ ~FailsAt("IO")
    <2>1. PutCell(pc) = call.clust /\ PutVal(pc) = FREE /\ pc \in Puts  BY <1>13 DEF RmMoves, PutCell, PutVal, Puts
    <2>2. PutsAct(PutCell(pc), PutVal(pc)) /\ faults' = faults /\ pc' \notin Puts
      BY <1>13, <2>1 DEF RmMoves, Goto, Puts
    <2> QED BY <2>1, <2>2, MirrorPut
  <1>14. CASE RmGetMoves
    <2>1. pc \notin Puts  BY <1>14 DEF RmGetMoves, Puts
    <2> QED BY <1>1, <1>2, <1>3, <1>4, <1>14, <2>1 DEF RmGetMoves
  <1>15. ASSUME Syncing, Synced PROVE pc' \notin Puts
    BY <1>15 DEF Synced, Return, Goto, CallFits, CallSet, Puts
  <1>16. CASE (FlushMoves \/ InfoMoves \/ InfoFlushMoves) /\ ~FailsAt("IO")
    <2>1. pc \notin Puts /\ Syncing  BY <1>16 DEF FlushMoves, InfoMoves, InfoFlushMoves, Puts, Syncing
    <2>2. pc' \notin Puts /\ faults' = faults
      BY <1>15, <1>16, <2>1 DEF FlushMoves, InfoMoves, InfoFlushMoves, Goto, Puts
    <2>3. ActView' = ActView /\ MirView' = MirView /\ (Stays \/ Settles)
      BY <1>16 DEF FlushMoves, InfoMoves, InfoFlushMoves, Looks, SameView, PutsInfo
    <2> QED BY <2>1, <2>2, <2>3, MirrorStill
  <1>17. CASE (AddMoves \/ RmEntryMoves \/ TouchMoves) /\ ~FailsAt("IO")
    <2>1. pc \notin Puts /\ pc' \notin Puts /\ faults' = faults
      BY <1>17 DEF AddMoves, RmEntryMoves, TouchMoves, Goto, Return, Puts
    <2>2. ActView' = ActView /\ MirView' = MirView /\ (Stays \/ Settles)
      BY <1>17 DEF AddMoves, RmEntryMoves, TouchMoves, PutsDir
    <2> QED BY <2>1, <2>2, MirrorStill
  <1>18. CASE CrashMoves
    <2>1. pc' \notin Puts /\ faults' = faults + 1 /\ Stays /\ ActView' = FatOnDisk /\ MirView' = MirOnDisk
      BY <1>18 DEF CrashMoves, Puts
    <2>2. Mirrored => Cardinality(Apart(MirOnDisk, FatOnDisk)') <= faults' + 1  BY <2>1, MirrorOnDisk
    <2>3. Apart(MirView, ActView)' \ MidPut' = Apart(MirOnDisk, FatOnDisk)
      BY <2>1 DEF Apart, MidPut
    <2> QED BY <2>1, <2>2, <2>3 DEF MirrorCost
  <1>19. ASSUME FailsAt("IO") PROVE MirrorCost'
    BY <1>1, <1>19
  <1> QED BY <1>5, <1>6, <1>7, <1>8, <1>9, <1>10, <1>11, <1>12, <1>13, <1>14, <1>16, <1>17, <1>18, <1>19
          DEF Moves, CallMoves
-----------------------------------------------------------------------------
(* The count of free clusters: one too high, for a failure.  It is counted  *)
(* down after the cluster has been taken, and FSINFO follows when the call  *)
(* synchronises; while an entry dangles FSINFO may be too low.              *)
Loose(dir, fat) == \E f \in Files : Dangles(dir, fat, f)
Ahead     == vol.free_cnt - FreeOf(ActView)
InfoAhead == InfoView["free_cnt"] - FreeOf(ActView)
DiskAhead == InfoOnDisk["free_cnt"] - FreeOf(FatOnDisk)
Taken == Linking \/ (pc \in {"flush", "info"} /\ call.op \in {"create", "extend"})

CountCost ==
    /\ Ahead >= 0 /\ Ahead <= faults + 1
    /\ IF Linking THEN Ahead >= 1 ELSE Ahead <= faults
    /\ ~Loose(DirView, ActView) => /\ InfoAhead >= 0 /\ InfoAhead <= faults + 1
                                   /\ ~Taken => InfoAhead <= faults
    /\ ~Loose(DirOnDisk, FatOnDisk) => DiskAhead >= 0 /\ DiskAhead <= faults + 1
    /\ pc # "dead"

LEMMA CountTypes ==
    ASSUME MediumFits, CallFits
    PROVE  /\ FreeOf(ActView) \in 0 .. (ClustCnt - 2) /\ FreeOf(FatOnDisk) \in 0 .. (ClustCnt - 2)
           /\ vol.free_cnt \in 0 .. (CountMod - 1) /\ faults \in Nat
           /\ InfoView["free_cnt"] \in Nat /\ InfoOnDisk["free_cnt"] \in Nat
           /\ Ahead \in Int /\ InfoAhead \in Int /\ DiskAhead \in Int
           /\ ActView \in [Clusters -> FatVals]
  <1>1. /\ ActView \in [Clusters -> FatVals] /\ FatOnDisk \in [Clusters -> FatVals]
        /\ InfoView \in InfoVals /\ InfoOnDisk \in InfoVals
    BY ViewTypes
  <1>2. FreeOf(ActView) \in 0 .. (ClustCnt - 2) /\ FreeOf(FatOnDisk) \in 0 .. (ClustCnt - 2)
    BY <1>1, FreeChanges, Marks, Constants
  <1>3. /\ vol.free_cnt \in 0 .. (CountMod - 1) /\ faults \in Nat
        /\ InfoView["free_cnt"] \in Nat /\ InfoOnDisk["free_cnt"] \in Nat
    BY <1>1 DEF CallFits, VolSet, InfoVals
  <1> QED BY <1>1, <1>2, <1>3, Constants DEF Ahead, InfoAhead, DiskAhead

LEMMA CountOnDisk ==
    ASSUME MediumFits, CallFits, CountCost, Stays \/ Settles, faults' = faults \/ faults' = faults + 1,
           ~Loose(DirOnDisk, FatOnDisk)'
    PROVE  DiskAhead' >= 0 /\ DiskAhead' <= faults' + 1
  <1>1. CASE Stays
    <2>1. Loose(DirOnDisk, FatOnDisk)' <=> Loose(DirOnDisk, FatOnDisk)
      BY <1>1 DEF Stays, Loose, Dangles
    <2>2. DiskAhead' = DiskAhead  BY <1>1 DEF Stays, DiskAhead
    <2> QED BY <2>1, <2>2, CountTypes DEF CountCost
  <1>2. CASE Settles
    <2>1. Loose(DirOnDisk, FatOnDisk)' <=> Loose(DirView, ActView)
      BY <1>2 DEF Settles, Loose, Dangles
    <2>2. DiskAhead' = InfoAhead  BY <1>2 DEF Settles, DiskAhead, InfoAhead
    <2> QED BY <2>1, <2>2, CountTypes DEF CountCost
  <1> QED BY <1>1, <1>2

(* A step that leaves the counts alone. *)
LEMMA CountStill ==
    ASSUME MediumFits, CallFits, CountCost, ActView' = ActView, DirView' = DirView, InfoView' = InfoView,
           Stays \/ Settles, vol'.free_cnt = vol.free_cnt, pc' # "dead", Linking' => Linking,
           \/ faults' = faults + 1
           \/ /\ faults' = faults /\ (Linking => Linking')
              /\ Taken => Taken' \/ InfoView["free_cnt"] = vol.free_cnt
    PROVE  CountCost'
  <1>1. ActView' = ActView /\ DirView' = DirView /\ InfoView' = InfoView /\ (Stays \/ Settles)
    OBVIOUS
  <1>2. Ahead' = Ahead /\ InfoAhead' = InfoAhead  BY <1>1 DEF Ahead, InfoAhead
  <1>3. Loose(DirView, ActView)' <=> Loose(DirView, ActView)  BY <1>1 DEF Loose, Dangles
  <1>4. ~Loose(DirOnDisk, FatOnDisk)' => DiskAhead' >= 0 /\ DiskAhead' <= faults' + 1
    BY <1>1, CountOnDisk
  <1>5. InfoView["free_cnt"] = vol.free_cnt => InfoAhead = Ahead  BY DEF InfoAhead, Ahead
  <1>6. Linking => Taken  BY DEF Taken
  <1>7. CASE faults' = faults + 1
    BY <1>2, <1>3, <1>4, <1>7, CountTypes DEF CountCost
  <1>8. CASE /\ faults' = faults /\ (Linking => Linking')
             /\ Taken => Taken' \/ InfoView["free_cnt"] = vol.free_cnt
    <2>1. (Linking' <=> Linking) /\ (Linking' => Taken')  BY <1>8 DEF Taken
    <2> QED BY <1>2, <1>3, <1>4, <1>5, <1>6, <1>8, <2>1, CountTypes DEF CountCost
  <1> QED BY <1>7, <1>8

(* A step that puts an entry of the FAT. *)
LEMMA CountPut ==
    ASSUME MediumFits, CallFits, CountCost, NEW c \in Clusters, NEW v \in FatVals, PutsAct(c, v),
           pc' # "dead", faults' = faults,
           NEW n \in 0 .. (CountMod - 1), vol'.free_cnt = n,
           LET a == n - FreeOf(ActView') IN
             a >= 0 /\ a <= faults + 1 /\ IF Linking' THEN a >= 1 ELSE a <= faults,
           ~Loose(DirView, ActView)' =>
             /\ Taken' /\ ~Loose(DirView, ActView)
             /\ \/ ~Taken /\ FreeOf(ActView') = FreeOf(ActView) - 1
                \/ FreeOf(ActView') = FreeOf(ActView)
    PROVE  CountCost'
  <1>1. InfoView' = InfoView /\ (Stays \/ Settles)
    BY DEF PutsAct
  <1>2. ~Loose(DirOnDisk, FatOnDisk)' => DiskAhead' >= 0 /\ DiskAhead' <= faults' + 1
    BY <1>1, CountOnDisk
  <1>3. Ahead' = n - FreeOf(ActView') /\ InfoAhead' = InfoView["free_cnt"] - FreeOf(ActView')
    BY <1>1 DEF Ahead, InfoAhead
  <1>4. ~Loose(DirView, ActView)' => InfoAhead' >= 0 /\ InfoAhead' <= faults + 1 /\ Taken'
    BY <1>3, CountTypes DEF CountCost, InfoAhead
  <1> QED BY <1>2, <1>3, <1>4 DEF CountCost

(* While no entry is being removed, none dangles. *)
LEMMA NotLoose == ASSUME Whole, ~Removing PROVE ~Loose(DirView, ActView)
  BY NotRemoving DEF Whole, Loose

LEMMA EocCounts ==
    ASSUME MediumFits, CallFits, CountCost, Whole, EocMoves, ~FailsAt("IO") PROVE CountCost'
  <1> USE DEF Taken, Linking, Stretching, Syncing, Freeing, Removing
  <1>0. /\ pc = "eoc" /\ call.clust \in Clusters /\ call.op \in {"create", "extend"} /\ vol \in VolSet
        /\ ActView[call.clust] = FREE /\ ~Loose(DirView, ActView)
        /\ PutsAct(call.clust, EOC) /\ faults' = faults
    BY NotLoose DEF EocMoves, CallFits, Whole, InHand
  <1>1. ActView' = [ActView EXCEPT ![call.clust] = EOC] /\ ActView \in [Clusters -> FatVals]
    BY <1>0, ViewTypes DEF PutsAct
  <1>2. /\ FreeOf(ActView') = FreeOf(ActView) - 1 /\ FreeOf(ActView) \in Nat /\ FreeOf(ActView') \in Nat
    <2>1. ActView' \in [Clusters -> FatVals]  BY <1>1, Marks
    <2>4. EOC \in FatVals /\ EOC # FREE /\ call.clust \in Clusters /\ ActView[call.clust] = FREE
      BY <1>0, Marks
    <2>2. FreeOf([ActView EXCEPT ![call.clust] = EOC]) = FreeOf(ActView) - 1
      BY <1>1, <2>4, FreeChanges
    <2>3. FreeOf(ActView) \in 0 .. (ClustCnt - 2) /\ FreeOf(ActView') \in 0 .. (ClustCnt - 2)
      BY <1>0, <1>1, <2>1, FreeChanges, Marks
    <2> QED BY <1>1, <2>2, <2>3
  <1>3. Ahead >= 0 /\ Ahead <= faults /\ vol.free_cnt \in 0 .. (CountMod - 1) /\ faults \in Nat
    <2>1. Ahead >= 0 /\ Ahead <= faults  BY <1>0 DEF CountCost
    <2> QED BY <2>1, CountTypes
  <1>4. CASE call.prev # 0 /\ Goto(FirstPut("link")) /\ UNCHANGED <<vol, call>>
    <2>1. pc' \in {"linkM", "link"}  BY <1>4, FirstPuts DEF Goto
    <2>2. /\ vol.free_cnt - FreeOf(ActView') >= 1 /\ vol.free_cnt - FreeOf(ActView') <= faults + 1
      BY <1>2, <1>3 DEF Ahead
    <2>3. Linking' /\ Taken' /\ ~Taken  BY <1>0, <2>1
    <2> QED BY <1>0, <1>2, <1>3, <1>4, <2>1, <2>2, <2>3, CountPut, Marks
  <1>5. CASE Allocated
    <2>1. pc' = "flush" /\ call'.op = call.op /\ vol'.free_cnt = CountDown(vol.free_cnt)
      BY <1>0, <1>5, AllocatedFits
    <2>2. vol.free_cnt > 0  BY <1>2, <1>3 DEF Ahead
    <2>3. vol'.free_cnt = vol.free_cnt - 1  BY <1>3, <2>1, <2>2, CountFits
    <2> DEFINE n == vol.free_cnt - 1
    <2>4. n \in 0 .. (CountMod - 1) /\ n - FreeOf(ActView') >= 0 /\ n - FreeOf(ActView') <= faults
      BY <1>2, <1>3, <2>2, Constants DEF Ahead
    <2>a. call.op \in {"create", "extend"} /\ pc = "eoc"  BY <1>0
    <2>5. ~Linking' /\ Taken' /\ ~Taken  BY <2>a, <2>1
    <2>6. vol'.free_cnt = n  BY <2>3
    <2> HIDE DEF n
    <2>7. n - FreeOf(ActView') \in Int /\ n - FreeOf(ActView') <= faults + 1  BY <1>2, <1>3, <2>4
    <2> QED BY <1>0, <1>2, <2>1, <2>4, <2>5, <2>6, <2>7, CountPut, Marks
  <1> QED BY <1>4, <1>5 DEF EocMoves

LEMMA LinkCounts ==
    ASSUME MediumFits, CallFits, CountCost, Whole, LinkMoves, ~FailsAt("IO") PROVE CountCost'
  <1> USE DEF Taken, Linking, Stretching, Syncing, Freeing, Removing
  <1>0. /\ pc = "link" /\ call.clust \in Clusters /\ call.prev \in Clusters /\ call.op = "extend"
        /\ vol \in VolSet /\ ActView[call.prev] = EOC /\ ~Loose(DirView, ActView)
        /\ PutsAct(call.prev, call.clust) /\ Allocated /\ faults' = faults
    <2>1. pc = "link" /\ PutsAct(call.prev, call.clust) /\ Allocated /\ faults' = faults
      BY DEF LinkMoves
    <2>2. call.op = "extend"  BY <2>1 DEF CallFits
    <2>3. call.prev # 0 /\ call.prev \in {0} \cup Clusters /\ call.clust \in Clusters /\ vol \in VolSet
      BY <2>1, <2>2 DEF CallFits
    <2> QED BY <2>1, <2>2, <2>3, NotLoose DEF Whole, InHand
  <1>1. ActView' = [ActView EXCEPT ![call.prev] = call.clust] /\ ActView \in [Clusters -> FatVals]
    BY <1>0, ViewTypes DEF PutsAct
  <1>2. FreeOf(ActView') = FreeOf(ActView) /\ FreeOf(ActView) \in Nat
    <2>1. FreeOf(ActView) \in 0 .. (ClustCnt - 2)  BY CountTypes
    <2>2. call.clust \in FatVals /\ call.clust # FREE /\ ActView[call.prev] # FREE  BY <1>0, Marks
    <2>3. FreeOf([ActView EXCEPT ![call.prev] = call.clust]) = FreeOf(ActView)
      BY <1>0, <1>1, <2>2, FreeChanges
    <2> QED BY <1>1, <2>1, <2>3
  <1>3. Ahead >= 1 /\ Ahead <= faults + 1 /\ vol.free_cnt \in 0 .. (CountMod - 1) /\ faults \in Nat
    <2>1. Ahead >= 1 /\ Ahead <= faults + 1  BY <1>0 DEF CountCost
    <2> QED BY <2>1, CountTypes
  <1>4. pc' = "flush" /\ call'.op = call.op /\ vol'.free_cnt = CountDown(vol.free_cnt)
    BY <1>0, AllocatedFits
  <1>5. vol.free_cnt > 0  BY <1>2, <1>3 DEF Ahead
  <1>6. vol'.free_cnt = vol.free_cnt - 1  BY <1>3, <1>4, <1>5, CountFits
  <1> DEFINE n == vol.free_cnt - 1
  <1>7. n \in 0 .. (CountMod - 1) /\ n - FreeOf(ActView') >= 0 /\ n - FreeOf(ActView') <= faults
    BY <1>2, <1>3, <1>5, Constants DEF Ahead
  <1>8. ~Linking' /\ Taken'
    <2>1. call.op = "extend"  BY <1>0
    <2> QED BY <1>4, <2>1
  <1>9. vol'.free_cnt = n  BY <1>6
  <1> HIDE DEF n
  <1>10. n - FreeOf(ActView') <= faults + 1  BY <1>2, <1>3, <1>7
  <1> QED BY <1>0, <1>2, <1>4, <1>7, <1>8, <1>9, <1>10, CountPut, Marks

LEMMA RmCounts ==
    ASSUME ClustCnt + MaxFaults < CountMod, MediumFits, CallFits, CountCost, Whole, RmMoves, ~FailsAt("IO")
    PROVE  CountCost'
  <1> USE DEF Taken, Linking, Stretching, Syncing, Freeing, Removing
  <1>0. /\ pc = "rm" /\ call.clust \in Clusters /\ call.op = "unlink" /\ vol \in VolSet
        /\ PutsAct(call.clust, FREE) /\ faults' = faults
        /\ vol' = [vol EXCEPT !.free_cnt = (vol.free_cnt + 1) % CountMod]
        /\ pc' \in {"flush", "rmGet"} /\ call.f \in Files
    BY DEF RmMoves, CallFits, Goto
  <1>1. /\ ActView' = [ActView EXCEPT ![call.clust] = FREE] /\ ActView \in [Clusters -> FatVals]
        /\ DirView' = DirView /\ DirView \in DirVals
    BY <1>0, ViewTypes DEF PutsAct
  <1>2. ActView[call.clust] # FREE
    <2>1. call.next \in Clusters \cup {EOC} /\ call.next = ActView[call.clust]
      BY <1>0 DEF CallFits, Whole, InHand
    <2> QED BY <2>1, Marks
  <1>3. FreeOf(ActView') = FreeOf(ActView) + 1 /\ FreeOf(ActView) \in 0 .. (ClustCnt - 2)
    BY <1>0, <1>1, <1>2, FreeChanges, Marks
  <1>4. Ahead >= 0 /\ Ahead <= faults /\ vol.free_cnt \in 0 .. (CountMod - 1) /\ faults \in 0 .. MaxFaults
    BY <1>0, CountTypes DEF CountCost, CallFits
  <1>5. (vol.free_cnt + 1) % CountMod = vol.free_cnt + 1 /\ vol.free_cnt + 1 < CountMod
    <2>1. vol.free_cnt + 1 < CountMod  BY <1>3, <1>4, Constants DEF Ahead
    <2> QED BY <1>4, <2>1, CountFits
  <1> DEFINE n == vol.free_cnt + 1
  <1>6. n \in 0 .. (CountMod - 1) /\ n - FreeOf(ActView') >= 0 /\ n - FreeOf(ActView') <= faults
    BY <1>3, <1>4, <1>5, Constants DEF Ahead
  <1>7. vol' = [vol EXCEPT !.free_cnt = n]  BY <1>0, <1>5
  <1> HIDE DEF n
  <1>8. vol'.free_cnt = n  BY <1>0, <1>7 DEF VolSet
  <1>9. Loose(DirView, ActView)'
    <2>1. /\ call.clust # RootClust /\ (\A d \in Clusters : ActView[d] # call.clust)
          /\ DirView[call.f] = call.clust \/ Dangles(DirView, ActView, call.f)
          /\ Sound(DirView, ActView)
      BY <1>0 DEF Whole, InHand, Entries
    <2>2. Dangles(DirView, ActView', call.f)  BY <1>0, <1>1, <2>1, SoundFree
    <2> QED BY <1>0, <1>1, <2>2 DEF Loose
  <1>10. ~Linking' /\ n - FreeOf(ActView') <= faults + 1
    BY <1>0, <1>3, <1>4, <1>6 
  <1> QED BY <1>0, <1>6, <1>8, <1>9, <1>10, CountPut, Marks

(* A step that leaves the FAT and the count alone, and FSINFO right.        *)
LEMMA CountTurn ==
    ASSUME MediumFits, CallFits, CountCost, ActView' = ActView, Stays \/ Settles, faults' = faults,
           vol'.free_cnt = vol.free_cnt, ~Linking, ~Linking', pc' # "dead",
           InfoAhead' \in Int, ~Loose(DirView, ActView)' => InfoAhead' >= 0 /\ InfoAhead' <= faults
    PROVE  CountCost'
  <1>1. Ahead' = Ahead  BY DEF Ahead
  <1>2. ~Loose(DirOnDisk, FatOnDisk)' => DiskAhead' >= 0 /\ DiskAhead' <= faults' + 1
    BY CountOnDisk
  <1> QED BY <1>1, <1>2, CountTypes DEF CountCost

LEMMA ReturnCounts ==
    ASSUME MediumFits, CallFits, CountCost, NEW e, FailsAt(e) \/ (Rests(e) /\ ~Taken) PROVE CountCost'
  <1>1. /\ pc' = "idle" /\ vol' = vol /\ Looks /\ ~Linking' /\ (Taken \/ ~Linking)
        /\ faults' = faults + 1 \/ (faults' = faults /\ ~Taken)
    BY DEF FailsAt, Rests, Return, Linking, Taken
  <1> QED BY <1>1, CountStill DEF Looks, SameView, Taken

LEMMA GoesOnCounts ==
    ASSUME MediumFits, CallFits, CountCost, NEW l, GoesOn(l), l # "dead", l \notin {"linkM", "link"},
           ~Taken, vol'.free_cnt = vol.free_cnt
    PROVE  CountCost'
  <1>1. pc' = l /\ Looks /\ faults' = faults /\ ~Linking' /\ ~Linking
    BY DEF GoesOn, Goto, Linking, Taken
  <1> QED BY <1>1, CountStill DEF Looks, SameView

(* Looking for a cluster, and following a chain. *)
LEMMA SearchCounts ==
    ASSUME MediumFits, CallFits, CountCost, ~torn',
           Begins \/ FindMoves \/ WalkMoves \/ NearMoves \/ ScanMoves \/ RmGetMoves
    PROVE  CountCost'
  <1> DEFINE places == {"scan", "walk", "near", "rmGet", "eocM", "eoc", "rmM", "rm"}
  <1>0. pc \in {"idle", "find", "walk", "near", "scan", "rmGet"} /\ ~Taken /\ ~Linking
    BY DEF Begins, FindMoves, WalkMoves, NearMoves, ScanMoves, RmGetMoves, Taken, Linking
  <1>1. ASSUME NEW e, FailsAt(e) \/ Rests(e) PROVE CountCost'
    BY <1>0, <1>1, ReturnCounts
  <1>2. ASSUME NEW l \in places, GoesOn(l), vol' = vol \/ vol' = [vol EXCEPT !.dirty = TRUE] PROVE CountCost'
    <2>1. vol'.free_cnt = vol.free_cnt  BY <1>2 DEF CallFits, VolSet
    <2> QED BY <1>0, <1>2, <2>1, GoesOnCounts
  <1>3. CASE Begins
    <2>1. Looks /\ vol' = vol /\ faults' = faults /\ pc' \in {"touch", "find", "flush"}  BY <1>3 DEF Begins
    <2> QED BY <1>0, <2>1, CountStill DEF Looks, SameView, Linking
  <1>4. CASE FindMoves
    BY <1>1, <1>2, <1>4 DEF FindMoves
  <1>5. CASE WalkMoves
    BY <1>1, <1>2, <1>5 DEF WalkMoves
  <1>6. FirstPut("eoc") \in places /\ FirstPut("rm") \in places  BY FirstPuts
  <1>7. CASE NearMoves
    BY <1>1, <1>2, <1>6, <1>7 DEF NearMoves
  <1>8. CASE ScanMoves
    BY <1>1, <1>2, <1>6, <1>8 DEF ScanMoves
  <1>9. CASE RmGetMoves
    BY <1>1, <1>2, <1>6, <1>9 DEF RmGetMoves
  <1> QED BY <1>3, <1>4, <1>5, <1>7, <1>8, <1>9

LEMMA MirrorCounts ==
    ASSUME MediumFits, CallFits, CountCost, NEW p \in Puts, MirrorMoves(p), ~FailsAt("IO") PROVE CountCost'
  <1>1. /\ PutsMir(PutCell(p), PutVal(p)) /\ vol' = vol /\ faults' = faults
        /\ \/ pc = "eocM" /\ pc' = "eoc"
           \/ pc = "linkM" /\ pc' = "link"
           \/ pc = "rmM" /\ pc' = "rm"
    BY DEF MirrorMoves, Puts, MirrorPc, Goto
  <1>2. /\ ActView' = ActView /\ DirView' = DirView /\ InfoView' = InfoView /\ (Stays \/ Settles)
        /\ (Linking' <=> Linking) /\ (Taken => Taken') /\ pc' # "dead"
    BY <1>1 DEF PutsMir, Linking, Taken
  <1> QED BY <1>1, <1>2, CountStill

(* sync_fs puts the count in FSINFO. *)
LEMMA SyncCounts ==
    ASSUME MediumFits, CallFits, Counted, CountCost, FlushMoves \/ InfoMoves \/ InfoFlushMoves, ~FailsAt("IO")
    PROVE  CountCost'
  <1>0. Syncing /\ ~Linking  BY DEF FlushMoves, InfoMoves, InfoFlushMoves, Syncing, Linking
  <1>1. Synced => pc' \in {"idle", "add", "rmEntry"}
    BY DEF Synced, Return, Goto, CallFits, CallSet
  <1>2. CASE FlushMoves
    <2>1. Looks /\ vol' = vol /\ faults' = faults /\ pc = "flush"  BY <1>2 DEF FlushMoves
    <2>2. CASE Goto("info") /\ UNCHANGED call
      <3>1. pc' = "info" /\ ~Linking' /\ (Taken => Taken')  BY <2>1, <2>2 DEF Goto, Linking, Taken
      <3> QED BY <1>0, <2>1, <3>1, CountStill DEF Looks, SameView
    <2>3. CASE ~vol.dirty /\ Synced
      <3>1. InfoView["free_cnt"] = vol.free_cnt /\ ~Linking' /\ pc' # "dead"
        BY <1>1, <2>3 DEF Counted, Linking
      <3> QED BY <1>0, <2>1, <3>1, CountStill DEF Looks, SameView
    <2> QED BY <1>2, <2>2, <2>3 DEF FlushMoves
  <1>3. CASE InfoMoves
    <2>1. PutsInfo /\ pc' = "infoFlush" /\ vol' = vol /\ faults' = faults /\ pc = "info"
      BY <1>3 DEF InfoMoves, Goto
    <2>2. InfoView'["free_cnt"] = vol.free_cnt /\ ActView' = ActView /\ (Stays \/ Settles)
      BY <2>1 DEF PutsInfo
    <2>3. InfoAhead' = Ahead  BY <2>2 DEF InfoAhead, Ahead
    <2>4. ~Linking'  BY <2>1 DEF Linking
    <2>5. Ahead >= 0 /\ Ahead <= faults  BY <1>0 DEF CountCost
    <2> QED BY <1>0, <2>1, <2>2, <2>3, <2>4, <2>5, CountTypes, CountTurn
  <1>4. CASE InfoFlushMoves
    <2>1. Looks /\ vol'.free_cnt = vol.free_cnt /\ faults' = faults /\ pc = "infoFlush" /\ Synced
      BY <1>4 DEF InfoFlushMoves, CallFits, VolSet
    <2>2. ~Linking' /\ pc' # "dead" /\ ~Taken  BY <1>1, <2>1 DEF Linking, Taken
    <2> QED BY <1>0, <2>1, <2>2, CountStill DEF Looks, SameView
  <1> QED BY <1>2, <1>3, <1>4

(* The entries of the directory come and go with the count in FSINFO right. *)
LEMMA EntryCounts ==
    ASSUME MediumFits, CallFits, Counted, CountCost, Whole, AddMoves \/ RmEntryMoves \/ TouchMoves,
           ~FailsAt("IO")
    PROVE  CountCost'
  <1>1. /\ pc \in {"add", "rmEntry", "touch"} /\ pc' \in {"idle", "flush"} /\ vol' = vol /\ faults' = faults
        /\ ActView' = ActView /\ InfoView' = InfoView /\ (Stays \/ Settles)
    BY DEF AddMoves, RmEntryMoves, TouchMoves, PutsDir, Return, Goto
  <1>2. ~Linking /\ ~Linking' /\ ~Taken  BY <1>1 DEF Linking, Taken
  <1>3. InfoAhead' = InfoAhead  BY <1>1 DEF InfoAhead
  <1>4. CASE pc = "add"
    <2>1. ~Removing  BY <1>4 DEF Removing, Freeing, Syncing
    <2>2. InfoAhead >= 0 /\ InfoAhead <= faults  BY <1>2, <2>1, NotLoose DEF CountCost
    <2> QED BY <1>1, <1>2, <1>3, <2>2, CountTypes, CountTurn
  <1>5. CASE pc = "rmEntry"
    <2>1. InfoView["free_cnt"] = vol.free_cnt  BY <1>5 DEF CallFits, Counted
    <2>2. InfoAhead = Ahead  BY <2>1 DEF InfoAhead, Ahead
    <2>3. Ahead >= 0 /\ Ahead <= faults  BY <1>2 DEF CountCost
    <2> QED BY <1>1, <1>2, <1>3, <2>2, <2>3, CountTypes, CountTurn
  <1>6. CASE pc = "touch"
    <2>1. TouchMoves  BY <1>6 DEF AddMoves, RmEntryMoves
    <2>2. DirView' = DirView
      <3>1. call.f \in Files  BY <1>6 DEF CallFits, Syncing
      <3> QED BY <2>1, <3>1, ViewTypes DEF TouchMoves, PutsDir, DirVals
    <2> QED BY <1>1, <1>2, <2>2, CountStill
  <1> QED BY <1>1, <1>4, <1>5, <1>6

LEMMA CrashCounts ==
    ASSUME ClustCnt + MaxFaults < CountMod, MediumFits, CallFits, CountCost, CrashMoves, ~torn'
    PROVE  CountCost'
  <1>1. /\ FatOnDisk' = FatOnDisk /\ DirOnDisk' = DirOnDisk /\ InfoOnDisk' = InfoOnDisk
        /\ ActView' = FatOnDisk /\ DirView' = DirOnDisk /\ InfoView' = InfoOnDisk
        /\ vol'.free_cnt = InfoOnDisk["free_cnt"] /\ faults' = faults + 1 /\ ~Dangling'
        /\ pc' = "idle" \/ (pc' = "dead" /\ InfoOnDisk["free_cnt"] = Unknown)
    BY DEF CrashMoves, Stays
  <1>2. ~Loose(DirOnDisk, FatOnDisk)
    BY <1>1 DEF Dangling, Loose, Dangles, ActView
  <1>3. DiskAhead >= 0 /\ DiskAhead <= faults'  BY <1>1, <1>2 DEF CountCost
  <1>4. Ahead' = DiskAhead /\ InfoAhead' = DiskAhead /\ DiskAhead' = DiskAhead
    BY <1>1 DEF Ahead, InfoAhead, DiskAhead
  <1>5. InfoOnDisk["free_cnt"] # Unknown
    <2>1. faults' <= MaxFaults /\ faults' \in Nat  BY Constants DEF CrashMoves, CallFits
    <2> QED BY <1>3, <2>1, CountTypes, Constants DEF DiskAhead, Unknown
  <1>6. pc' = "idle" /\ ~Linking'  BY <1>1, <1>5 DEF Linking
  <1> QED BY <1>1, <1>3, <1>4, <1>6, CountTypes DEF CountCost

LEMMA CountKeeps ==
    ASSUME ClustCnt + MaxFaults < CountMod, MediumFits, CallFits, Counted, Whole, CountCost, Moves, ~torn'
    PROVE  CountCost'
  <1>1. ASSUME FailsAt("IO") PROVE CountCost'
    BY <1>1, ReturnCounts
  <1> QED BY <1>1, SearchCounts, MirrorCounts, EocCounts, LinkCounts, RmCounts, SyncCounts, EntryCounts, CrashCounts
          DEF Moves, CallMoves
-----------------------------------------------------------------------------
(* The clusters that nothing leads to: one for a failure, besides the one   *)
(* that the running call holds and is about to link, enter or free.         *)
Lost(dir, fat) == {c \in Clusters : fat[c] \notin {FREE, BAD} /\ Fresh(dir, fat, c)}
Hand == IF Linking \/ Ready \/ Freeing THEN {call.clust} ELSE {}

LeakCost ==
    /\ Cardinality(Lost(DirView, ActView) \ Hand) <= faults
    /\ Cardinality(Lost(DirOnDisk, FatOnDisk)) <= faults + 1

LEMMA HandFits == ASSUME CallFits PROVE \E x \in Clusters : Hand \subseteq {x}
  <1>1. Linking \/ Ready \/ Freeing => call.clust \in Clusters
    BY DEF CallFits, Stretching, Linking
  <1> QED BY <1>1, Constants DEF Hand

(* What is lost on the medium was lost there before, or was seen to be.     *)
LEMMA LostOnDisk ==
    ASSUME CallFits, LeakCost, Stays \/ Settles, faults' = faults \/ faults' = faults + 1
    PROVE  Cardinality(Lost(DirOnDisk, FatOnDisk)') <= faults' + 1
  <1> DEFINE L == Lost(DirView, ActView)
             D == Lost(DirOnDisk, FatOnDisk)
  <1>1. faults \in Nat  BY DEF CallFits
  <1>2. /\ L \in SUBSET Clusters /\ L \ Hand \in SUBSET Clusters /\ D \in SUBSET Clusters
        /\ Cardinality(L \ Hand) <= faults /\ Cardinality(D) <= faults + 1
    BY DEF Lost, LeakCost
  <1>3. \E x \in Clusters : L \subseteq (L \ Hand) \cup {x}  BY HandFits
  <1>4. Lost(DirOnDisk, FatOnDisk)' = D \/ Lost(DirOnDisk, FatOnDisk)' = L
    BY DEF Stays, Settles, Lost, Fresh
  <1> HIDE DEF L, D
  <1>5. Cardinality(L) <= faults + 1 /\ Cardinality(L) \in Nat /\ Cardinality(D) \in Nat
    BY <1>1, <1>2, <1>3, Counting
  <1> QED BY <1>1, <1>2, <1>4, <1>5

(* A step that loses nothing. *)
LEMMA NoneLost ==
    ASSUME CallFits, LeakCost, Stays \/ Settles, faults' = faults,
           Lost(DirView, ActView)' \ Hand' \subseteq Lost(DirView, ActView) \ Hand
    PROVE  LeakCost'
  <1> DEFINE A == Lost(DirView, ActView) \ Hand
             B == Lost(DirView, ActView)' \ Hand'
  <1>1. A \in SUBSET Clusters /\ B \in SUBSET Clusters /\ B \subseteq A /\ Cardinality(A) <= faults
    BY DEF Lost, LeakCost
  <1>2. faults \in Nat  BY DEF CallFits
  <1> HIDE DEF A, B
  <1>3. Cardinality(B) <= faults'  BY <1>1, <1>2, Counting
  <1> QED BY <1>3, LostOnDisk DEF LeakCost, B

LEMMA SameLost ==
    ASSUME ActView' = ActView, DirView' = DirView PROVE Lost(DirView, ActView)' = Lost(DirView, ActView)
  BY DEF Lost, Fresh

(* A transfer that fails may lose the cluster in hand. *)
LEMMA FailureLoses == ASSUME CallFits, LeakCost, NEW e, FailsAt(e) PROVE LeakCost'
  <1> DEFINE A == Lost(DirView, ActView) \ Hand
             B == Lost(DirView, ActView)' \ Hand'
  <1>1. A \in SUBSET Clusters /\ B \in SUBSET Clusters /\ Cardinality(A) <= faults
    BY DEF Lost, LeakCost
  <1>2. faults \in Nat /\ faults' = faults + 1 /\ (Stays \/ Settles)  BY DEF CallFits, FailsAt, Looks
  <1>3. \E x \in Clusters : B \subseteq A \cup {x}
    <2>1. Lost(DirView, ActView)' = Lost(DirView, ActView)  BY SameLost DEF FailsAt, Looks, SameView
    <2> QED BY <2>1, HandFits
  <1> HIDE DEF A, B
  <1>4. Cardinality(B) <= faults'  BY <1>1, <1>2, <1>3, Counting
  <1> QED BY <1>2, <1>4, LostOnDisk DEF LeakCost, B

(* A step that shows nothing new, and holds what was held. *)
LEMMA HoldsOn ==
    ASSUME CallFits, LeakCost, ActView' = ActView, DirView' = DirView, Stays \/ Settles, faults' = faults,
           Hand \subseteq Hand' \/ Hand \cap Lost(DirView, ActView) = {}
    PROVE  LeakCost'
  BY SameLost, NoneLost

(* The search for a cluster has nothing in hand yet; freeing a chain holds  *)
(* on to its cluster.                                                       *)
LEMMA SearchLoses ==
    ASSUME CallFits, LeakCost, ~FailsAt("IO"), ~FailsAt("FLAGS"), ~torn',
           Begins \/ FindMoves \/ WalkMoves \/ NearMoves \/ ScanMoves
    PROVE  LeakCost'
  <1>1. /\ pc \in {"idle", "find", "walk", "near", "scan"} /\ Looks /\ faults' = faults
    BY DEF Begins, FindMoves, WalkMoves, NearMoves, ScanMoves, Rests, GoesOn
  <1>2. Hand = {}
    BY <1>1 DEF Hand, Linking, Ready, Freeing, Syncing
  <1> QED BY <1>1, <1>2, HoldsOn DEF Looks, SameView

LEMMA RmGetLoses ==
    ASSUME CallFits, LeakCost, ~FailsAt("IO"), RmGetMoves
    PROVE  LeakCost'
  <1>1. /\ pc = "rmGet" /\ Looks /\ faults' = faults
        /\ \/ ActView[call.clust] \in {FREE, BAD}
           \/ pc' \in {"rmM", "rm"} /\ call' = [call EXCEPT !.next = ActView[call.clust]]
    BY FirstPuts DEF RmGetMoves, Rests, GoesOn, Goto
  <1>2. Hand = {call.clust}  BY <1>1 DEF Hand, Freeing
  <1>3. CASE ActView[call.clust] \in {FREE, BAD}
    <2>1. Hand \cap Lost(DirView, ActView) = {}  BY <1>2, <1>3 DEF Lost
    <2> QED BY <1>1, <2>1, HoldsOn DEF Looks, SameView
  <1>4. CASE pc' \in {"rmM", "rm"} /\ call' = [call EXCEPT !.next = ActView[call.clust]]
    <2>1. call'.clust = call.clust  BY <1>4 DEF CallFits, CallSet
    <2>2. Hand' = {call.clust}  BY <1>4, <2>1 DEF Hand, Freeing
    <2> QED BY <1>1, <1>2, <2>2, HoldsOn DEF Looks, SameView
  <1> QED BY <1>1, <1>3, <1>4

LEMMA MirrorLoses ==
    ASSUME CallFits, LeakCost, NEW p \in Puts, MirrorMoves(p), ~FailsAt("IO") PROVE LeakCost'
  <1>1. /\ PutsMir(PutCell(p), PutVal(p)) /\ call' = call /\ faults' = faults
        /\ \/ pc = "eocM" /\ pc' = "eoc"
           \/ pc = "linkM" /\ pc' = "link"
           \/ pc = "rmM" /\ pc' = "rm"
    BY DEF MirrorMoves, Puts, MirrorPc, Goto
  <1>2. Hand' = Hand  BY <1>1 DEF Hand, Linking, Ready, Freeing, Syncing
  <1> QED BY <1>1, <1>2, HoldsOn DEF PutsMir

LEMMA SyncLoses ==
    ASSUME CallFits, LeakCost, FlushMoves \/ InfoMoves \/ InfoFlushMoves, ~FailsAt("IO") PROVE LeakCost'
  <1>1. /\ pc \in {"flush", "info", "infoFlush"} /\ faults' = faults
        /\ ActView' = ActView /\ DirView' = DirView /\ (Stays \/ Settles)
        /\ Synced \/ (pc' \in {"info", "infoFlush"} /\ call' = call)
    BY DEF FlushMoves, InfoMoves, InfoFlushMoves, Looks, SameView, PutsInfo, Goto
  <1>2. Hand \subseteq Hand'
    <2>1. CASE call.op # "create"
      BY <1>1, <2>1 DEF Hand, Linking, Ready, Freeing
    <2>2. CASE call.op = "create" /\ Synced
      <3>1. call.then = "add"  BY <1>1, <2>2 DEF CallFits, Syncing
      <3>2. pc' = "add" /\ call' = [call EXCEPT !.then = "return"]  BY <2>2, <3>1 DEF Synced, Goto
      <3>3. call'.clust = call.clust  BY <3>2 DEF CallFits, CallSet
      <3> QED BY <3>2, <3>3 DEF Hand, Ready
    <2>3. CASE call.op = "create" /\ ~Synced
      BY <1>1, <2>3 DEF Hand, Linking, Ready, Freeing, Syncing
    <2> QED BY <2>1, <2>2, <2>3
  <1> QED BY <1>1, <1>2, HoldsOn

(* The steps that put an entry: the cluster put in use is held, the one     *)
(* held is linked or entered, and the one freed leaves the next in hand.    *)
LEMMA EocLoses ==
    ASSUME MediumFits, CallFits, LeakCost, Whole, EocMoves, ~FailsAt("IO") PROVE LeakCost'
  <1>1. /\ pc = "eoc" /\ call.clust \in Clusters /\ vol \in VolSet /\ call.op \in {"create", "extend"}
        /\ call.op = "extend" <=> call.prev # 0
        /\ PutsAct(call.clust, EOC) /\ faults' = faults
        /\ (Goto(FirstPut("link")) /\ call' = call) \/ (call.prev = 0 /\ Allocated)
    BY DEF EocMoves, CallFits, Stretching
  <1>2. Hand = {} /\ Hand' = {call.clust}
    <2>1. CASE Goto(FirstPut("link")) /\ call' = call
      BY <1>1, <2>1, FirstPuts DEF Hand, Linking, Ready, Freeing, Syncing, Goto
    <2>2. CASE call.prev = 0 /\ Allocated
      <3>1. call.op = "create"  BY <1>1, <2>2
      <3>2. pc' = "flush" /\ call'.clust = call.clust /\ call'.op = "create"
        BY <1>1, <2>2, <3>1, AllocatedFits
      <3> QED BY <1>1, <3>2 DEF Hand, Linking, Ready, Freeing, Syncing
    <2> QED BY <1>1, <2>1, <2>2
  <1>3. /\ \A d \in Clusters : ActView'[d] = IF d = call.clust THEN EOC ELSE ActView[d]
        /\ DirView' = DirView /\ (Stays \/ Settles) /\ ActView[call.clust] = FREE
    BY <1>1, ViewTypes DEF PutsAct, Whole, InHand
  <1>4. Lost(DirView, ActView)' \ Hand' \subseteq Lost(DirView, ActView) \ Hand
    BY <1>2, <1>3, Marks DEF Lost, Fresh
  <1> QED BY <1>1, <1>3, <1>4, NoneLost

LEMMA LinkLoses ==
    ASSUME MediumFits, CallFits, LeakCost, Whole, LinkMoves, ~FailsAt("IO") PROVE LeakCost'
  <1>1. /\ pc = "link" /\ call.op = "extend" /\ vol \in VolSet /\ call.clust \in Clusters
        /\ PutsAct(call.prev, call.clust) /\ faults' = faults /\ Allocated
    BY DEF LinkMoves, CallFits, Stretching, Linking
  <1>2. call.prev # 0 /\ call.prev \in Clusters  BY <1>1 DEF CallFits, Stretching
  <1>3. ActView[call.prev] = EOC  BY <1>1, <1>2 DEF Whole, InHand, Stretching
  <1>4. pc' = "flush" /\ call'.op = "extend"  BY <1>1, AllocatedFits
  <1>5. Hand = {call.clust} /\ Hand' = {}
    BY <1>1, <1>4 DEF Hand, Linking, Ready, Freeing, Syncing
  <1>6. /\ \A d \in Clusters : ActView'[d] = IF d = call.prev THEN call.clust ELSE ActView[d]
        /\ DirView' = DirView /\ (Stays \/ Settles)
    BY <1>1, <1>2, ViewTypes DEF PutsAct
  <1>7. Lost(DirView, ActView)' \ Hand' \subseteq Lost(DirView, ActView) \ Hand
    BY <1>2, <1>3, <1>5, <1>6, Marks DEF Lost, Fresh
  <1> QED BY <1>1, <1>6, <1>7, NoneLost

LEMMA RmLoses ==
    ASSUME MediumFits, CallFits, LeakCost, Whole, RmMoves, ~FailsAt("IO") PROVE LeakCost'
  <1>1. /\ pc = "rm" /\ call.op = "unlink" /\ call.clust \in Clusters /\ call.next \in Clusters \cup {EOC}
        /\ PutsAct(call.clust, FREE) /\ faults' = faults /\ call \in CallSet
        /\ \/ call.next = EOC /\ Goto("flush") /\ call' = [call EXCEPT !.then = "rmEntry"]
           \/ call.next # EOC /\ Goto("rmGet") /\ call' = [call EXCEPT !.clust = call.next]
    BY DEF RmMoves, CallFits, Freeing
  <1>2. ActView[call.clust] = call.next  BY <1>1 DEF Whole, InHand
  <1>3. Hand = {call.clust} /\ Hand' = {call.next} \cap Clusters
    <2>1. Hand = {call.clust}  BY <1>1 DEF Hand, Freeing
    <2>2. CASE call.next = EOC /\ Goto("flush") /\ call' = [call EXCEPT !.then = "rmEntry"]
      <3>1. pc' = "flush" /\ call'.op = "unlink"  BY <1>1, <2>2 DEF CallSet, Goto
      <3> QED BY <2>1, <2>2, <3>1, Marks DEF Hand, Linking, Ready, Freeing
    <2>3. CASE call.next # EOC /\ Goto("rmGet") /\ call' = [call EXCEPT !.clust = call.next]
      <3>1. pc' = "rmGet" /\ call'.clust = call.next  BY <1>1, <2>3 DEF CallSet, Goto
      <3> QED BY <1>1, <2>1, <2>3, <3>1 DEF Hand, Freeing
    <2> QED BY <1>1, <2>2, <2>3, <2>1
  <1>4. /\ \A d \in Clusters : ActView'[d] = IF d = call.clust THEN FREE ELSE ActView[d]
        /\ DirView' = DirView /\ (Stays \/ Settles)
    BY <1>1, ViewTypes DEF PutsAct
  <1>5. Lost(DirView, ActView)' \ Hand' \subseteq Lost(DirView, ActView) \ Hand
    BY <1>2, <1>3, <1>4, Marks DEF Lost, Fresh
  <1> QED BY <1>1, <1>4, <1>5, NoneLost

LEMMA EntryLoses ==
    ASSUME MediumFits, CallFits, LeakCost, Whole, AddMoves \/ RmEntryMoves \/ TouchMoves, ~FailsAt("IO")
    PROVE  LeakCost'
  <1>1. /\ call.f \in Files /\ ActView' = ActView /\ (Stays \/ Settles) /\ faults' = faults
        /\ DirView \in DirVals
    BY ViewTypes DEF AddMoves, RmEntryMoves, TouchMoves, PutsDir, CallFits, Syncing
  <1>2. CASE AddMoves
    <2>1. /\ pc = "add" /\ pc' = "idle" /\ call.op = "create" /\ call.clust \in Clusters
          /\ DirView' = [DirView EXCEPT ![call.f] = call.clust]
      BY <1>2 DEF AddMoves, PutsDir, Return, CallFits, Ready
    <2>2. DirView[call.f] = NoEntry  BY <2>1 DEF Whole, InHand
    <2>3. Hand = {call.clust}  BY <2>1 DEF Hand, Ready
    <2>4. \A g \in Files : DirView'[g] = IF g = call.f THEN call.clust ELSE DirView[g]
      BY <1>1, <2>1 DEF DirVals
    <2>5. Lost(DirView, ActView)' \ Hand' \subseteq Lost(DirView, ActView) \ Hand
      BY <1>1, <2>1, <2>2, <2>3, <2>4, Marks DEF Lost, Fresh
    <2> QED BY <1>1, <2>5, NoneLost
  <1>3. CASE RmEntryMoves
    <2>1. /\ pc = "rmEntry" /\ DirView' = [DirView EXCEPT ![call.f] = NoEntry]
      BY <1>3 DEF RmEntryMoves, PutsDir
    <2>2. Dangles(DirView, ActView, call.f)
      BY <2>1 DEF Whole, InHand, Removing, Freeing
    <2>3. Hand = {}  BY <2>1 DEF Hand, Linking, Ready, Freeing, Syncing
    <2>4. \A g \in Files : DirView'[g] = IF g = call.f THEN NoEntry ELSE DirView[g]
      BY <1>1, <2>1 DEF DirVals
    <2>5. Lost(DirView, ActView)' \subseteq Lost(DirView, ActView)
      BY <1>1, <2>2, <2>4 DEF Lost, Fresh, Dangles
    <2> QED BY <1>1, <2>3, <2>5, NoneLost
  <1>4. CASE TouchMoves
    <2>1. pc = "touch" /\ DirView' = DirView
      BY <1>1, <1>4 DEF TouchMoves, PutsDir, DirVals
    <2>2. Hand = {}  BY <2>1 DEF Hand, Linking, Ready, Freeing, Syncing
    <2> QED BY <1>1, <2>1, <2>2, HoldsOn
  <1> QED BY <1>2, <1>3, <1>4

LEMMA CrashLoses == ASSUME CallFits, LeakCost, CrashMoves PROVE LeakCost'
  <1> DEFINE D == Lost(DirOnDisk, FatOnDisk)
             B == Lost(DirView, ActView)' \ Hand'
  <1>1. D \in SUBSET Clusters /\ B \in SUBSET Clusters /\ Cardinality(D) <= faults + 1
    BY DEF Lost, LeakCost
  <1>2. faults \in Nat /\ faults' = faults + 1 /\ Stays  BY DEF CallFits, CrashMoves
  <1>3. B \subseteq D  BY DEF CrashMoves, Lost, Fresh
  <1> HIDE DEF B, D
  <1>4. Cardinality(B) <= faults + 1  BY <1>1, <1>2, <1>3, Counting
  <1> QED BY <1>2, <1>4, LostOnDisk DEF LeakCost, B

LEMMA LeakKeeps == ASSUME MediumFits, CallFits, Whole, LeakCost, Moves, ~torn' PROVE LeakCost'
  <1>1. ASSUME NEW e, FailsAt(e) PROVE LeakCost'
    BY <1>1, FailureLoses
  <1> QED BY <1>1, SearchLoses, MirrorLoses, EocLoses, LinkLoses, RmGetLoses, RmLoses, SyncLoses, EntryLoses,
             CrashLoses DEF Moves, CallMoves
-----------------------------------------------------------------------------
(* The three together, and the invariant they rest on. *)
Costs == IInv /\ MirrorCost /\ (~torn => CountCost /\ LeakCost)

LEMMA InitCosts == ASSUME Init PROVE Costs
  <1>1. /\ MediumFits /\ ActView = FatOnDisk /\ DirView = DirOnDisk
        /\ MirView = ActView /\ MirOnDisk = FatOnDisk /\ InfoOnDisk = InfoView
        /\ \A c \in Clusters : ActView[c] = IF c \in BadClusts THEN BAD
                                            ELSE IF c = RootClust THEN EOC ELSE FREE
        /\ InfoView["free_cnt"] = vol.free_cnt
        /\ vol.free_cnt = Cardinality(Clusters \ (BadClusts \cup {RootClust}))
    BY InitMedium
  <1>2. pc = "idle" /\ call = NoCall /\ faults = 0  BY DEF Init
  <1>3. Cardinality({}) = 0  BY FS_EmptySet
  <1>4. MirrorCost
    <2>1. Apart(MirView, ActView) = {} /\ Apart(MirOnDisk, FatOnDisk) = {} /\ MidPut = {}
      BY <1>1, <1>2 DEF Apart, MidPut, Puts
    <2> QED BY <1>2, <1>3, <2>1 DEF MirrorCost, Puts
  <1>5. CountCost
    <2>1. {c \in Clusters : ActView[c] = FREE} = Clusters \ (BadClusts \cup {RootClust})
      BY <1>1, Marks
    <2>2. FreeOf(ActView) = vol.free_cnt /\ FreeOf(FatOnDisk) = vol.free_cnt
      BY <1>1, <2>1 DEF FreeOf
    <2>3. vol.free_cnt \in Nat  BY ClustersFinite, <1>1
    <2>4. Ahead = 0 /\ InfoAhead = 0 /\ DiskAhead = 0
      BY <1>1, <2>2, <2>3 DEF Ahead, InfoAhead, DiskAhead
    <2>5. ~Linking  BY <1>2 DEF Linking
    <2> QED BY <1>2, <2>4, <2>5 DEF CountCost
  <1>6. LeakCost
    <2>1. Lost(DirView, ActView) = {} /\ Lost(DirOnDisk, FatOnDisk) = {}
      BY <1>1, Marks DEF Lost, Fresh
    <2>2. Lost(DirView, ActView) \ Hand = {}  BY <2>1
    <2> QED BY <1>2, <1>3, <2>1, <2>2 DEF LeakCost
  <1> QED BY <1>4, <1>5, <1>6, InitHolds DEF Costs

LEMMA StepCosts == ASSUME ClustCnt + MaxFaults < CountMod, Costs, Next PROVE Costs'
  <1>1. Moves /\ MediumFits /\ CallFits /\ Counted  BY NextMoves DEF Costs, IInv, Moves
  <1>2. torn => torn'
    BY <1>1 DEF Moves, CallMoves, Begins, FindMoves, WalkMoves, NearMoves, ScanMoves, EocMoves, LinkMoves,
       MirrorMoves, RmGetMoves, RmMoves, FlushMoves, InfoMoves, InfoFlushMoves, AddMoves, RmEntryMoves,
       TouchMoves, CrashMoves, Rests, FailsAt, GoesOn, Return, Goto, Allocated, Synced
  <1>3. IInv' /\ MirrorCost'  BY <1>1, StepKeeps, MirrorKeeps DEF Costs
  <1>4. ASSUME ~torn' PROVE CountCost' /\ LeakCost'
    <2>1. CountCost /\ LeakCost /\ Whole  BY <1>2, <1>4 DEF Costs, IInv
    <2> QED BY <1>1, <1>4, <2>1, CountKeeps, LeakKeeps
  <1> QED BY <1>3, <1>4 DEF Costs

LEMMA StutterCosts == ASSUME Costs, UNCHANGED vars PROVE Costs'
  <1>1. /\ disk' = disk /\ win' = win /\ vol' = vol /\ pc' = pc /\ call' = call /\ faults' = faults
        /\ torn' = torn
    BY DEF vars
  <1>2. /\ ActView' = ActView /\ MirView' = MirView /\ DirView' = DirView /\ InfoView' = InfoView
        /\ FatOnDisk' = FatOnDisk /\ MirOnDisk' = MirOnDisk /\ DirOnDisk' = DirOnDisk
        /\ InfoOnDisk' = InfoOnDisk
    BY <1>1 DEF ActView, MirView, DirView, InfoView, FatView, View, FatOnDisk, MirOnDisk, DirOnDisk, InfoOnDisk
  <1>3. MirrorCost => MirrorCost'
    BY <1>1, <1>2 DEF MirrorCost, Apart, MidPut, PutCell, PutVal
  <1>4. /\ Linking' <=> Linking
        /\ Taken' <=> Taken
        /\ Hand' = Hand
    BY <1>1 DEF Linking, Taken, Hand, Ready, Freeing, Syncing
  <1>5. CountCost => CountCost'
    BY <1>1, <1>2, <1>4 DEF CountCost, Ahead, InfoAhead, DiskAhead, Loose, Dangles
  <1>6. LeakCost => LeakCost'
    BY <1>1, <1>2, <1>4 DEF LeakCost, Lost, Fresh
  <1> QED BY <1>1, <1>3, <1>5, <1>6, StutterKeeps DEF Costs

(* What the invariant says between two calls. *)
LEMMA CostsBounded == ASSUME Costs PROVE FailuresCostOne
  <1>0. /\ CallFits /\ MediumFits /\ faults \in Nat /\ (~torn => Whole)
        /\ FatView("act") = ActView /\ FatView("mir") = MirView
    BY DEF Costs, IInv, CallFits, ActView, MirView
  <1>1. MirrorInStep
    <2> SUFFICES ASSUME Mirrored, pc = "idle"
                 PROVE  Cardinality({c \in Clusters : MirView[c] # ActView[c]}) <= faults
      BY <1>0 DEF MirrorInStep
    <2>1. {c \in Clusters : MirView[c] # ActView[c]} = Apart(MirView, ActView) \ MidPut
      BY DEF Apart, MidPut, Puts
    <2> QED BY <2>1 DEF Costs, MirrorCost
  <1>2. FreeCountTracks
    <2>1. ASSUME ~torn PROVE pc # "dead"  BY <2>1 DEF Costs, CountCost
    <2>2. ASSUME ~torn, pc = "idle" PROVE vol.free_cnt - FreeOf(ActView) \in 0 .. faults
      <3>1. ~Linking  BY <2>2 DEF Linking
      <3>2. Ahead \in 0 .. faults  BY <1>0, <2>2, <3>1, CountTypes DEF Costs, CountCost
      <3> QED BY <3>2 DEF Ahead
    <2> QED BY <1>0, <2>1, <2>2 DEF FreeCountTracks, FreeOf
  <1>3. LeaksBounded
    <2> DEFINE alone == {c \in InUse(ActView) \ {RootClust} : Referrers(DirView, ActView, c) = 0}
    <2> SUFFICES ASSUME ~torn, pc = "idle" PROVE Cardinality(alone) <= faults
      BY <1>0 DEF LeaksBounded
    <2>1. Sound(DirView, ActView)  BY <1>0 DEF Whole, Entries
    <2>2. ASSUME NEW c \in Clusters, c # RootClust, Referrers(DirView, ActView, c) = 0
          PROVE  Fresh(DirView, ActView, c)
      <3> DEFINE names == {f \in Files : DirView[f] = c}
                 links == {d \in Clusters : ActView[d] = c}
      <3>1. \A x, y \in names : x = y  BY <2>1, Marks DEF Sound
      <3>2. \A x, y \in links : x = y  BY <2>1 DEF Sound
      <3>3. Cardinality(names) + Cardinality(links) = 0  BY <2>2 DEF Referrers
      <3> HIDE DEF names, links
      <3>4. names = {} /\ links = {}
        <4>1. /\ Cardinality(names) \in {0, 1} /\ (names = {} <=> Cardinality(names) = 0)
              /\ Cardinality(links) \in {0, 1} /\ (links = {} <=> Cardinality(links) = 0)
          BY <3>1, <3>2, AtMostOne
        <4> QED BY <3>3, <4>1
      <3> QED BY <2>2, <3>4 DEF Fresh, names, links
    <2>3. Hand = {}
      BY <1>0 DEF CallFits, Hand, Linking, Ready, Freeing, Syncing
    <2>4. alone \subseteq Lost(DirView, ActView) \ Hand
      BY <2>2, <2>3 DEF Lost, InUse
    <2>5. /\ alone \in SUBSET Clusters /\ Lost(DirView, ActView) \ Hand \in SUBSET Clusters
          /\ Cardinality(Lost(DirView, ActView) \ Hand) <= faults
      BY DEF Costs, LeakCost, Lost, InUse
    <2> HIDE DEF alone
    <2> QED BY <1>0, <2>4, <2>5, Counting
  <1> QED BY <1>1, <1>2, <1>3 DEF FailuresCostOne

(* However many transfers fail and however often power is lost, what each   *)
(* of these costs for good stays one entry in which the two copies of the   *)
(* FAT differ, one in the count of free clusters and one cluster, as long   *)
(* as no unlink was cut short.  The count is modulo CountMod, 2^32 for      *)
(* fat.c, so there must be room in it for the clusters and the failures.    *)
THEOREM FailuresAreCheap ==
    ASSUME ClustCnt + MaxFaults < CountMod PROVE Spec => []FailuresCostOne
  <1>1. Init => Costs  BY InitCosts
  <1>2. Costs /\ [Next]_vars => Costs'  BY StepCosts, StutterCosts
  <1>3. Costs => FailuresCostOne  BY CostsBounded
  <1> QED BY <1>1, <1>2, <1>3, PTL DEF Spec
-----------------------------------------------------------------------------
(* FatVolume implements FileStore.  A sector that reaches the medium        *)
(* carries all that was changed in it, so a step of FileStore is not the    *)
(* step of a call.  The argument is that what the window holds back never   *)
(* is more than one orderly change of each file (Owes), and that a call     *)
(* starts to change the FAT or the directory only when the files it does    *)
(* not hold are level.                                                      *)

(* The definition of ChainFrom as an equation, and as rounds of a loop that *)
(* makes all chains of the FAT longer by one.                               *)
Longer(fat, chains) ==
    [c \in Clusters |-> IF fat[c] \in Clusters THEN <<c>> \o chains[fat[c]] ELSE <<c>>]
Links(fat, chain) ==
    [n \in 0 .. ClustCnt |->
        [c \in Clusters |-> IF n > 0 /\ fat[c] \in Clusters
                            THEN <<c>> \o chain[n - 1][fat[c]] ELSE <<c>>]]

LEMMA ChainIs == ASSUME NEW fat PROVE ChainFrom(fat) = CHOOSE chain : chain = Links(fat, chain)
  BY DEF ChainFrom, Links

LEMMA ChainExists ==
    ASSUME NEW fat \in [Clusters -> FatVals]
    PROVE  \E chain : chain \in [0 .. ClustCnt -> [Clusters -> Seq(Clusters)]] /\ chain = Links(fat, chain)
  <1> DEFINE States == [Clusters -> Seq(Clusters)]
             first == [c \in Clusters |-> <<c>>]
             body == [a \in (1 .. ClustCnt) \X States |-> Longer(fat, a[2])]
  <1>1. first \in States  OBVIOUS
  <1>2. body \in [(1 .. ClustCnt) \X States -> States]
    <2>1. ASSUME NEW s \in States PROVE Longer(fat, s) \in States
      <3>1. ASSUME NEW c \in Clusters PROVE (IF fat[c] \in Clusters THEN <<c>> \o s[fat[c]] ELSE <<c>>) \in Seq(Clusters)
        <4>1. <<c>> \in Seq(Clusters)  OBVIOUS
        <4>2. fat[c] \in Clusters => <<c>> \o s[fat[c]] \in Seq(Clusters)  BY <4>1
        <4> QED BY <4>1, <4>2
      <3> QED BY <3>1 DEF Longer
    <2> HIDE DEF States
    <2>2. \A a \in (1 .. ClustCnt) \X States : a[2] \in States  OBVIOUS
    <2> QED BY <2>1, <2>2
  <1>3. ClustCnt \in Nat  BY Constants
  <1>4. \E f : Loops(f, ClustCnt, States, first, body)
    <2> HIDE DEF States, first, body
    <2> QED BY <1>1, <1>2, <1>3, RoundsExist
  <1>5. PICK f : Loops(f, ClustCnt, States, first, body)  BY <1>4
  <1>6. f \in [0 .. ClustCnt -> States] /\ f[0] = first
        /\ \A p \in 1 .. ClustCnt : f[p] = body[<<p, f[p - 1]>>]
    <2> HIDE DEF States, first, body
    <2> QED BY <1>5 DEF Loops
  <1>7. \A p \in 1 .. ClustCnt : f[p] = Longer(fat, f[p - 1])
    <2> TAKE p \in 1 .. ClustCnt
    <2>1. p - 1 \in 0 .. ClustCnt  BY <1>3
    <2>2. f[p - 1] \in States  BY <1>6, <2>1
    <2> HIDE DEF States
    <2> QED BY <1>6, <2>2
  <1>8. \A p \in 0 .. ClustCnt : f[p] = [c \in Clusters |-> IF p > 0 /\ fat[c] \in Clusters
                                               THEN <<c>> \o f[p - 1][fat[c]] ELSE <<c>>]
    <2> TAKE p \in 0 .. ClustCnt
    <2>1. CASE p = 0  BY <1>6, <2>1
    <2>2. CASE p # 0
      <3>1. p \in 1 .. ClustCnt /\ p > 0  BY <2>2, <1>3
      <3> QED BY <1>7, <3>1 DEF Longer
    <2> QED BY <2>1, <2>2
  <1>9. f = Links(fat, f)
    <2> HIDE DEF States
    <2> QED BY <1>6, <1>8 DEF Links
  <1> QED BY <1>6, <1>9

LEMMA Chains ==
    ASSUME NEW fat \in [Clusters -> FatVals]
    PROVE  /\ ChainFrom(fat) \in [0 .. ClustCnt -> [Clusters -> Seq(Clusters)]]
           /\ \A c \in Clusters : ChainFrom(fat)[0][c] = <<c>>
           /\ \A n \in 1 .. ClustCnt, c \in Clusters :
                 ChainFrom(fat)[n][c] = IF fat[c] \in Clusters
                                        THEN <<c>> \o ChainFrom(fat)[n - 1][fat[c]] ELSE <<c>>
  <1> DEFINE chain == ChainFrom(fat)
  <1>1. \E f : f = Links(fat, f)  BY ChainExists
  <1>2. chain = Links(fat, chain)
    <2> HIDE DEF chain
    <2>1. chain = CHOOSE f : f = Links(fat, f)  BY ChainIs DEF chain
    <2> QED BY <1>1, <2>1
  <1>3. ClustCnt \in Nat  BY Constants
  <1>4. \A n \in 0 .. ClustCnt : chain[n] = [c \in Clusters |->
            IF n > 0 /\ fat[c] \in Clusters THEN <<c>> \o chain[n - 1][fat[c]] ELSE <<c>>]
    <2> HIDE DEF chain
    <2> QED BY <1>2 DEF Links
  <1> HIDE DEF chain
  <1>5. (\A c \in Clusters : chain[0][c] = <<c>>) /\ chain[0] = [d \in Clusters |-> <<d>>]
    <2>1. 0 \in 0 .. ClustCnt /\ ~(0 > 0)  BY <1>3
    <2>2. chain[0] = [c \in Clusters |-> IF 0 > 0 /\ fat[c] \in Clusters
                                        THEN <<c>> \o chain[0 - 1][fat[c]] ELSE <<c>>]
      BY <1>4, <2>1
    <2>3. chain[0] = [c \in Clusters |-> <<c>>]  BY <2>1, <2>2
    <2> QED BY <2>3
  <1>6. \A n \in 1 .. ClustCnt, c \in Clusters :
            chain[n][c] = IF fat[c] \in Clusters THEN <<c>> \o chain[n - 1][fat[c]] ELSE <<c>>
    <2> TAKE n \in 1 .. ClustCnt, c \in Clusters
    <2>1. n \in 0 .. ClustCnt /\ n > 0  BY <1>3
    <2> QED BY <1>4, <2>1
  <1>7. chain \in [0 .. ClustCnt -> [Clusters -> Seq(Clusters)]]
    <2> DEFINE T == {n \in 0 .. ClustCnt : chain[n] \in [Clusters -> Seq(Clusters)]}
    <2>1. 0 \in T
      <3>1. chain[0] = [c \in Clusters |-> <<c>>]  BY <1>5
      <3>2. \A c \in Clusters : <<c>> \in Seq(Clusters)  OBVIOUS
      <3>3. [c \in Clusters |-> <<c>>] \in [Clusters -> Seq(Clusters)]  BY <3>2
      <3>4. 0 \in 0 .. ClustCnt  BY <1>3
      <3> QED BY <3>1, <3>3, <3>4
    <2>2. ASSUME NEW n \in 1 .. ClustCnt, n - 1 \in T PROVE n \in T
      <3>1. n \in 0 .. ClustCnt /\ n > 0  BY <1>3
      <3>2. chain[n] = [c \in Clusters |-> IF fat[c] \in Clusters
                                           THEN <<c>> \o chain[n - 1][fat[c]] ELSE <<c>>]
        BY <1>4, <3>1
      <3>3. ASSUME NEW c \in Clusters
            PROVE  (IF fat[c] \in Clusters THEN <<c>> \o chain[n - 1][fat[c]] ELSE <<c>>) \in Seq(Clusters)
        <4>1. <<c>> \in Seq(Clusters)  OBVIOUS
        <4>2. fat[c] \in Clusters => chain[n - 1][fat[c]] \in Seq(Clusters)  BY <2>2
        <4> QED BY <4>1, <4>2
      <3> QED BY <3>1, <3>2, <3>3
    <2> HIDE DEF T
    <2>3. 0 .. ClustCnt \subseteq T  BY <1>3, <2>1, <2>2, EveryRound
    <2> USE DEF T
    <2>4. \A n \in 0 .. ClustCnt : chain[n] \in [Clusters -> Seq(Clusters)]  BY <2>3
    <2>5. chain = [n \in 0 .. ClustCnt |-> chain[n]]  BY <1>2 DEF Links
    <2> QED BY <2>4, <2>5
  <1> QED BY <1>5, <1>6, <1>7 DEF chain

(* A chain starts at its first cluster and goes from each to its successor. *)
Follows(fat, s) == \A i \in 1 .. (Len(s) - 1) : s[i + 1] = fat[s[i]]

LEMMA ChainFollows ==
    ASSUME NEW fat \in [Clusters -> FatVals], NEW n \in 0 .. ClustCnt, NEW h \in Clusters
    PROVE  LET s == ChainFrom(fat)[n][h] IN
           s \in Seq(Clusters) /\ Len(s) > 0 /\ s[1] = h /\ Follows(fat, s)
  <1> DEFINE chain == ChainFrom(fat)
             Right(s, c) == s \in Seq(Clusters) /\ Len(s) > 0 /\ s[1] = c /\ Follows(fat, s)
             T == {m \in 0 .. ClustCnt : \A c \in Clusters : Right(chain[m][c], c)}
  <1>1. ClustCnt \in Nat  BY Constants
  <1>2. ASSUME NEW c \in Clusters PROVE Right(<<c>>, c)
    BY DEF Follows
  <1>3. 0 \in T
    <2>1. \A c \in Clusters : chain[0][c] = <<c>>  BY Chains
    <2> HIDE DEF chain, Right
    <2>2. \A c \in Clusters : Right(chain[0][c], c)  BY <1>2, <2>1
    <2> QED BY <1>1, <2>2
  <1>4. ASSUME NEW m \in 1 .. ClustCnt, m - 1 \in T PROVE m \in T
    <2>1. ASSUME NEW c \in Clusters PROVE Right(chain[m][c], c)
      <3>1. chain[m][c] = IF fat[c] \in Clusters THEN <<c>> \o chain[m - 1][fat[c]] ELSE <<c>>  BY Chains
      <3>2. CASE fat[c] \in Clusters
        <4> DEFINE t == chain[m - 1][fat[c]]
        <4>1. Right(t, fat[c])  BY <1>4, <3>2
        <4>2. chain[m][c] = <<c>> \o t  BY <3>1, <3>2
        <4> HIDE DEF t, chain
        <4>3. /\ <<c>> \o t \in Seq(Clusters) /\ Len(<<c>> \o t) = Len(t) + 1
              /\ (<<c>> \o t)[1] = c
              /\ \A i \in 1 .. Len(t) : (<<c>> \o t)[i + 1] = t[i]
          BY <4>1
        <4>4. Follows(fat, <<c>> \o t)
          <5> SUFFICES ASSUME NEW i \in 1 .. (Len(<<c>> \o t) - 1)
                       PROVE  (<<c>> \o t)[i + 1] = fat[(<<c>> \o t)[i]]
            BY DEF Follows
          <5>1. i \in 1 .. Len(t) /\ (<<c>> \o t)[i + 1] = t[i]  BY <4>1, <4>3
          <5>2. CASE i = 1  BY <4>1, <4>3, <5>1, <5>2
          <5>3. CASE i # 1
            <6> DEFINE j == i - 1
            <6>1. j \in 1 .. (Len(t) - 1) /\ j + 1 = i /\ j \in 1 .. Len(t)  BY <4>1, <5>1, <5>3
            <6> HIDE DEF j
            <6>2. t[j + 1] = fat[t[j]]  BY <4>1, <6>1 DEF Follows
            <6>3. (<<c>> \o t)[j + 1] = t[j]  BY <4>3, <6>1
            <6> QED BY <5>1, <6>1, <6>2, <6>3
          <5> QED BY <5>2, <5>3
        <4>5. Len(<<c>> \o t) > 0  BY <4>1, <4>3
        <4> QED BY <4>2, <4>3, <4>4, <4>5
      <3>3. CASE fat[c] \notin Clusters
        <4> HIDE DEF Right, chain
        <4> QED BY <1>2, <3>1, <3>3
      <3> QED BY <3>2, <3>3
    <2>2. m \in 0 .. ClustCnt  BY <1>1
    <2> HIDE DEF Right
    <2> QED BY <2>1, <2>2
  <1> HIDE DEF T
  <1>5. 0 .. ClustCnt \subseteq T  BY <1>1, <1>3, <1>4, EveryRound
  <1> USE DEF T
  <1>6. Right(chain[n][h], h)  BY <1>5
  <1> QED BY <1>6
-----------------------------------------------------------------------------
(* What a change of one entry of the FAT does to the chains.                *)
LEMMA Elsewhere ==
    ASSUME NEW fat \in [Clusters -> FatVals], NEW c \in Clusters, NEW v \in FatVals,
           \A d \in Clusters : fat[d] # c
    PROVE  \A n \in 0 .. ClustCnt, h \in Clusters \ {c} :
              ChainFrom([fat EXCEPT ![c] = v])[n][h] = ChainFrom(fat)[n][h]
  <1> DEFINE new == [fat EXCEPT ![c] = v]
             old == ChainFrom(fat)
             aft == ChainFrom(new)
             T == {n \in 0 .. ClustCnt : \A h \in Clusters \ {c} : aft[n][h] = old[n][h]}
  <1>1. ClustCnt \in Nat  BY Constants
  <1>2. new \in [Clusters -> FatVals] /\ \A d \in Clusters \ {c} : new[d] = fat[d]  OBVIOUS
  <1> HIDE DEF new
  <1>3. /\ \A h \in Clusters : old[0][h] = <<h>> /\ aft[0][h] = <<h>>
        /\ \A n \in 1 .. ClustCnt, h \in Clusters :
              /\ old[n][h] = IF fat[h] \in Clusters THEN <<h>> \o old[n - 1][fat[h]] ELSE <<h>>
              /\ aft[n][h] = IF new[h] \in Clusters THEN <<h>> \o aft[n - 1][new[h]] ELSE <<h>>
    BY <1>2, Chains
  <1> HIDE DEF old, aft
  <1>4. 0 \in T  BY <1>1, <1>3
  <1>5. ASSUME NEW n \in 1 .. ClustCnt, n - 1 \in T PROVE n \in T
    <2>1. ASSUME NEW h \in Clusters \ {c} PROVE aft[n][h] = old[n][h]
      <3>0. /\ old[n][h] = IF fat[h] \in Clusters THEN <<h>> \o old[n - 1][fat[h]] ELSE <<h>>
            /\ aft[n][h] = IF new[h] \in Clusters THEN <<h>> \o aft[n - 1][new[h]] ELSE <<h>>
        BY <1>3
      <3>1. new[h] = fat[h]  BY <1>2
      <3>2. CASE fat[h] \in Clusters
        <4>1. fat[h] \in Clusters \ {c}  BY <3>2
        <4>2. aft[n - 1][fat[h]] = old[n - 1][fat[h]]  BY <1>5, <4>1
        <4> QED BY <3>0, <3>1, <3>2, <4>2
      <3>3. CASE fat[h] \notin Clusters
        BY <3>0, <3>1, <3>3
      <3> QED BY <3>2, <3>3
    <2>2. n \in 0 .. ClustCnt  BY <1>1
    <2> QED BY <2>1, <2>2
  <1> HIDE DEF T
  <1>6. 0 .. ClustCnt \subseteq T  BY <1>1, <1>4, <1>5, EveryRound
  <1> USE DEF T
  <1> QED BY <1>6 DEF old, aft, new

LEMMA Stretched ==
    ASSUME NEW fat \in [Clusters -> FatVals], NEW c \in Clusters, NEW p \in Clusters, p # c,
           fat[p] = EOC, fat[c] = EOC, \A d \in Clusters : fat[d] # c
    PROVE  \A n \in 0 .. ClustCnt, h \in Clusters \ {c} :
              LET s == ChainFrom(fat)[n][h] IN ChainFrom([fat EXCEPT ![p] = c])[n][h] \in {s, s \o <<c>>}
  <1> DEFINE new == [fat EXCEPT ![p] = c]
             old == ChainFrom(fat)
             aft == ChainFrom(new)
             T == {n \in 0 .. ClustCnt : \A h \in Clusters \ {c} : aft[n][h] \in {old[n][h], old[n][h] \o <<c>>}}
  <1>1. ClustCnt \in Nat  BY Constants
  <1>2. new \in [Clusters -> FatVals] /\ new[p] = c /\ \A d \in Clusters \ {p} : new[d] = fat[d]
    BY DEF FatVals
  <1> HIDE DEF new
  <1>3. /\ \A h \in Clusters : old[0][h] = <<h>> /\ aft[0][h] = <<h>>
        /\ \A n \in 1 .. ClustCnt, h \in Clusters :
              /\ old[n][h] = IF fat[h] \in Clusters THEN <<h>> \o old[n - 1][fat[h]] ELSE <<h>>
              /\ aft[n][h] = IF new[h] \in Clusters THEN <<h>> \o aft[n - 1][new[h]] ELSE <<h>>
    BY <1>2, Chains
  <1>4. \A n \in 0 .. ClustCnt, h \in Clusters : old[n][h] \in Seq(Clusters)
    <2>1. old \in [0 .. ClustCnt -> [Clusters -> Seq(Clusters)]]  BY Chains
    <2> HIDE DEF old
    <2> QED BY <2>1
  <1>5. \A n \in 0 .. ClustCnt : aft[n][c] = <<c>>
    <2> HIDE DEF old, aft
    <2> TAKE n \in 0 .. ClustCnt
    <2>1. new[c] \notin Clusters  BY <1>2, Marks
    <2>2. CASE n = 0  BY <1>3, <2>2
    <2>3. CASE n # 0
      <3>1. n \in 1 .. ClustCnt  BY <1>1, <2>3
      <3> QED BY <1>3, <2>1, <3>1
    <2> QED BY <2>2, <2>3
  <1> HIDE DEF old, aft
  <1>6. 0 \in T  BY <1>1, <1>3
  <1>7. ASSUME NEW n \in 1 .. ClustCnt, n - 1 \in T PROVE n \in T
    <2>1. ASSUME NEW h \in Clusters \ {c} PROVE aft[n][h] \in {old[n][h], old[n][h] \o <<c>>}
      <3>0. n - 1 \in 0 .. ClustCnt  BY <1>1
      <3>1. CASE h = p
        <4>1. old[n][h] = <<h>>  BY <1>3, <3>1, Marks
        <4>2. aft[n][h] = <<h>> \o <<c>>  BY <1>2, <1>3, <1>5, <3>0, <3>1
        <4> QED BY <4>1, <4>2
      <3>2. CASE h # p /\ fat[h] \in Clusters
        <4> DEFINE s == old[n - 1][fat[h]]
        <4>1. new[h] = fat[h] /\ fat[h] \in Clusters \ {c}  BY <1>2, <3>2
        <4>2. aft[n - 1][fat[h]] \in {s, s \o <<c>>} /\ s \in Seq(Clusters)
          <5>1. \A d \in Clusters \ {c} : aft[n - 1][d] \in {old[n - 1][d], old[n - 1][d] \o <<c>>}
            BY <1>7
          <5> QED BY <1>4, <3>0, <4>1, <5>1
        <4>3. old[n][h] = <<h>> \o s /\ aft[n][h] = <<h>> \o aft[n - 1][fat[h]]  BY <1>3, <4>1
        <4> HIDE DEF s
        <4>4. <<h>> \o (s \o <<c>>) = (<<h>> \o s) \o <<c>>
          <5>1. <<h>> \in Seq(Clusters) /\ <<c>> \in Seq(Clusters)  OBVIOUS
          <5> QED BY <4>2, <5>1, ConcatAssociative
        <4> QED BY <4>2, <4>3, <4>4
      <3>3. CASE h # p /\ fat[h] \notin Clusters
        <4>1. new[h] = fat[h]  BY <1>2, <3>3
        <4> QED BY <1>3, <3>3, <4>1
      <3> QED BY <3>1, <3>2, <3>3
    <2>2. n \in 0 .. ClustCnt  BY <1>1
    <2> QED BY <2>1, <2>2
  <1> HIDE DEF T
  <1>8. 0 .. ClustCnt \subseteq T  BY <1>1, <1>6, <1>7, EveryRound
  <1> USE DEF T
  <1> QED BY <1>8 DEF old, aft, new
-----------------------------------------------------------------------------
(* The files that a directory and a FAT make, as FileStore sees them.       *)
StoreOf(dir, fat) ==
    [f \in Files |->
        IF dir[f] = NoEntry THEN <<>>
        ELSE IF fat[dir[f]] = FREE THEN <<FREE>>
        ELSE ChainFrom(fat)[ClustCnt][dir[f]]]

LEMMA StoreIs == StoreOnDisk = StoreOf(DirOnDisk, FatOnDisk)
  BY DEF StoreOnDisk, StoreOf

(* No file, a file whose chain is gone, and a file with its chain.          *)
LEMMA StoreKinds ==
    ASSUME NEW dir \in DirVals, NEW fat \in [Clusters -> FatVals], NEW f \in Files
    PROVE  LET s == StoreOf(dir, fat)[f] IN
           /\ dir[f] = NoEntry => s = <<>>
           /\ Dangles(dir, fat, f) => s = <<FREE>>
           /\ dir[f] # NoEntry /\ ~Dangles(dir, fat, f) =>
                 /\ dir[f] \in Clusters /\ s = ChainFrom(fat)[ClustCnt][dir[f]]
                 /\ s \in Seq(Clusters) /\ Len(s) > 0 /\ s[1] = dir[f] /\ Follows(fat, s)
                 /\ s \notin {<<>>, <<FREE>>}
  <1> DEFINE s == StoreOf(dir, fat)[f]
  <1>1. s = IF dir[f] = NoEntry THEN <<>> ELSE IF fat[dir[f]] = FREE THEN <<FREE>>
            ELSE ChainFrom(fat)[ClustCnt][dir[f]]
    BY DEF StoreOf
  <1>2. ClustCnt \in 0 .. ClustCnt  BY Constants
  <1>3. dir[f] # NoEntry => dir[f] \in Clusters  BY DEF DirVals
  <1> HIDE DEF s
  <1>4. ASSUME dir[f] # NoEntry, ~Dangles(dir, fat, f)
        PROVE  /\ s = ChainFrom(fat)[ClustCnt][dir[f]]
               /\ s \in Seq(Clusters) /\ Len(s) > 0 /\ s[1] = dir[f] /\ Follows(fat, s)
               /\ s \notin {<<>>, <<FREE>>}
    <2>1. s = ChainFrom(fat)[ClustCnt][dir[f]]  BY <1>1, <1>4 DEF Dangles
    <2>2. s \in Seq(Clusters) /\ Len(s) > 0 /\ s[1] = dir[f] /\ Follows(fat, s)
      BY <1>2, <1>3, <1>4, <2>1, ChainFollows
    <2>3. s # <<>>  BY <2>2
    <2>4. s # <<FREE>>
      <3>1. dir[f] # FREE  BY <1>3, <1>4, Marks
      <3> QED BY <2>2, <3>1
    <2> QED BY <2>1, <2>2, <2>3, <2>4
  <1>5. dir[f] = NoEntry => s = <<>>  BY <1>1
  <1>6. Dangles(dir, fat, f) => s = <<FREE>>  BY <1>1 DEF Dangles
  <1> QED BY <1>3, <1>4, <1>5, <1>6 DEF s

(* Chains that start at clusters nothing leads to meet neither themselves   *)
(* nor each other.                                                          *)
LEMMA ChainsApart ==
    ASSUME NEW dir \in DirVals, NEW fat \in [Clusters -> FatVals], Sound(dir, fat),
           NEW f \in Files, NEW g \in Files, dir[f] # NoEntry, dir[g] # NoEntry,
           NEW s \in Seq(Clusters), Len(s) > 0, s[1] = dir[f], Follows(fat, s),
           NEW t \in Seq(Clusters), Len(t) > 0, t[1] = dir[g], Follows(fat, t),
           NEW i \in 1 .. Len(s), NEW j \in 1 .. Len(t), s[i] = t[j]
    PROVE  f = g /\ i = j
  <1> DEFINE T == {k \in 0 .. Len(s) : k > 0 => \A m \in 1 .. Len(t) : s[k] = t[m] => f = g /\ k = m}
  <1>0. \A m \in 1 .. Len(t) : m # 1 => m - 1 \in 1 .. Len(t) /\ t[m] = fat[t[m - 1]] /\ t[m - 1] \in Clusters
    <2> TAKE m \in 1 .. Len(t)
    <2> HAVE m # 1
    <2>1. m - 1 \in 1 .. (Len(t) - 1) /\ (m - 1) + 1 = m /\ m - 1 \in 1 .. Len(t)  OBVIOUS
    <2>2. t[(m - 1) + 1] = fat[t[m - 1]]  BY <2>1 DEF Follows
    <2> QED BY <2>1, <2>2
  <1>1. 0 \in T  OBVIOUS
  <1>2. ASSUME NEW k \in 1 .. Len(s), k - 1 \in T PROVE k \in T
    <2>1. ASSUME NEW m \in 1 .. Len(t), s[k] = t[m] PROVE f = g /\ k = m
      <3>1. CASE k = 1
        <4>1. m # 1 => fat[t[m - 1]] = dir[f] /\ t[m - 1] \in Clusters  BY <1>0, <2>1, <3>1
        <4>2. m = 1  BY <4>1 DEF Sound
        <4> QED BY <2>1, <3>1, <4>2 DEF Sound
      <3>2. CASE k # 1
        <4> DEFINE l == k - 1
        <4>1. l \in 1 .. (Len(s) - 1) /\ l + 1 = k /\ l \in 1 .. Len(s) /\ l > 0  BY <3>2
        <4> HIDE DEF l
        <4>2. s[k] = fat[s[l]] /\ s[l] \in Clusters /\ s[k] \in Clusters  BY <4>1 DEF Follows
        <4>3. m # 1
          <5>1. fat[s[l]] # dir[g]  BY <4>2 DEF Sound
          <5> QED BY <2>1, <4>2, <5>1
        <4>4. m - 1 \in 1 .. Len(t) /\ t[m] = fat[t[m - 1]] /\ t[m - 1] \in Clusters  BY <1>0, <4>3
        <4>5. s[l] = t[m - 1]  BY <2>1, <4>2, <4>4 DEF Sound
        <4>6. f = g /\ l = m - 1  BY <1>2, <4>1, <4>4, <4>5 DEF l
        <4> QED BY <4>1, <4>6
      <3> QED BY <3>1, <3>2
    <2> QED BY <2>1
  <1> HIDE DEF T
  <1>3. Len(s) \in Nat  OBVIOUS
  <1>4. 0 .. Len(s) \subseteq T  BY <1>1, <1>2, <1>3, EveryRound
  <1> USE DEF T
  <1> QED BY <1>4

LEMMA StoreSound ==
    ASSUME NEW dir \in DirVals, NEW fat \in [Clusters -> FatVals], Sound(dir, fat)
    PROVE  /\ Store!Disjoint(StoreOf(dir, fat))
           /\ \A f \in Files : Store!Simple(StoreOf(dir, fat)[f])
  <1> DEFINE st == StoreOf(dir, fat)
             Chained(f) == dir[f] # NoEntry /\ ~Dangles(dir, fat, f)
  <1>1. \A f \in Files : /\ dir[f] = NoEntry => st[f] = <<>>
                         /\ Dangles(dir, fat, f) => st[f] = <<FREE>>
                         /\ Chained(f) => /\ st[f] \in Seq(Clusters) /\ Len(st[f]) > 0 /\ st[f][1] = dir[f]
                                        /\ Follows(fat, st[f])
    BY StoreKinds
  <1> HIDE DEF st
  <1>2. ASSUME NEW f \in Files, NEW g \in Files, NEW i \in 1 .. Len(st[f]), NEW j \in 1 .. Len(st[g]),
               st[f][i] = st[g][j], st[f][i] \in Clusters
        PROVE  f = g /\ i = j
    <2>1. Chained(f)
      <3>1. dir[f] # NoEntry  BY <1>1
      <3>2. ~Dangles(dir, fat, f)  BY <1>1, <1>2, Marks
      <3> QED BY <3>1, <3>2
    <2>2. Chained(g)
      <3>1. dir[g] # NoEntry  BY <1>1
      <3>2. ~Dangles(dir, fat, g)  BY <1>1, <1>2, Marks
      <3> QED BY <3>1, <3>2
    <2>3. /\ st[f] \in Seq(Clusters) /\ Len(st[f]) > 0 /\ st[f][1] = dir[f] /\ Follows(fat, st[f])
          /\ st[g] \in Seq(Clusters) /\ Len(st[g]) > 0 /\ st[g][1] = dir[g] /\ Follows(fat, st[g])
      BY <1>1, <2>1, <2>2
    <2> DEFINE s == st[f]
               t == st[g]
    <2>4. /\ s \in Seq(Clusters) /\ Len(s) > 0 /\ s[1] = dir[f] /\ Follows(fat, s)
          /\ t \in Seq(Clusters) /\ Len(t) > 0 /\ t[1] = dir[g] /\ Follows(fat, t)
          /\ dir[f] # NoEntry /\ dir[g] # NoEntry
          /\ i \in 1 .. Len(s) /\ j \in 1 .. Len(t) /\ s[i] = t[j]
      BY <1>2, <2>1, <2>2, <2>3
    <2> HIDE DEF s, t
    <2> QED BY <2>4, ChainsApart
  <1>3. Store!Disjoint(st)
    BY <1>2 DEF Store!Disjoint, Store!ClustersOf
  <1>4. ASSUME NEW f \in Files PROVE Store!Simple(st[f])
    <2>1. CASE dir[f] = NoEntry
      BY <1>1, <2>1 DEF Store!Simple
    <2>2. CASE Dangles(dir, fat, f)
      BY <1>1, <2>2 DEF Store!Simple
    <2>3. CASE Chained(f)
      <3>1. \A i \in 1 .. Len(st[f]) : st[f][i] \in Clusters  BY <1>1, <2>3
      <3> QED BY <1>2, <3>1 DEF Store!Simple
    <2> QED BY <2>1, <2>2, <2>3
  <1> QED BY <1>3, <1>4 DEF st
-----------------------------------------------------------------------------
(* What one sector may do to one file: nothing, or one of FileStore's four  *)
(* changes.                                                                 *)
Orderly(a, b) ==
    \/ b = a
    \/ a \in {<<>>, <<FREE>>} /\ Len(b) = 1 /\ b # <<FREE>>
    \/ a \notin {<<>>, <<FREE>>} /\ Len(b) = Len(a) + 1 /\ SubSeq(b, 1, Len(a)) = a
    \/ a \notin {<<>>, <<FREE>>} /\ b = <<FREE>>
    \/ a = <<FREE>> /\ b = <<>>

(* A cluster that nothing leads to is changed: no file is.                  *)
LEMMA FreshKeeps ==
    ASSUME NEW dir \in DirVals, NEW fat \in [Clusters -> FatVals], NEW c \in Clusters, NEW v \in FatVals,
           \A d \in Clusters : fat[d] # c, NEW f \in Files, dir[f] # c
    PROVE  StoreOf(dir, [fat EXCEPT ![c] = v])[f] = StoreOf(dir, fat)[f]
  <1> DEFINE new == [fat EXCEPT ![c] = v]
  <1>1. \A h \in Clusters \ {c} : new[h] = fat[h]  OBVIOUS
  <1>2. ClustCnt \in 0 .. ClustCnt  BY Constants
  <1>3. \A h \in Clusters \ {c} : ChainFrom(new)[ClustCnt][h] = ChainFrom(fat)[ClustCnt][h]
    BY <1>2, Elsewhere
  <1>4. dir[f] # NoEntry => dir[f] \in Clusters \ {c}  BY DEF DirVals
  <1> HIDE DEF new
  <1>5. StoreOf(dir, new)[f] = StoreOf(dir, fat)[f]
    BY <1>1, <1>3, <1>4 DEF StoreOf
  <1> QED BY <1>5 DEF new

(* A complete new cluster is linked to the last one of a chain: one file    *)
(* grows at most.                                                           *)
LEMMA LinkGrows ==
    ASSUME NEW dir \in DirVals, NEW fat \in [Clusters -> FatVals], NEW c \in Clusters, NEW p \in Clusters,
           p # c, fat[p] = EOC, fat[c] = EOC, Fresh(dir, fat, c), NEW f \in Files
    PROVE  Orderly(StoreOf(dir, fat)[f], StoreOf(dir, [fat EXCEPT ![p] = c])[f])
  <1> DEFINE new == [fat EXCEPT ![p] = c]
             a == StoreOf(dir, fat)[f]
             b == StoreOf(dir, new)[f]
  <1>1. ClustCnt \in 0 .. ClustCnt  BY Constants
  <1>2. \A h \in Clusters \ {c} : LET s == ChainFrom(fat)[ClustCnt][h] IN
            ChainFrom(new)[ClustCnt][h] \in {s, s \o <<c>>}
    BY <1>1, Stretched DEF Fresh
  <1>3. new \in [Clusters -> FatVals]  BY DEF FatVals
  <1>4. \A h \in Clusters : new[h] = FREE <=> fat[h] = FREE  BY Marks
  <1> HIDE DEF new
  <1>5. dir[f] # NoEntry => dir[f] \in Clusters \ {c}  BY DEF DirVals, Fresh
  <1>6. Dangles(dir, new, f) <=> Dangles(dir, fat, f)  BY <1>4, <1>5 DEF Dangles
  <1>7. CASE dir[f] = NoEntry \/ Dangles(dir, fat, f)
    <2>1. a = b  BY <1>3, <1>6, <1>7, StoreKinds
    <2> QED BY <2>1 DEF Orderly, new
  <1>8. CASE dir[f] # NoEntry /\ ~Dangles(dir, fat, f)
    <2>1. a \in Seq(Clusters) /\ a \notin {<<>>, <<FREE>>} /\ a = ChainFrom(fat)[ClustCnt][dir[f]]
      BY <1>8, StoreKinds
    <2>2. b = ChainFrom(new)[ClustCnt][dir[f]]  BY <1>3, <1>6, <1>8, StoreKinds
    <2>3. b \in {a, a \o <<c>>}  BY <1>2, <1>5, <1>8, <2>1, <2>2
    <2> HIDE DEF a, b
    <2>4. Len(a \o <<c>>) = Len(a) + 1 /\ SubSeq(a \o <<c>>, 1, Len(a)) = a  BY <2>1
    <2> QED BY <2>1, <2>3, <2>4 DEF Orderly, a, b, new
  <1> QED BY <1>7, <1>8

(* An entry gets its chain of one cluster. *)
LEMMA EntryAppears ==
    ASSUME NEW dir \in DirVals, NEW fat \in [Clusters -> FatVals], NEW f \in Files, NEW c \in Clusters,
           dir[f] = NoEntry, fat[c] = EOC, NEW g \in Files
    PROVE  Orderly(StoreOf(dir, fat)[g], StoreOf([dir EXCEPT ![f] = c], fat)[g])
  <1> DEFINE new == [dir EXCEPT ![f] = c]
  <1>1. new[g] = IF g = f THEN c ELSE dir[g]  BY DEF DirVals
  <1>2. ClustCnt \in 1 .. ClustCnt  BY Constants
  <1>3. ChainFrom(fat)[ClustCnt][c] = <<c>>  BY <1>2, Chains, Marks
  <1>4. c # NoEntry /\ c # FREE /\ fat[c] # FREE  BY Marks DEF NoEntry, FREE
  <1> HIDE DEF new
  <1>5. CASE g # f
    BY <1>1, <1>5 DEF StoreOf, Orderly
  <1>6. CASE g = f
    <2>1. StoreOf(dir, fat)[g] = <<>>  BY <1>6 DEF StoreOf
    <2>2. StoreOf(new, fat)[g] = <<c>>  BY <1>1, <1>3, <1>4, <1>6 DEF StoreOf
    <2>3. Orderly(<<>>, <<c>>)
      <3>1. Len(<<c>>) = 1 /\ <<c>>[1] = c /\ <<FREE>>[1] = FREE  OBVIOUS
      <3>2. <<c>> # <<FREE>>  BY <1>4, <3>1
      <3> QED BY <3>1, <3>2 DEF Orderly
    <2> QED BY <2>1, <2>2, <2>3 DEF new
  <1> QED BY <1>5, <1>6 DEF new

(* An entry without its chain goes. *)
LEMMA EntryVanishes ==
    ASSUME NEW dir \in DirVals, NEW fat, NEW f \in Files, Dangles(dir, fat, f), NEW g \in Files
    PROVE  Orderly(StoreOf(dir, fat)[g], StoreOf([dir EXCEPT ![f] = NoEntry], fat)[g])
  <1> DEFINE new == [dir EXCEPT ![f] = NoEntry]
  <1>1. new[g] = IF g = f THEN NoEntry ELSE dir[g]  BY DEF DirVals
  <1> HIDE DEF new
  <1>2. CASE g # f
    BY <1>1, <1>2 DEF StoreOf, Orderly
  <1>3. CASE g = f
    <2>1. StoreOf(dir, fat)[g] = <<FREE>>  BY <1>3 DEF StoreOf, Dangles
    <2>2. StoreOf(new, fat)[g] = <<>>  BY <1>1, <1>3 DEF StoreOf
    <2> QED BY <2>1, <2>2 DEF Orderly, new
  <1> QED BY <1>2, <1>3 DEF new
-----------------------------------------------------------------------------
(* What the window still owes the medium can always be paid with one        *)
(* orderly step.  A call that is about to change the FAT owes nothing but   *)
(* an entry, or what it has freed itself; one that is about to change the   *)
(* entry owes nothing.                                                      *)
OnDisk == StoreOf(DirOnDisk, FatOnDisk)
Seen   == StoreOf(DirView, ActView)
Chaining == pc = "walk" \/ Stretching \/ Freeing

Pays  == \A f \in Files : Orderly(OnDisk[f], Seen[f])
Level == Chaining /\ DirOnDisk = DirView =>
            \A f \in Files : (Freeing /\ f = call.f) \/ OnDisk[f] = Seen[f]
Even  == pc \in {"add", "rmEntry"} => FatOnDisk = ActView /\ DirOnDisk = DirView

Owes == Pays /\ Level /\ Even

(* The two ways the medium can go, for the files on it. *)
LEMMA MediumGoes ==
    /\ FatOnDisk' = FatOnDisk /\ DirOnDisk' = DirOnDisk => OnDisk' = OnDisk
    /\ FatOnDisk' = ActView /\ DirOnDisk' = DirView => OnDisk' = Seen
    /\ ActView' = ActView /\ DirView' = DirView => Seen' = Seen
  <1>1. FatOnDisk' = FatOnDisk /\ DirOnDisk' = DirOnDisk => OnDisk' = OnDisk
    BY DEF OnDisk, StoreOf, ChainFrom
  <1>2. FatOnDisk' = ActView /\ DirOnDisk' = DirView => OnDisk' = Seen
    BY DEF OnDisk, Seen, StoreOf, ChainFrom
  <1>3. ActView' = ActView /\ DirView' = DirView => Seen' = Seen
    BY DEF Seen, StoreOf, ChainFrom
  <1> QED BY <1>1, <1>2, <1>3

(* A step that changes nothing that is seen, and starts no chain. *)
LEMMA CalmOwes ==
    ASSUME Owes, Calm, pc' \notin {"add", "rmEntry"},
           Chaining' => Chaining /\ call'.f = call.f /\ (Freeing => Freeing')
    PROVE  Owes'
  <1>1. Seen' = Seen /\ (OnDisk' = OnDisk \/ OnDisk' = Seen)  BY MediumGoes DEF Calm
  <1>2. Pays'  BY <1>1 DEF Owes, Pays, Orderly
  <1>3. Level'
    <2> SUFFICES ASSUME Chaining', (DirOnDisk = DirView)', NEW f \in Files, OnDisk'[f] # Seen'[f]
                 PROVE  Freeing' /\ f = call'.f
      BY DEF Level
    <2>1. FatOnDisk' = FatOnDisk /\ DirOnDisk' = DirOnDisk /\ OnDisk' = OnDisk
      BY <1>1, MediumGoes DEF Calm
    <2>2. DirOnDisk = DirView  BY <2>1 DEF Calm
    <2>3. OnDisk[f] # Seen[f]  BY <1>1, <2>1
    <2> QED BY <2>2, <2>3 DEF Owes, Level
  <1>4. Even'  BY DEF Even
  <1> QED BY <1>2, <1>3, <1>4 DEF Owes

(* A call that returns. *)
LEMMA RestOwes == ASSUME Owes, NEW e, Rests(e) \/ FailsAt(e) PROVE Owes'
  <1>1. Calm /\ pc' = "idle"  BY CalmSteps DEF Rests, FailsAt, Return
  <1> QED BY <1>1, CalmOwes DEF Chaining, Stretching, Freeing

(* A step after which the medium has what is seen. *)
LEMMA SettledOwes == ASSUME Settles, SameView PROVE Owes'
  <1>1. FatOnDisk' = ActView' /\ DirOnDisk' = DirView'  BY DEF Settles, SameView
  <1>2. OnDisk' = Seen'  BY MediumGoes, <1>1 DEF Settles, SameView
  <1> QED BY <1>1, <1>2 DEF Owes, Pays, Level, Even, Orderly

LEMMA CrashOwes == ASSUME CrashMoves PROVE Owes'
  <1>1. FatOnDisk' = ActView' /\ DirOnDisk' = DirView'  BY DEF CrashMoves, Stays
  <1>2. OnDisk' = Seen'
    BY <1>1 DEF OnDisk, Seen, StoreOf, ChainFrom
  <1> QED BY <1>1, <1>2 DEF Owes, Pays, Level, Even, Orderly

(* Finding a name takes the window to the directory, away from the FAT.     *)
LEMMA FindLevels ==
    ASSUME MediumFits, CallFits, Next, pc = "find", pc' \notin {"idle", "dead"}
    PROVE  FatOnDisk' = ActView' /\ FindMoves
  <1>1. Find
    BY DEF Next, Step, Begin, BeginSync, Crash, Walk, Near, Scan, PutMirror, PutEoc, PutLink, RmGet, RmPut,
           Flush, UpdateInfo, FlushInfo, Add, RmEntry, Touch, MirrorPc, Puts
  <1>2. PICK o \in UpdateBuf(DirSect) : o.ok /\ Took(o)
    BY <1>1 DEF Find, Fails, Return
  <1>3. o.win.sect = DirSect
    BY <1>2 DEF UpdateBuf, SyncBuf
  <1>4. win'.sect = DirSect  BY <1>2, <1>3 DEF Took
  <1>5. FatOnDisk' = ActView'
    BY <1>4, SectorsFit DEF FatOnDisk, ActView, FatView, View
  <1> QED BY <1>1, <1>5, FindFits

LEMMA FindOwes ==
    ASSUME MediumFits, CallFits, Owes, Next, FindMoves PROVE Owes'
  <1>1. CASE \E e : Rests(e) \/ FailsAt(e)
    BY <1>1, RestOwes
  <1>2. CASE ~\E e : Rests(e) \/ FailsAt(e)
    <2>1. Calm /\ pc' \in {"scan", "walk", "rmGet"} /\ pc = "find"
      BY <1>2, CalmSteps DEF FindMoves, GoesOn, Goto
    <2>2. FatOnDisk' = ActView'  BY <2>1, FindLevels
    <2>3. Seen' = Seen /\ (OnDisk' = OnDisk \/ OnDisk' = Seen)  BY <2>1, MediumGoes DEF Calm
    <2>4. Pays'  BY <2>3 DEF Owes, Pays, Orderly
    <2>5. (DirOnDisk = DirView)' => OnDisk' = Seen'
      BY <2>2 DEF OnDisk, Seen, StoreOf, ChainFrom
    <2> QED BY <2>1, <2>4, <2>5 DEF Owes, Level, Even
  <1> QED BY <1>1, <1>2

(* Steps that put nothing the files depend on. *)
LEMMA BeginsOwes == ASSUME Owes, Begins PROVE Owes'
  <1>1. Calm /\ pc' \in {"touch", "find", "flush"}  BY CalmSteps DEF Begins
  <1> QED BY <1>1, CalmOwes DEF Chaining, Stretching, Freeing

LEMMA GoesOnOwes ==
    ASSUME CallFits, Owes, ~torn', WalkMoves \/ NearMoves \/ ScanMoves \/ RmGetMoves
    PROVE  Owes'
  <1> USE DEF Chaining, Stretching, Freeing
  <1>1. CASE \E e : Rests(e) \/ FailsAt(e)
    BY <1>1, RestOwes
  <1>2. CASE ~\E e : Rests(e) \/ FailsAt(e)
    <2>1. call \in CallSet  BY DEF CallFits
    <2>2. ASSUME NEW c, call' = [call EXCEPT !.clust = c] PROVE call'.f = call.f
      BY <2>1, <2>2 DEF CallSet
    <2>3. ASSUME NEW c, NEW q, call' = [call EXCEPT !.prev = q, !.clust = c] PROVE call'.f = call.f
      BY <2>1, <2>3 DEF CallSet
    <2>4. ASSUME NEW n, call' = [call EXCEPT !.next = n] PROVE call'.f = call.f
      BY <2>1, <2>4 DEF CallSet
    <2>5. CASE WalkMoves
      <3>1. Calm /\ pc' \in {"near", "walk"} /\ pc = "walk" /\ call'.f = call.f
        BY <1>2, <2>2, <2>3, <2>5, CalmSteps DEF WalkMoves, GoesOn, Goto
      <3> QED BY <3>1, CalmOwes
    <2>6. CASE NearMoves
      <3>1. Calm /\ pc' \in {"eocM", "eoc", "scan"} /\ pc = "near" /\ call'.f = call.f
        BY <1>2, <2>2, <2>6, CalmSteps, FirstPuts DEF NearMoves, GoesOn, Goto
      <3> QED BY <3>1, CalmOwes
    <2>7. CASE ScanMoves
      <3>1. Calm /\ pc' \in {"eocM", "eoc", "scan"} /\ pc = "scan" /\ call'.f = call.f
        BY <1>2, <2>2, <2>7, CalmSteps, FirstPuts DEF ScanMoves, GoesOn, Goto
      <3> QED BY <3>1, CalmOwes
    <2>8. CASE RmGetMoves
      <3>1. Calm /\ pc' \in {"rmM", "rm"} /\ pc = "rmGet" /\ call'.f = call.f
        BY <1>2, <2>4, <2>8, CalmSteps, FirstPuts DEF RmGetMoves, GoesOn, Goto
      <3> QED BY <3>1, CalmOwes
    <2> QED BY <2>5, <2>6, <2>7, <2>8
  <1> QED BY <1>1, <1>2

LEMMA MirrorOwes == ASSUME Owes, NEW p \in Puts, MirrorMoves(p) PROVE Owes'
  <1>0. \/ pc = "eocM" /\ p = "eoc"
        \/ pc = "linkM" /\ p = "link"
        \/ pc = "rmM" /\ p = "rm"
    BY DEF MirrorMoves, Puts, MirrorPc
  <1>1. CASE FailsAt("IO")
    BY <1>1, RestOwes
  <1>2. CASE ~FailsAt("IO")
    <2>1. Calm /\ pc' = p /\ call' = call
      BY <1>2, CalmSteps DEF MirrorMoves, Goto
    <2> QED BY <1>0, <2>1, CalmOwes DEF Chaining, Stretching, Freeing
  <1> QED BY <1>1, <1>2

LEMMA SyncsOwes == ASSUME Owes, FlushMoves \/ InfoMoves \/ InfoFlushMoves PROVE Owes'
  <1>1. CASE FailsAt("IO")
    BY <1>1, RestOwes
  <1>2. CASE Looks /\ Settles
    BY <1>2, SettledOwes DEF Looks
  <1>3. CASE PutsInfo /\ Goto("infoFlush")
    <2>1. Calm /\ pc' = "infoFlush"  BY <1>3, CalmSteps DEF Goto
    <2> QED BY <2>1, CalmOwes DEF Chaining, Stretching, Freeing
  <1> QED BY <1>1, <1>2, <1>3 DEF FlushMoves, InfoMoves, InfoFlushMoves

LEMMA TouchOwes == ASSUME MediumFits, CallFits, Owes, TouchMoves PROVE Owes'
  <1>1. CASE FailsAt("IO")
    BY <1>1, RestOwes
  <1>2. CASE ~FailsAt("IO")
    <2>1. PutsDir(call.f, DirView[call.f]) /\ pc' = "flush"  BY <1>2 DEF TouchMoves, Goto
    <2>2. DirView' = DirView  BY <2>1, ViewTypes DEF PutsDir, DirVals
    <2>3. Calm  BY <2>1, <2>2 DEF PutsDir, Calm, Settles, Stays
    <2> QED BY <2>1, <2>3, CalmOwes DEF Chaining, Stretching, Freeing
  <1> QED BY <1>1, <1>2

(* Steps that put something: what was seen before is then on the medium.    *)
LEMMA SeenNext == Seen' = StoreOf(DirView', ActView')
  BY DEF Seen, StoreOf, ChainFrom

LEMMA PutsActPays ==
    ASSUME Owes, Chaining, NEW c, NEW v, PutsAct(c, v)
    PROVE  /\ DirOnDisk' = DirView
           /\ FatOnDisk' \in {FatOnDisk, ActView}
           /\ OnDisk' = StoreOf(DirOnDisk', FatOnDisk')
           /\ \A f \in Files : OnDisk'[f] = Seen[f] \/ (Freeing /\ f = call.f)
  <1>1. OnDisk' = StoreOf(DirOnDisk', FatOnDisk')  BY DEF OnDisk, StoreOf, ChainFrom
  <1>2. CASE Settles
    BY <1>1, <1>2, MediumGoes DEF Settles
  <1>3. CASE Stays /\ DirOnDisk = DirView
    <2>1. OnDisk' = OnDisk  BY <1>3, MediumGoes DEF Stays
    <2> QED BY <1>1, <1>3, <2>1 DEF Stays, Owes, Level
  <1> QED BY <1>2, <1>3 DEF PutsAct

LEMMA EocOwes == ASSUME MediumFits, CallFits, Whole, Owes, EocMoves, ~torn' PROVE Owes'
  <1> USE DEF Chaining, Stretching, Freeing
  <1>1. CASE FailsAt("IO")
    BY <1>1, RestOwes
  <1>2. CASE ~FailsAt("IO")
    <2>1. /\ pc = "eoc" /\ call.clust \in Clusters /\ PutsAct(call.clust, EOC)
          /\ pc' \in {"linkM", "link", "flush"} /\ ~Removing
      BY <1>2, FirstPuts DEF EocMoves, Goto, Allocated, CallFits, Removing, Syncing
    <2>2. /\ ActView' = [ActView EXCEPT ![call.clust] = EOC] /\ DirView' = DirView
          /\ ActView \in [Clusters -> FatVals] /\ DirView \in DirVals
          /\ ActView[call.clust] = FREE /\ Sound(DirView, ActView)
          /\ \A f \in Files : ~Dangles(DirView, ActView, f)
      BY <2>1, ViewTypes, NotRemoving DEF PutsAct, Whole, InHand, Entries
    <2>3. \A d \in Clusters : ActView[d] # call.clust  BY <2>1, <2>2 DEF Sound
    <2>4. \A f \in Files : DirView[f] # call.clust  BY <2>1, <2>2, Marks DEF Dangles
    <2>5. EOC \in FatVals  BY DEF FatVals
    <2>6. \A f \in Files : Seen'[f] = Seen[f]
      BY <2>1, <2>2, <2>3, <2>4, <2>5, SeenNext, FreshKeeps DEF Seen
    <2>7. \A f \in Files : OnDisk'[f] = Seen[f]  BY <2>1, PutsActPays
    <2>8. \A f \in Files : OnDisk'[f] = Seen'[f]  BY <2>6, <2>7
    <2> QED BY <2>1, <2>8 DEF Owes, Pays, Level, Even, Orderly
  <1> QED BY <1>1, <1>2

LEMMA LinkOwes == ASSUME MediumFits, CallFits, Whole, Owes, LinkMoves PROVE Owes'
  <1> USE DEF Chaining, Stretching, Freeing
  <1>1. CASE FailsAt("IO")
    BY <1>1, RestOwes
  <1>2. CASE ~FailsAt("IO")
    <2>1. /\ pc = "link" /\ call.clust \in Clusters /\ call.prev \in Clusters
          /\ PutsAct(call.prev, call.clust) /\ pc' = "flush"
      BY <1>2, Marks DEF LinkMoves, Goto, Allocated, CallFits, Linking
    <2>2. /\ ActView' = [ActView EXCEPT ![call.prev] = call.clust] /\ DirView' = DirView
          /\ ActView \in [Clusters -> FatVals] /\ DirView \in DirVals
          /\ ActView[call.clust] = EOC /\ ActView[call.prev] = EOC
          /\ Fresh(DirView, ActView, call.clust) /\ call.prev # call.clust
      BY <2>1, ViewTypes, Marks DEF PutsAct, Whole, InHand, Linking
    <2>3. \A f \in Files : Orderly(Seen[f], Seen'[f])
      BY <2>1, <2>2, SeenNext, LinkGrows DEF Seen
    <2>4. \A f \in Files : OnDisk'[f] = Seen[f]  BY <2>1, PutsActPays
    <2>5. \A f \in Files : Orderly(OnDisk'[f], Seen'[f])  BY <2>3, <2>4
    <2>6. Pays'  BY <2>5 DEF Pays, Orderly
    <2> QED BY <2>1, <2>6 DEF Owes, Level, Even
  <1> QED BY <1>1, <1>2

LEMMA RmOwes == ASSUME MediumFits, CallFits, Whole, Owes, RmMoves PROVE Owes'
  <1> USE DEF Chaining, Stretching, Freeing
  <1>1. CASE FailsAt("IO")
    BY <1>1, RestOwes
  <1>2. CASE ~FailsAt("IO")
    <2>1. /\ pc = "rm" /\ call.clust \in Clusters /\ call \in CallSet /\ call.f \in Files
          /\ PutsAct(call.clust, FREE) /\ pc' \in {"flush", "rmGet"}
          /\ call' = [call EXCEPT !.then = "rmEntry"] \/ call' = [call EXCEPT !.clust = call.next]
      BY <1>2 DEF RmMoves, Goto, CallFits
    <2>2. call'.f = call.f  BY <2>1 DEF CallSet
    <2>3. /\ ActView' = [ActView EXCEPT ![call.clust] = FREE] /\ DirView' = DirView
          /\ ActView \in [Clusters -> FatVals] /\ DirView \in DirVals
          /\ FatOnDisk \in [Clusters -> FatVals] /\ Sound(DirView, ActView)
          /\ call.clust # RootClust /\ (\A d \in Clusters : ActView[d] # call.clust)
          /\ \A f \in Files : DirView[f] = call.clust => f = call.f
          /\ DirView[call.f] # NoEntry
          /\ DirView[call.f] = call.clust \/ Dangles(DirView, ActView, call.f)
      BY <2>1, ViewTypes DEF PutsAct, Whole, InHand, Entries
    <2>4. FREE \in FatVals  BY DEF FatVals
    <2>5. \A f \in Files : f # call.f => Seen'[f] = Seen[f]
      <3> TAKE f \in Files
      <3> HAVE f # call.f
      <3>1. DirView[f] # call.clust  BY <2>3
      <3>2. StoreOf(DirView, [ActView EXCEPT ![call.clust] = FREE])[f] = StoreOf(DirView, ActView)[f]
        <4>1. /\ call.clust \in Clusters /\ ActView \in [Clusters -> FatVals] /\ DirView \in DirVals
              /\ \A d \in Clusters : ActView[d] # call.clust
          BY <2>1, <2>3
        <4> QED BY <2>4, <3>1, <4>1, FreshKeeps
      <3>3. Seen'[f] = StoreOf(DirView, [ActView EXCEPT ![call.clust] = FREE])[f]
        <4>1. Seen' = StoreOf(DirView', ActView')  BY SeenNext
        <4> QED BY <2>3, <4>1
      <3> QED BY <3>2, <3>3 DEF Seen
    <2>6. Seen'[call.f] = <<FREE>>
      <3>1. Dangles(DirView', ActView', call.f)  BY <2>1, <2>3, SoundFree
      <3>2. ActView' \in [Clusters -> FatVals] /\ DirView' \in DirVals  BY <2>3, <2>4
      <3>3. StoreOf(DirView', ActView')[call.f] = <<FREE>>  BY <2>1, <3>1, <3>2, StoreKinds
      <3> QED BY <3>3, SeenNext
    <2>7. /\ DirOnDisk' = DirView /\ FatOnDisk' \in [Clusters -> FatVals]
          /\ OnDisk' = StoreOf(DirOnDisk', FatOnDisk')
          /\ \A f \in Files : OnDisk'[f] = Seen[f] \/ f = call.f
      BY <2>1, <2>3, PutsActPays
    <2>8. OnDisk'[call.f] # <<>>
      <3>1. OnDisk'[call.f] = StoreOf(DirView, FatOnDisk')[call.f]  BY <2>7
      <3>2. CASE Dangles(DirView, FatOnDisk', call.f)
        <4>1. OnDisk'[call.f] = <<FREE>>  BY <2>1, <2>3, <2>7, <3>1, <3>2, StoreKinds
        <4> QED BY <4>1
      <3>3. CASE ~Dangles(DirView, FatOnDisk', call.f)
        <4>1. OnDisk'[call.f] \notin {<<>>, <<FREE>>}  BY <2>1, <2>3, <2>7, <3>1, <3>3, StoreKinds
        <4> QED BY <4>1
      <3> QED BY <3>2, <3>3
    <2>9. \A f \in Files : f # call.f => OnDisk'[f] = Seen'[f]  BY <2>5, <2>7
    <2>10. \A f \in Files : Orderly(OnDisk'[f], Seen'[f])
      BY <2>6, <2>8, <2>9 DEF Orderly
    <2>11. Pays'  BY <2>10 DEF Pays, Orderly
    <2>12. Level'  BY <2>1, <2>2, <2>9 DEF Level
    <2> QED BY <2>1, <2>11, <2>12 DEF Owes, Even
  <1> QED BY <1>1, <1>2

LEMMA PutsDirPays ==
    ASSUME Owes, pc \in {"add", "rmEntry"}, NEW f, NEW v, PutsDir(f, v) PROVE OnDisk' = Seen
  <1>1. FatOnDisk = ActView /\ DirOnDisk = DirView  BY DEF Owes, Even
  <1>2. FatOnDisk' = ActView /\ DirOnDisk' = DirView  BY <1>1 DEF PutsDir, Settles, Stays
  <1> QED BY <1>2, MediumGoes

LEMMA AddOwes == ASSUME MediumFits, CallFits, Whole, Owes, AddMoves PROVE Owes'
  <1>1. CASE FailsAt("IO")
    BY <1>1, RestOwes
  <1>2. CASE ~FailsAt("IO")
    <2>1. /\ pc = "add" /\ call.f \in Files /\ call.clust \in Clusters /\ call.op = "create"
          /\ PutsDir(call.f, call.clust) /\ pc' = "idle"
      BY <1>2 DEF AddMoves, Return, CallFits, Ready
    <2>2. /\ DirView' = [DirView EXCEPT ![call.f] = call.clust] /\ ActView' = ActView
          /\ ActView \in [Clusters -> FatVals] /\ DirView \in DirVals
          /\ ActView[call.clust] = EOC /\ DirView[call.f] = NoEntry
      BY <2>1, ViewTypes DEF PutsDir, Whole, InHand, Ready
    <2>3. \A g \in Files : Orderly(Seen[g], Seen'[g])
      BY <2>1, <2>2, SeenNext, EntryAppears DEF Seen
    <2>4. OnDisk' = Seen  BY <2>1, PutsDirPays
    <2>5. Pays'  BY <2>3, <2>4 DEF Pays, Orderly
    <2> QED BY <2>1, <2>5 DEF Owes, Level, Even, Chaining, Stretching, Freeing
  <1> QED BY <1>1, <1>2

LEMMA RmEntryOwes == ASSUME MediumFits, CallFits, Whole, Owes, RmEntryMoves PROVE Owes'
  <1>1. CASE FailsAt("IO")
    BY <1>1, RestOwes
  <1>2. CASE ~FailsAt("IO")
    <2>1. /\ pc = "rmEntry" /\ call.f \in Files /\ call.op = "unlink"
          /\ PutsDir(call.f, NoEntry) /\ pc' = "flush"
      BY <1>2 DEF RmEntryMoves, Goto, CallFits
    <2>2. /\ DirView' = [DirView EXCEPT ![call.f] = NoEntry] /\ ActView' = ActView
          /\ ActView \in [Clusters -> FatVals] /\ DirView \in DirVals
          /\ Dangles(DirView, ActView, call.f)
      BY <2>1, ViewTypes DEF PutsDir, Whole, InHand, Removing, Freeing
    <2>3. \A g \in Files : Orderly(Seen[g], Seen'[g])
      BY <2>1, <2>2, SeenNext, EntryVanishes DEF Seen
    <2>4. OnDisk' = Seen  BY <2>1, PutsDirPays
    <2>5. Pays'  BY <2>3, <2>4 DEF Pays, Orderly
    <2> QED BY <2>1, <2>5 DEF Owes, Level, Even, Chaining, Stretching, Freeing
  <1> QED BY <1>1, <1>2

LEMMA OwesKeeps == ASSUME IInv, ~torn, Owes, Next, ~torn' PROVE Owes'
  <1>1. MediumFits /\ CallFits /\ Whole  BY DEF IInv
  <1>2. Moves  BY <1>1, NextMoves DEF Moves
  <1> QED BY <1>1, <1>2, BeginsOwes, FindOwes, GoesOnOwes, MirrorOwes, SyncsOwes, TouchOwes, EocOwes, LinkOwes,
             RmOwes, AddOwes, RmEntryOwes, CrashOwes DEF Moves, CallMoves

StoreInv == IInv /\ (~torn => Owes)

LEMMA TornStays == ASSUME Moves, torn PROVE torn'
  BY DEF Moves, CallMoves, Begins, FindMoves, WalkMoves, NearMoves, ScanMoves, EocMoves, LinkMoves,
     MirrorMoves, RmGetMoves, RmMoves, FlushMoves, InfoMoves, InfoFlushMoves, AddMoves, RmEntryMoves,
     TouchMoves, CrashMoves, Rests, FailsAt, GoesOn, Return, Goto, Allocated, Synced

LEMMA StoreInductive == Spec => []StoreInv
  <1>1. Init => StoreInv
    <2> SUFFICES ASSUME Init PROVE IInv /\ Owes
      BY DEF StoreInv
    <2>1. ActView = FatOnDisk /\ DirView = DirOnDisk /\ pc = "idle"  BY InitMedium DEF Init
    <2>2. OnDisk = Seen  BY <2>1 DEF OnDisk, Seen
    <2> QED BY <2>1, <2>2, InitHolds DEF Owes, Pays, Level, Even, Orderly
  <1>2. StoreInv /\ [Next]_vars => StoreInv'
    <2> SUFFICES ASSUME StoreInv, [Next]_vars PROVE StoreInv'
      OBVIOUS
    <2>1. IInv'  BY StepKeeps, StutterKeeps DEF StoreInv
    <2>2. CASE Next
      <3> SUFFICES ASSUME ~torn' PROVE Owes'
        BY <2>1 DEF StoreInv
      <3>1. ~torn  BY <2>2, NextMoves, TornStays DEF StoreInv, IInv, Moves
      <3> QED BY <2>2, <3>1, OwesKeeps DEF StoreInv
    <2>3. CASE UNCHANGED vars
      <3>1. disk' = disk /\ win' = win /\ pc' = pc /\ call' = call /\ torn' = torn  BY <2>3 DEF vars
      <3>2. /\ ActView' = ActView /\ DirView' = DirView
            /\ FatOnDisk' = FatOnDisk /\ DirOnDisk' = DirOnDisk
        BY <3>1 DEF ActView, DirView, FatView, View, FatOnDisk, DirOnDisk
      <3>3. OnDisk' = OnDisk /\ Seen' = Seen  BY <3>2, MediumGoes
      <3>4. Owes => Owes'
        BY <3>1, <3>2, <3>3 DEF Owes, Pays, Level, Even, Orderly, Chaining, Stretching, Freeing
      <3> QED BY <2>1, <3>1, <3>4 DEF StoreInv
    <2> QED BY <2>2, <2>3
  <1> QED BY <1>1, <1>2, PTL DEF Spec
-----------------------------------------------------------------------------
(* On the medium one sector at most changes. *)
LEMMA MediumMoves ==
    ASSUME Moves
    PROVE  \/ FatOnDisk' = FatOnDisk /\ DirOnDisk' = DirOnDisk
           \/ FatOnDisk' = ActView /\ DirOnDisk' = DirView
  <1> DEFINE Goal == \/ FatOnDisk' = FatOnDisk /\ DirOnDisk' = DirOnDisk
                     \/ FatOnDisk' = ActView /\ DirOnDisk' = DirView
  <1>1. Stays \/ Settles => Goal  BY DEF Stays, Settles
  <1>2. /\ Looks => Goal
        /\ PutsInfo => Goal
        /\ \A c, v : PutsAct(c, v) => Goal
        /\ \A c, v : PutsMir(c, v) => Goal
        /\ \A c, v : PutsDir(c, v) => Goal
    <2> HIDE DEF Goal
    <2> QED BY <1>1 DEF Looks, PutsInfo, PutsAct, PutsMir, PutsDir
  <1> HIDE DEF Goal
  <1>3. Goal
    BY <1>1, <1>2 DEF Moves, CallMoves, Begins, FindMoves, WalkMoves, NearMoves, ScanMoves, EocMoves, LinkMoves,
       MirrorMoves, RmGetMoves, RmMoves, FlushMoves, InfoMoves, InfoFlushMoves, AddMoves, RmEntryMoves,
       TouchMoves, CrashMoves, Rests, FailsAt, GoesOn
  <1> QED BY <1>3 DEF Goal

LEMMA StepReaches == ASSUME StoreInv, Moves, ~torn PROVE Store!Reaches
  <1>1. /\ Sound(DirOnDisk, FatOnDisk) /\ Sound(DirView, ActView) /\ Pays
        /\ DirOnDisk \in DirVals /\ FatOnDisk \in [Clusters -> FatVals]
        /\ DirView \in DirVals /\ ActView \in [Clusters -> FatVals]
    BY ViewTypes DEF StoreInv, IInv, Whole, Entries, Owes
  <1>2. StoreOnDisk = OnDisk  BY StoreIs DEF OnDisk
  <1>3. StoreOnDisk' = OnDisk'  BY DEF StoreOnDisk, OnDisk, StoreOf, ChainFrom
  <1>4. StoreOnDisk' \in {OnDisk, Seen}  BY <1>3, MediumMoves, MediumGoes
  <1>5. Store!Disjoint(StoreOnDisk') /\ \A f \in Files : Store!Simple(StoreOnDisk'[f])
    <2>1. Store!Disjoint(OnDisk) /\ \A f \in Files : Store!Simple(OnDisk[f])
      BY <1>1, StoreSound DEF OnDisk
    <2>2. Store!Disjoint(Seen) /\ \A f \in Files : Store!Simple(Seen[f])
      BY <1>1, StoreSound DEF Seen
    <2> QED BY <1>4, <2>1, <2>2
  <1>6. \A f \in Files : Orderly(StoreOnDisk[f], StoreOnDisk'[f])
    BY <1>1, <1>2, <1>4 DEF Pays, Orderly
  <1>7. ASSUME NEW f \in Files
        PROVE  Store!Keeps(f) \/ Store!Appears(f) \/ Store!Grows(f) \/ Store!Loses(f) \/ Store!Vanishes(f)
    BY <1>6 DEF Orderly, Store!Keeps, Store!Appears, Store!Grows, Store!Loses, Store!Vanishes
  <1> QED BY <1>5, <1>7 DEF Store!Reaches

(* For every size of volume, all files and any number of failed transfers  *)
(* and crashes, the files on the medium move as FileStore says: from one   *)
(* sector that gets there to the next they appear with one cluster, grow   *)
(* by one at the end, lose their content or vanish, and never share a      *)
(* cluster, until a call that was cut short has left a dangling entry.     *)
THEOREM MediumIsStore == Spec => ImplementsStore
  <1>1. Init => Store!Init
    <2> SUFFICES ASSUME Init PROVE Store!Init
      OBVIOUS
    <2>1. DirView = DirOnDisk /\ (\A f \in Files : DirView[f] = NoEntry) /\ torn = FALSE
      BY InitMedium DEF Init
    <2>2. StoreOnDisk = [f \in Files |-> <<>>]  BY <2>1 DEF StoreOnDisk
    <2> QED BY <2>1, <2>2 DEF Store!Init
  <1>2. StoreInv /\ StoreInv' /\ [Next]_vars => [Store!Next]_(Store!vars)
    <2> SUFFICES ASSUME StoreInv, StoreInv', [Next]_vars PROVE [Store!Next]_(Store!vars)
      OBVIOUS
    <2>1. CASE UNCHANGED vars
      <3>1. disk' = disk /\ torn' = torn  BY <2>1 DEF vars
      <3>2. StoreOnDisk' = StoreOnDisk
        BY <3>1 DEF StoreOnDisk, ChainFrom, DirOnDisk, FatOnDisk
      <3> QED BY <3>1, <3>2 DEF Store!vars
    <2>2. CASE Next
      <3>1. Moves  BY <2>2, NextMoves DEF StoreInv, IInv, Moves
      <3>2. torn \in BOOLEAN /\ torn' \in BOOLEAN  BY DEF StoreInv, IInv, CallFits
      <3>3. CASE torn
        BY <3>1, <3>3, TornStays DEF Store!Next, Store!Drift
      <3>4. CASE ~torn /\ torn'
        BY <3>1, <3>4, StepReaches DEF Store!Next, Store!Break
      <3>5. CASE ~torn /\ ~torn'
        <4>1. torn' = torn  BY <3>2, <3>5
        <4> QED BY <3>1, <3>5, <4>1, StepReaches DEF Store!Next, Store!Commit
      <3> QED BY <3>3, <3>4, <3>5
    <2> QED BY <2>1, <2>2
  <1> QED BY <1>1, <1>2, StoreInductive, PTL DEF Spec, ImplementsStore, Store!Spec
=============================================================================
