----------------------------- MODULE MCFatFile -----------------------------
(***************************************************************************)
(* Small files for TLC, in three scenes; a behaviour plays in one of them: *)
(* one handle of every kind, with a failure at any moment; two handles     *)
(* that write, without failures; and two that read, with failures.         *)
(***************************************************************************)
EXTENDS FatFile, TLC

CONSTANTS h1, h2

VARIABLES scene,
    pDisk, pWin, pFaults, pData, pHs, pPc, pCall, pRes, pLost, pSpoilt,
    sDisk, sWin, sFaults, sData, sHs, sPc, sCall, sRes, sLost, sSpoilt

(* Sectors of n bytes: all the same, or each another one, so that one      *)
(* taken for another is seen.                                              *)
Same(sects, n) == {[s \in 0 .. sects - 1 |-> [i \in 0 .. n - 1 |-> 0]]}
Each(sects, n) == {[s \in 0 .. sects - 1 |-> [i \in 0 .. n - 1 |-> s % 2]]}

AloneFlags == {{"WRITE", "TRUNC"}, {"READ", "WRITE", "APPEND"}}
AloneSeeks == {-3, 2}
AloneFresh == Same(2, 2)

Pair == INSTANCE FatFile WITH
    SectSize <- 1, ClustSects <- 1, MaxClusts <- 2, MaxOff <- 1, MaxLen <- 2,
    Vals <- {0, 1}, Handles <- {h1, h2}, Flags <- {{"READ"}, {"WRITE"}},
    Seeks <- {0}, Uses <- {"read", "write", "seek", "close"},
    Fresh <- Same(2, 1), MaxFaults <- 0, disk <- pDisk, win <- pWin,
    faults <- pFaults, data <- pData, hs <- pHs, pc <- pPc, call <- pCall,
    res <- pRes, lost <- pLost, spoilt <- pSpoilt

Readers == INSTANCE FatFile WITH
    SectSize <- 2, ClustSects <- 2, MaxClusts <- 3, MaxOff <- 12,
    MaxLen <- 5, Vals <- {0, 1}, Handles <- {h1, h2}, Flags <- {{"READ"}},
    Seeks <- {}, Uses <- {"read", "close"}, Fresh <- Each(6, 2),
    MaxFaults <- 2, disk <- sDisk, win <- sWin, faults <- sFaults,
    data <- sData, hs <- sHs, pc <- sPc, call <- sCall, res <- sRes,
    lost <- sLost, spoilt <- sSpoilt

pVars == <<pDisk, pWin, pFaults, pData, pHs, pPc, pCall, pRes, pLost,
          pSpoilt>>
sVars == <<sDisk, sWin, sFaults, sData, sHs, sPc, sCall, sRes, sLost,
          sSpoilt>>
Vars  == <<scene, vars, pVars, sVars>>

AloneShut   == Closed(0, CHOOSE d \in Same(2, 2) : TRUE)
PairShut    == Pair!Closed(0, CHOOSE d \in Same(2, 1) : TRUE)
ReadersShut == Readers!Closed(0, CHOOSE d \in Each(6, 2) : TRUE)

MCInit ==
    \/ scene = "alone"   /\ Init /\ PairShut   /\ ReadersShut
    \/ scene = "pair"    /\ Pair!Init /\ AloneShut   /\ ReadersShut
    \/ scene = "readers" /\ Readers!Init /\ AloneShut /\ PairShut

MCNext ==
    /\ UNCHANGED scene
    /\ \/ scene = "alone"   /\ Next   /\ UNCHANGED <<pVars, sVars>>
       \/ scene = "pair"    /\ Pair!Next    /\ UNCHANGED <<vars, sVars>>
       \/ scene = "readers" /\ Readers!Next /\ UNCHANGED <<vars, pVars>>

MCSpec == MCInit /\ [][MCNext]_Vars
-----------------------------------------------------------------------------
(* The handles of the other scenes are sound too, and closing them is      *)
(* durable; readers change neither size nor bytes, and add one cluster to  *)
(* the chain at most.                                                      *)
PairKept    == []Pair!HandlesSound /\ Pair!CloseIsDurable /\ Pair!NoShrink
ReadersKept == []Readers!HandlesSound /\ Readers!ReadersLeaveFile /\ []Readers!ChainBounded

(* Through a handle the file is an array of bytes; what two handles had in *)
(* their buffers at once, one of them to write, is the exception.          *)
ImplementsFiles == ImplementsFile /\ Pair!ImplementsFile /\ PairKept /\ ReadersKept
=============================================================================
