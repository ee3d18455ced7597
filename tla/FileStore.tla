----------------------------- MODULE FileStore -----------------------------
(***************************************************************************)
(* What a caller of src/trfs/fat32/fat.c can rely on to find on the medium *)
(* after a power loss at any moment.  A file is the sequence of clusters   *)
(* of its chain.  Files appear with one cluster, keep the clusters they    *)
(* have in their order, and share none.  Unlinking first loses the content *)
(* and then the name; an unlink that is cut short, or an allocation that   *)
(* reports success after a failed read, ends all promises.                 *)
(***************************************************************************)
EXTENDS Naturals, Sequences

CONSTANTS Files, Clusters, Lost

VARIABLES store, broken

vars == <<store, broken>>

ClustersOf(s) == {s[i] : i \in 1 .. Len(s)}

Disjoint(st) ==
    \A f, g \in Files : f # g => ClustersOf(st[f]) \cap ClustersOf(st[g]) \cap Clusters = {}

Simple(s) == \A i, j \in 1 .. Len(s) : i # j => s[i] # s[j]

Init ==
    /\ store = [f \in Files |-> <<>>]
    /\ broken = FALSE

(* The next state of one file. *)
Keeps(f)  == store'[f] = store[f]
Appears(f) == store[f] \in {<<>>, Lost} /\ Len(store'[f]) = 1 /\ store'[f] # Lost
Grows(f)  == /\ store[f] \notin {<<>>, Lost}
             /\ Len(store'[f]) = Len(store[f]) + 1
             /\ SubSeq(store'[f], 1, Len(store[f])) = store[f]
Loses(f)  == store[f] \notin {<<>>, Lost} /\ store'[f] = Lost
Vanishes(f) == store[f] = Lost /\ store'[f] = <<>>

(* One sector reaches the medium; it can carry the news of several calls.  *)
Reaches ==
    /\ \A f \in Files : Keeps(f) \/ Appears(f) \/ Grows(f) \/ Loses(f) \/ Vanishes(f)
    /\ Disjoint(store')
    /\ \A f \in Files : Simple(store'[f])

Commit == ~broken /\ Reaches /\ UNCHANGED broken

(* The step after which nothing is promised is itself an orderly one. *)
Break == ~broken /\ Reaches /\ broken'

(* No promise is left; nothing is ever whole again. *)
Drift == broken /\ broken'

Next == Commit \/ Break \/ Drift

Spec == Init /\ [][Next]_vars
=============================================================================
