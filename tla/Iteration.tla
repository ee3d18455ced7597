----------------------------- MODULE Iteration -----------------------------
(***************************************************************************)
(* Lemmas for proofs about loops.  The library's induction theorems take   *)
(* the statement to prove as an operator; these take the set of the        *)
(* numbers it holds of, and a loop's body as a function.                   *)
(***************************************************************************)
EXTENDS Integers, FiniteSetTheorems, TLAPS

(* A set of natural numbers has a least one. *)
LEMMA LeastOf ==
    ASSUME NEW T, T \subseteq Nat, T # {}
    PROVE  \E x \in T : \A y \in T : x <= y
  <1> DEFINE S == {0 .. x : x \in T}
             R == StrictSubsetOrdering(Nat)
             F == FiniteSubsetsOf(Nat)
  <1>1. IsWellFoundedOn(R, F)  BY FS_StrictSubsetOrderingWellFounded
  <1>2. S \subseteq F /\ S # {}
    <2>1. \A x \in T : IsFiniteSet(0 .. x)  BY FS_Interval
    <2>2. \A x \in T : 0 .. x \subseteq Nat  OBVIOUS
    <2> QED BY <2>1, <2>2 DEF FiniteSubsetsOf
  <1>3. \A x, y \in T : y < x => <<0 .. y, 0 .. x>> \in R
    <2>1. ASSUME NEW x \in T, NEW y \in T, y < x
          PROVE  0 .. y \subseteq 0 .. x /\ 0 .. y # 0 .. x
      <3>1. x \in 0 .. x /\ x \notin 0 .. y  BY <2>1
      <3> QED BY <2>1, <3>1
    <2>2. \A x \in T : 0 .. x \in SUBSET Nat  OBVIOUS
    <2> QED BY <2>1, <2>2 DEF StrictSubsetOrdering
  <1> HIDE DEF R, F
  <1>4. \E s \in S : \A r \in S : ~(<<r, s>> \in R)
    <2> HIDE DEF S
    <2> QED BY <1>1, <1>2, WFMin
  <1>5. PICK x \in T : \A y \in T : ~(<<0 .. y, 0 .. x>> \in R)  BY <1>4
  <1>6. \A y \in T : x <= y
    <2> TAKE y \in T
    <2>1. ~(y < x)  BY <1>3, <1>5
    <2>2. x \in Nat /\ y \in Nat  OBVIOUS
    <2> QED BY <2>1, <2>2
  <1> QED BY <1>6

(* What holds before a loop, and after a round if it did before, holds      *)
(* after every round.                                                       *)
LEMMA EveryRound ==
    ASSUME NEW n \in Nat, NEW T, 0 \in T, \A p \in 1 .. n : p - 1 \in T => p \in T
    PROVE  0 .. n \subseteq T
  <1> SUFFICES ASSUME (0 .. n) \ T # {} PROVE FALSE  OBVIOUS
  <1>1. (0 .. n) \ T \subseteq Nat  OBVIOUS
  <1>2. PICK x \in (0 .. n) \ T : \A y \in (0 .. n) \ T : x <= y  BY <1>1, LeastOf
  <1>3. x \in 1 .. n /\ x - 1 \in 0 .. n  BY <1>2
  <1>4. x - 1 \in T  BY <1>2, <1>3
  <1> QED BY <1>2, <1>3, <1>4

(* f[k] is the state after k of n rounds of a loop. *)
Loops(f, n, States, first, body) ==
    /\ f \in [0 .. n -> States] /\ f[0] = first
    /\ \A p \in 1 .. n : f[p] = body[<<p, f[p - 1]>>]

(* A loop whose body turns a state into a state goes through states. *)
LEMMA RoundsExist ==
    ASSUME NEW n \in Nat, NEW States, NEW first \in States,
           NEW body \in [(1 .. n) \X States -> States]
    PROVE  \E f : Loops(f, n, States, first, body)
  <1> DEFINE Upto(k, f) == /\ f \in [0 .. k -> States] /\ f[0] = first
                           /\ \A p \in 1 .. k : f[p] = body[<<p, f[p - 1]>>]
             T == {k \in 0 .. n : \E f : Upto(k, f)}
  <1>1. 0 \in T
    <2>1. Upto(0, [p \in 0 .. 0 |-> first])  OBVIOUS
    <2> HIDE DEF Upto
    <2>2. \E f : Upto(0, f)  BY <2>1
    <2> QED BY <2>2
  <1>2. ASSUME NEW k \in 1 .. n, k - 1 \in T PROVE k \in T
    <2>1. PICK f : Upto(k - 1, f)  BY <1>2
    <2> DEFINE g == [p \in 0 .. k |-> IF p = k THEN body[<<k, f[k - 1]>>] ELSE f[p]]
    <2>2. g \in [0 .. k -> States]
      <3>1. f[k - 1] \in States  BY <2>1
      <3>2. body[<<k, f[k - 1]>>] \in States  BY <3>1
      <3>3. \A p \in 0 .. k : p # k => f[p] \in States  BY <2>1
      <3> QED BY <3>2, <3>3
    <2>3. g[0] = first  BY <2>1
    <2>4. ASSUME NEW p \in 1 .. k PROVE g[p] = body[<<p, g[p - 1]>>]
      <3>1. p \in 0 .. k /\ p - 1 \in 0 .. k /\ p - 1 # k  OBVIOUS
      <3>2. g[p - 1] = f[p - 1]  BY <3>1
      <3>3. CASE p = k  BY <3>1, <3>2, <3>3
      <3>4. CASE p # k
        <4>1. p \in 1 .. (k - 1)  BY <3>4
        <4> QED BY <2>1, <3>1, <3>2, <3>4, <4>1
      <3> QED BY <3>3, <3>4
    <2> HIDE DEF g
    <2>5. Upto(k, g)  BY <2>2, <2>3, <2>4
    <2> QED BY <2>5
  <1>3. n \in T
    <2> HIDE DEF T
    <2> QED BY <1>1, <1>2, EveryRound
  <1> QED BY <1>3 DEF Loops
=============================================================================
