----------------------------- MODULE NumberFacts -----------------------------
(***************************************************************************)
(* Least and greatest numbers of a set: what Min and Max of FiniteSetsExt  *)
(* choose, which the proofs about players and maps rest on.                *)
(***************************************************************************)
EXTENDS Integers, FiniteSetsExt, TLAPS, WellFoundedInduction

LEMMA LeastNat ==
    ASSUME NEW S \in SUBSET Nat, S # {}
    PROVE  \E x \in S : \A y \in S : x <= y
  <1>1. PICK x \in S : \A y \in S : ~(<<y, x>> \in OpToRel(<, Nat))
    BY NatLessThanWellFounded, WFMin
  <1>2. \A y \in S : ~(y < x)
    BY <1>1 DEF OpToRel
  <1> QED
    BY <1>2

LEMMA LeastBy ==
    ASSUME NEW N, N # {}, NEW f, \A n \in N : f[n] \in Nat
    PROVE  \E a \in N : \A n \in N : f[a] <= f[n]
  <1> DEFINE S == {f[n] : n \in N}
  <1>1. S \in SUBSET Nat /\ S # {}
    OBVIOUS
  <1>2. PICK x \in S : \A y \in S : x <= y
    BY <1>1, LeastNat
  <1>3. PICK a \in N : x = f[a]
    BY <1>2
  <1>4. \A n \in N : f[n] \in S
    OBVIOUS
  <1> QED
    BY <1>2, <1>3, <1>4

LEMMA MinFacts ==
    ASSUME NEW S \in SUBSET Nat, S # {}
    PROVE  Min(S) \in S /\ \A y \in S : Min(S) <= y
  BY LeastNat DEF Min

LEMMA MinIs ==
    ASSUME NEW S \in SUBSET Nat, NEW x \in S, \A y \in S : x <= y
    PROVE  Min(S) = x
  <1>1. Min(S) \in S /\ Min(S) <= x
    BY MinFacts
  <1>2. Min(S) \in Nat /\ x \in Nat /\ x <= Min(S)
    BY <1>1
  <1> QED
    BY <1>1, <1>2

LEMMA MaxFacts ==
    ASSUME NEW S \in SUBSET Nat, S # {}, NEW b \in Nat, \A x \in S : x <= b
    PROVE  Max(S) \in S /\ \A y \in S : y <= Max(S)
  <1> DEFINE D == {b - x : x \in S}
  <1>1. D \in SUBSET Nat /\ D # {}
    <2>1. \A x \in S : b - x \in Nat
      OBVIOUS
    <2> QED
      BY <2>1
  <1>2. PICK d \in D : \A e \in D : d <= e
    BY <1>1, LeastNat
  <1>3. PICK x \in S : d = b - x
    BY <1>2
  <1>4. \A y \in S : y <= x
    <2> SUFFICES ASSUME NEW y \in S PROVE y <= x
      OBVIOUS
    <2>1. b - y \in D
      OBVIOUS
    <2>2. b - x <= b - y
      BY <1>2, <1>3, <2>1
    <2> QED
      BY <2>2
  <1> QED
    BY <1>4 DEF Max

LEMMA MaxIs ==
    ASSUME NEW S \in SUBSET Nat, NEW x \in S, \A y \in S : y <= x
    PROVE  Max(S) = x
  <1>1. Max(S) \in S /\ x <= Max(S)
    BY MaxFacts
  <1>2. Max(S) \in Nat /\ x \in Nat /\ Max(S) <= x
    BY <1>1
  <1> QED
    BY <1>1, <1>2

(* The orders in which lists are folded, for the Sel of module FoldFacts.  *)
ByMax(a, E) == Max(E)
ByMin(a, E) == Min(E)
=============================================================================
