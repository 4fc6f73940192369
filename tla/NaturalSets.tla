----------------------------- MODULE NaturalSets ------------------------------
(* Facts about sets of natural numbers that the proofs of several components *)
(* need: the smallest and the largest member, and induction, with a set in   *)
(* place of the predicate.                                                   *)
EXTENDS Integers, FiniteSetsExt, WellFoundedInduction, TLAPS

LessThanOnNat == {p \in Nat \X Nat : p[1] < p[2]}

LEMMA NatWF == IsWellFoundedOn(LessThanOnNat, Nat)
  BY NatLessThanWellFounded DEF OpToRel, LessThanOnNat

\* A set of natural numbers with a member has a smallest one.
LEMMA Least ==
  ASSUME NEW T \in SUBSET Nat, T # {}
  PROVE  \E n \in T : \A m \in T : n <= m
  <1>1. PICK x \in T : \A y \in T : ~(<<y, x>> \in LessThanOnNat)
    BY NatWF, WFMin
  <1>2. ASSUME NEW y \in T, y < x PROVE FALSE
    <2>1. <<y, x>> \in LessThanOnNat
      BY <1>2 DEF LessThanOnNat
    <2> QED BY <1>1, <2>1
  <1> QED BY <1>1, <1>2

\* A set of numbers that holds 0, and with each number below a bound the next
\* one, holds every number up to the bound.
LEMMA UpTo ==
  ASSUME NEW T, NEW n \in Nat, 0 \in T, \A k \in 0..n : k \in T /\ k < n => k + 1 \in T
  PROVE  0..n \subseteq T
  <1> DEFINE U == (0..n) \ T
  <1> SUFFICES ASSUME U # {} PROVE FALSE
    OBVIOUS
  <1>1. U \in SUBSET Nat
    OBVIOUS
  <1>2. PICK k \in U : \A m \in U : k <= m
    BY <1>1, Least
  <1>3. k - 1 \in 0..n /\ k - 1 < n /\ (k - 1) + 1 = k /\ ~(k <= k - 1)
    OBVIOUS
  <1>4. k - 1 \in T
    BY <1>2, <1>3
  <1> QED BY <1>2, <1>3, <1>4

\* Max finds the largest of a set of natural numbers with a bound.
LEMMA MaxIs ==
  ASSUME NEW n \in Nat, NEW T \in SUBSET (0..n), T # {}
  PROVE  Max(T) \in T /\ \A t \in T : t <= Max(T)
  <1> DEFINE D == {d \in Nat : n - d \in T}
  <1>0. \A t \in T : n - t \in Nat /\ n - (n - t) = t
    OBVIOUS
  <1>1. D # {}
    BY <1>0
  <1>2. PICK d \in D : \A e \in D : d <= e
    BY <1>1, Least
  <1>3. ASSUME NEW t \in T PROVE t <= n - d
    <2>1. d <= n - t
      BY <1>0, <1>2
    <2> QED BY <2>1
  <1>4. \E x \in T : \A y \in T : x >= y
    BY <1>3
  <1> QED BY <1>4 DEF Max

LEMMA MaxIsLast ==
  ASSUME NEW k \in Nat, NEW T \in SUBSET (1..(k + 1)), k + 1 \in T
  PROVE  Max(T) = k + 1
  <1>1. T \in SUBSET (0..(k + 1)) /\ k + 1 \in Nat
    OBVIOUS
  <1>2. \A x \in T : x \in Nat /\ x <= k + 1
    OBVIOUS
  <1>3. Max(T) \in T /\ k + 1 <= Max(T)
    BY <1>1, MaxIs
  <1>4. Max(T) \in Nat /\ Max(T) <= k + 1
    BY <1>2, <1>3, Zenon
  <1> QED BY <1>3, <1>4

LEMMA IntervalMax ==
  ASSUME NEW k \in Nat
  PROVE  1..(k + 1) # {} /\ Max(1..(k + 1)) = k + 1 /\ (1..(k + 1)) \ {k + 1} = 1..k
  <1>1. k + 1 \in 1..(k + 1) /\ (1..(k + 1)) \ {k + 1} = 1..k
    OBVIOUS
  <1>2. Max(1..(k + 1)) = k + 1
    <2> DEFINE I == 1..(k + 1)
    <2>1. k + 1 \in I /\ I \in SUBSET (1..(k + 1))
      OBVIOUS
    <2> HIDE DEF I
    <2>2. Max(I) = k + 1
      BY <2>1, MaxIsLast
    <2> QED BY <2>2 DEF I
  <1> QED BY <1>1, <1>2
=============================================================================
