------------------------------ MODULE Induction ------------------------------
(***************************************************************************)
(* Induction over numbers for the proofs about recursive functions.  The   *)
(* library's induction theorems take a predicate as an operator; these     *)
(* take a set, the set of the numbers that have the property, and follow   *)
(* from its theorem that < is well-founded on Nat.                         *)
(***************************************************************************)
EXTENDS Integers, WellFoundedInduction, TLAPS

LEMMA LeastNat ==
  ASSUME NEW T \in SUBSET Nat, T # {}
  PROVE  \E n \in T : \A m \in T : n <= m
  <1> PICK R : R = {ss \in Nat \X Nat : ss[1] < ss[2]}
    OBVIOUS
  <1>1. IsWellFoundedOn(R, Nat)
    BY NatLessThanWellFounded DEF OpToRel
  <1>2. \E x \in T : \A y \in T : ~(<<y, x>> \in R)
    BY <1>1, WFMin
  <1>3. \A x, y \in Nat : y < x => <<y, x>> \in R
    OBVIOUS
  <1>4. \A x, y \in Nat : ~(y < x) => x <= y
    OBVIOUS
  <1> QED BY <1>2, <1>3, <1>4

LEMMA NatInduct ==
  ASSUME NEW S, 0 \in S, \A n \in S \cap Nat : n + 1 \in S
  PROVE  Nat \subseteq S
  <1> SUFFICES ASSUME Nat \ S # {} PROVE FALSE
    OBVIOUS
  <1>1. Nat \ S \in SUBSET Nat
    OBVIOUS
  <1>2. PICK n \in Nat \ S : \A m \in Nat \ S : n <= m
    BY <1>1, LeastNat
  <1>3. n - 1 \in Nat /\ n = (n - 1) + 1 /\ ~(n <= n - 1)
    BY <1>2
  <1>4. n - 1 \in S
    BY <1>2, <1>3
  <1> QED BY <1>2, <1>3, <1>4

(* From one end of an interval to the other. *)
LEMMA UpwardInduct ==
  ASSUME NEW lower \in Int, NEW upper \in Int, NEW S,
         lower <= upper => lower \in S,
         \A n \in Int : lower <= n /\ n < upper /\ n \in S => n + 1 \in S
  PROVE  \A n \in Int : lower <= n /\ n <= upper => n \in S
  <1> DEFINE T == {k \in Nat : lower + k <= upper => lower + k \in S}
  <1>1. 0 \in T
    BY lower + 0 = lower
  <1>2. ASSUME NEW k \in T PROVE k + 1 \in T
    <2>1. lower + k \in Int /\ lower <= lower + k /\ lower + (k + 1) = (lower + k) + 1
      OBVIOUS
    <2>2. lower + (k + 1) <= upper => lower + k < upper /\ lower + k <= upper
      OBVIOUS
    <2> QED BY <1>2, <2>1, <2>2
  <1>3. T \cap Nat = T
    OBVIOUS
  <1>4. Nat \subseteq T
    <2> HIDE DEF T
    <2> QED BY <1>1, <1>2, <1>3, NatInduct
  <1> SUFFICES ASSUME NEW n \in Int, lower <= n, n <= upper PROVE n \in S
    OBVIOUS
  <1>5. n - lower \in Nat /\ lower + (n - lower) = n
    OBVIOUS
  <1>6. n - lower \in T
    BY <1>4, <1>5
  <1> QED BY <1>5, <1>6

LEMMA DownwardInduct ==
  ASSUME NEW lower \in Int, NEW upper \in Int, NEW S,
         lower <= upper => upper \in S,
         \A n \in Int : lower < n /\ n <= upper /\ n \in S => n - 1 \in S
  PROVE  \A n \in Int : lower <= n /\ n <= upper => n \in S
  <1> DEFINE T == {k \in Nat : lower <= upper - k => upper - k \in S}
  <1>1. 0 \in T
    BY upper - 0 = upper
  <1>2. ASSUME NEW k \in T PROVE k + 1 \in T
    <2>1. upper - k \in Int /\ upper - k <= upper /\ upper - (k + 1) = (upper - k) - 1
      OBVIOUS
    <2>2. lower <= upper - (k + 1) => lower < upper - k /\ lower <= upper - k
      OBVIOUS
    <2> QED BY <1>2, <2>1, <2>2
  <1>3. T \cap Nat = T
    OBVIOUS
  <1>4. Nat \subseteq T
    <2> HIDE DEF T
    <2> QED BY <1>1, <1>2, <1>3, NatInduct
  <1> SUFFICES ASSUME NEW n \in Int, lower <= n, n <= upper PROVE n \in S
    OBVIOUS
  <1>5. upper - n \in Nat /\ upper - (upper - n) = n
    OBVIOUS
  <1>6. upper - n \in T
    BY <1>4, <1>5
  <1> QED BY <1>5, <1>6

(* The same with all of the larger numbers as the hypothesis. *)
LEMMA StrongDownwardInduct ==
  ASSUME NEW lower \in Int, NEW upper \in Int, NEW S,
         \A n \in Int : /\ lower <= n /\ n <= upper
                        /\ \A m \in Int : n < m /\ m <= upper => m \in S
                        => n \in S
  PROVE  \A n \in Int : lower <= n /\ n <= upper => n \in S
  <1> DEFINE T == {n \in Int : \A m \in Int : n <= m /\ m <= upper => m \in S}
  <1>1. lower <= upper => upper \in T
    <2> SUFFICES ASSUME lower <= upper PROVE upper \in S
      BY \A m \in Int : upper <= m /\ m <= upper => m = upper
    <2>1. \A m \in Int : upper < m /\ m <= upper => m \in S
      OBVIOUS
    <2> QED BY <2>1
  <1>2. ASSUME NEW n \in Int, lower < n, n <= upper, n \in T PROVE n - 1 \in T
    <2>1. n - 1 \in Int /\ lower <= n - 1 /\ n - 1 <= upper
      BY <1>2
    <2>2. \A m \in Int : n - 1 < m <=> n <= m
      OBVIOUS
    <2>3. \A m \in Int : n - 1 < m /\ m <= upper => m \in S
      BY <1>2, <2>2
    <2>4. n - 1 \in S
      BY <2>1, <2>3
    <2>5. \A m \in Int : n - 1 <= m => m = n - 1 \/ n <= m
      OBVIOUS
    <2> QED BY <1>2, <2>1, <2>4, <2>5
  <1>3. \A n \in Int : lower <= n /\ n <= upper => n \in T
    <2> HIDE DEF T
    <2> QED BY <1>1, <1>2, DownwardInduct
  <1> QED BY <1>3

(* A set of numbers that has a member and a bound has a largest member. *)
LEMMA GreatestInt ==
  ASSUME NEW T \in SUBSET Int, T # {}, NEW bound \in Int, \A n \in T : n <= bound
  PROVE  \E n \in T : \A m \in T : m <= n
  <1> DEFINE D == {k \in Nat : bound - k \in T}
  <1>1. D \in SUBSET Nat
    OBVIOUS
  <1>2. D # {}
    <2>1. PICK n \in T : TRUE
      OBVIOUS
    <2>2. bound - n \in Nat /\ bound - (bound - n) = n
      BY <2>1
    <2> QED BY <2>1, <2>2
  <1>3. PICK k \in D : \A j \in D : k <= j
    <2> HIDE DEF D
    <2> QED BY <1>1, <1>2, LeastNat
  <1>4. \A m \in T : m <= bound - k
    <2> SUFFICES ASSUME NEW m \in T PROVE m <= bound - k
      OBVIOUS
    <2>1. bound - m \in Nat /\ bound - (bound - m) = m
      OBVIOUS
    <2>2. k <= bound - m
      BY <1>3, <2>1
    <2> QED BY <2>2
  <1> QED BY <1>4
=============================================================================
