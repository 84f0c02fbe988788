---------------------------- MODULE DataInduction ----------------------------
(***************************************************************************)
(* Induction and primitive recursion for loops over slices, stated with    *)
(* sets and functions.  Both follow from the well-foundedness of < on the  *)
(* natural numbers.                                                        *)
(***************************************************************************)
EXTENDS Integers, WellFoundedInduction, TLAPS

(* A set of natural numbers that is not empty has a least member.          *)
LEMMA LeastNumber ==
    ASSUME NEW T \in SUBSET Nat, T # {}
    PROVE  \E m \in T : \A k \in T : m <= k
<1> DEFINE R == OpToRel(<, Nat)
<1>1. IsWellFoundedOn(R, Nat)
  BY NatLessThanWellFounded
<1>2. \A x, y \in Nat : x < y => <<x, y>> \in R
  BY DEF OpToRel
<1> HIDE DEF R
<1>3. PICK x \in T : \A y \in T : ~(<<y, x>> \in R)
  BY <1>1, WFMin
<1>4. ASSUME NEW y \in T PROVE x <= y
  <2>1. x \in Nat /\ y \in Nat /\ ~(y < x)
    BY <1>2, <1>3
  <2> QED
    BY <2>1
<1> QED
  BY <1>4

(* A set with 0 and the successor of each of its members has every natural *)
(* number.                                                                 *)
LEMMA SetInduction ==
    ASSUME NEW S, 0 \in S, \A n \in Nat : n \in S => n + 1 \in S
    PROVE  \A n \in Nat : n \in S
<1> DEFINE T == Nat \ S
<1> SUFFICES ASSUME T # {} PROVE FALSE
  OBVIOUS
<1>1. T \in SUBSET Nat
  OBVIOUS
<1> HIDE DEF T
<1>2. PICK m \in T : \A k \in T : m <= k
  BY <1>1, LeastNumber
<1>3. m \in Nat /\ m \notin S
  BY DEF T
<1>4. m # 0 /\ m - 1 \in Nat /\ m - 1 + 1 = m /\ ~(m <= m - 1)
  BY <1>3
<1>5. m - 1 \in S
  BY <1>2, <1>4 DEF T
<1> QED
  BY <1>3, <1>4, <1>5

(* What holds at 0 and goes on holding up to n holds up to n.              *)
LEMMA BoundedInduction ==
    ASSUME NEW n \in Nat, NEW S, 0 \in S, \A k \in 0..n - 1 : k \in S => k + 1 \in S
    PROVE  \A k \in 0..n : k \in S
<1> DEFINE T == {k \in Nat : k <= n => k \in S}
<1>1. 0 \in T
  OBVIOUS
<1>2. ASSUME NEW k \in Nat, k \in T PROVE k + 1 \in T
  BY <1>2
<1> HIDE DEF T
<1>3. \A k \in Nat : k \in T
  BY <1>1, <1>2, SetInduction
<1> QED
  BY <1>3 DEF T

(* What one round of a loop of n rounds makes of its state.                *)
IsStep(step, n, S) == step \in [S \X (1..n) -> S]

(* The states of such a loop that starts from a.                           *)
IsHistory(f, n, S, a, step) ==
    /\ f \in [0..n -> S]
    /\ f[0] = a /\ \A k \in 1..n : f[k] = step[<<f[k - 1], k>>]

(* A loop has a history.                                                   *)
LEMMA PrimitiveRecursion ==
    ASSUME NEW n \in Nat, NEW S, NEW a \in S, NEW step, IsStep(step, n, S)
    PROVE  \E f : IsHistory(f, n, S, a, step)
<1> DEFINE T == {m \in Nat : \E f : IsHistory(f, m, S, a, step)}
<1>1. 0 \in T
  <2> DEFINE f == [k \in 0..0 |-> a]
  <2>1. IsHistory(f, 0, S, a, step)
    BY DEF IsHistory
  <2> HIDE DEF f
  <2> QED
    BY <2>1
<1>2. ASSUME NEW m \in 0..n - 1, m \in T PROVE m + 1 \in T
  <2>1. PICK f : IsHistory(f, m, S, a, step)
    BY <1>2
  <2> DEFINE g == [k \in 0..m + 1 |-> IF k = m + 1 THEN step[<<f[m], m + 1>>] ELSE f[k]]
  <2>2. m + 1 \in 1..n /\ f[m] \in S
    BY <1>2, <2>1 DEF IsHistory
  <2>3. step[<<f[m], m + 1>>] \in S
    BY <2>2 DEF IsStep
  <2>4. g \in [0..m + 1 -> S]
    BY <2>1, <2>3 DEF IsHistory
  <2>5. g[0] = a
    BY <2>1, <2>2 DEF IsHistory
  <2>6. ASSUME NEW k \in 1..m + 1 PROVE g[k] = step[<<g[k - 1], k>>]
    <3>1. k \in 0..m + 1 /\ k - 1 \in 0..m
      BY <1>2
    <3>2. g[k - 1] = f[k - 1]
      BY <1>2, <3>1
    <3>3. CASE k = m + 1
      BY <1>2, <3>1, <3>2, <3>3
    <3>4. CASE k # m + 1
      BY <1>2, <2>1, <3>1, <3>2, <3>4 DEF IsHistory
    <3> QED
      BY <3>3, <3>4
  <2> HIDE DEF g
  <2>7. IsHistory(g, m + 1, S, a, step)
    BY <2>4, <2>5, <2>6 DEF IsHistory
  <2> QED
    BY <1>2, <2>7
<1> HIDE DEF T
<1>3. n \in T
  BY <1>1, <1>2, BoundedInduction
<1> QED
  BY <1>3 DEF T
=============================================================================
