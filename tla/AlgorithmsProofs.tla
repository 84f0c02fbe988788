--------------------------- MODULE AlgorithmsProofs ---------------------------
(***************************************************************************)
(* What the loops of Slices and AddressAssignment compute, for slices of   *)
(* any length and networks of any size.                                    *)
(***************************************************************************)
EXTENDS Slices, AddressAssignment, DataInduction, FiniteSetTheorems

(* A sequence is a function on the indices up to its length.                *)
LEMMA SeqDomain ==
    ASSUME NEW S, NEW s \in Seq(S)
    PROVE  /\ Len(s) \in Nat /\ DOMAIN s = 1..Len(s) /\ s \in [1..Len(s) -> S]
           /\ IsFiniteSet(DOMAIN s) /\ Cardinality(DOMAIN s) = Len(s)
<1>1. Len(s) \in Nat /\ DOMAIN s = 1..Len(s) /\ s \in [1..Len(s) -> S]
  OBVIOUS
<1>2. IsFiniteSet(1..Len(s)) /\ Cardinality(1..Len(s)) = IF 1 > Len(s) THEN 0 ELSE Len(s) - 1 + 1
  BY <1>1, 1 \in Int, Len(s) \in Int, FS_Interval
<1>3. (IF 1 > Len(s) THEN 0 ELSE Len(s) - 1 + 1) = Len(s)
  BY <1>1
<1> QED
  BY <1>1, <1>2, <1>3

(* Indices of greater elements have greater ranks, and of equal ones the   *)
(* greater index has.                                                      *)
LEMMA RankOrders ==
    ASSUME NEW s \in Seq(Nat), NEW j \in DOMAIN s, NEW k \in DOMAIN s,
           s[j] < s[k] \/ (s[j] = s[k] /\ j < k)
    PROVE  Rank(s, j) < Rank(s, k)
<1> DEFINE upTo(h) == {i \in DOMAIN s : s[i] < s[h] \/ (s[i] = s[h] /\ i <= h)}
<1>1. /\ DOMAIN s = 1..Len(s) /\ Len(s) \in Nat /\ IsFiniteSet(DOMAIN s)
      /\ \A i \in DOMAIN s : s[i] \in Nat
  BY SeqDomain
<1>2. upTo(k) \in SUBSET DOMAIN s /\ upTo(j) \in SUBSET upTo(k)
  BY <1>1
<1>3. k \in upTo(k) /\ k \notin upTo(j)
  BY <1>1
<1>4. Rank(s, j) = Cardinality(upTo(j)) /\ Rank(s, k) = Cardinality(upTo(k))
  BY DEF Rank
<1> HIDE DEF upTo
<1>5. IsFiniteSet(upTo(k))
  BY <1>1, <1>2, FS_Subset
<1>6. /\ Cardinality(upTo(j)) <= Cardinality(upTo(k))
      /\ Cardinality(upTo(j)) # Cardinality(upTo(k))
      /\ IsFiniteSet(upTo(j))
  BY <1>2, <1>3, <1>5, FS_Subset
<1>7. Cardinality(upTo(j)) \in Nat /\ Cardinality(upTo(k)) \in Nat
  BY <1>5, <1>6, FS_CardinalityType
<1> QED
  BY <1>4, <1>6, <1>7

(* Every place of the sorted slice has one element, and one only.          *)
LEMMA RankIsPlace ==
    ASSUME NEW s \in Seq(Nat)
    PROVE  /\ \A j \in DOMAIN s : Rank(s, j) \in DOMAIN s
           /\ \A j, k \in DOMAIN s : Rank(s, j) = Rank(s, k) => j = k
           /\ \A i \in DOMAIN s : \E j \in DOMAIN s : Rank(s, j) = i
<1>1. /\ DOMAIN s = 1..Len(s) /\ Len(s) \in Nat
      /\ IsFiniteSet(DOMAIN s) /\ Cardinality(DOMAIN s) = Len(s)
      /\ \A i \in DOMAIN s : s[i] \in Nat
  BY SeqDomain
<1>2. ASSUME NEW j \in DOMAIN s PROVE Rank(s, j) \in DOMAIN s
  <2> DEFINE upTo == {i \in DOMAIN s : s[i] < s[j] \/ (s[i] = s[j] /\ i <= j)}
  <2>1. upTo \in SUBSET DOMAIN s /\ Rank(s, j) = Cardinality(upTo) /\ j \in upTo
    BY <1>1 DEF Rank
  <2> HIDE DEF upTo
  <2>2. IsFiniteSet(upTo) /\ Cardinality(upTo) <= Len(s) /\ Cardinality(upTo) \in Nat
    BY <1>1, <2>1, FS_Subset, FS_CardinalityType
  <2>3. Cardinality(upTo) # 0
    BY <2>1, <2>2, FS_EmptySet
  <2> QED
    BY <1>1, <2>1, <2>2, <2>3
<1>3. ASSUME NEW j \in DOMAIN s, NEW k \in DOMAIN s, j # k PROVE Rank(s, j) # Rank(s, k)
  <2>1. /\ j < k \/ k < j
        /\ s[j] < s[k] \/ s[k] < s[j] \/ s[j] = s[k]
        /\ Rank(s, j) \in Nat /\ Rank(s, k) \in Nat
    BY <1>1, <1>2, <1>3
  <2>2. Rank(s, j) < Rank(s, k) \/ Rank(s, k) < Rank(s, j)
    BY <2>1, RankOrders
  <2> QED
    BY <2>1, <2>2
<1> DEFINE rank == [j \in DOMAIN s |-> Rank(s, j)]
<1>4. rank \in Injection(DOMAIN s, DOMAIN s)
  <2>1. rank \in [DOMAIN s -> DOMAIN s]
    BY <1>2
  <2> QED
    BY <1>3, <2>1 DEF Injection, IsInjective
<1> HIDE DEF rank
<1>5. rank \in Surjection(DOMAIN s, DOMAIN s)
  BY <1>1, <1>4, FS_Injection
<1>6. \A i \in DOMAIN s : \E j \in DOMAIN s : Rank(s, j) = i
  BY <1>5 DEF Surjection, rank
<1> QED
  BY <1>2, <1>3, <1>6

(* Sorting keeps the elements and puts them in order.                      *)
LEMMA SortedIsSorted ==
    ASSUME NEW s \in Seq(Nat)
    PROVE  /\ Sorted[s] \in Seq(Nat)
           /\ Len(Sorted[s]) = Len(s)
           /\ Range(Sorted[s]) = Range(s)
           /\ \A i, j \in DOMAIN s : i <= j => Sorted[s][i] <= Sorted[s][j]
           /\ IsInjective(s) => IsInjective(Sorted[s])
<1> DEFINE at == [i \in DOMAIN s |-> CHOOSE j \in DOMAIN s : Rank(s, j) = i]
<1>1. DOMAIN s = 1..Len(s) /\ Len(s) \in Nat /\ \A i \in DOMAIN s : s[i] \in Nat
  BY SeqDomain
<1>2. \A i \in DOMAIN s : at[i] \in DOMAIN s /\ Rank(s, at[i]) = i
  BY RankIsPlace
<1>3. Sorted[s] = [i \in DOMAIN s |-> s[at[i]]]
  BY DEF Sorted
<1> HIDE DEF at
<1>4. Sorted[s] \in [1..Len(s) -> Nat]
  BY <1>1, <1>2, <1>3
<1>5. Sorted[s] \in Seq(Nat) /\ Len(Sorted[s]) = Len(s)
  <2>1. ASSUME NEW r \in [1..Len(s) -> Nat] PROVE r \in Seq(Nat) /\ Len(r) = Len(s)
    BY <1>1
  <2> QED
    BY <1>4, <2>1
<1>6. \A j \in DOMAIN s : \E i \in DOMAIN s : at[i] = j
  <2> SUFFICES ASSUME NEW j \in DOMAIN s PROVE at[Rank(s, j)] = j /\ Rank(s, j) \in DOMAIN s
    OBVIOUS
  <2>1. Rank(s, j) \in DOMAIN s
    BY RankIsPlace
  <2> DEFINE k == at[Rank(s, j)]
  <2>2. k \in DOMAIN s /\ Rank(s, k) = Rank(s, j)
    BY <1>2, <2>1
  <2> HIDE DEF k
  <2>3. /\ Rank(s, j) \in Nat
        /\ ~(s[j] < s[k] \/ (s[j] = s[k] /\ j < k))
        /\ ~(s[k] < s[j] \/ (s[j] = s[k] /\ k < j))
    BY <1>1, <2>1, <2>2, RankOrders
  <2>4. j = k
    BY <1>1, <2>2, <2>3
  <2> QED
    BY <2>1, <2>4 DEF k
<1>7. Range(Sorted[s]) = Range(s)
  <2>1. Range(Sorted[s]) = {s[at[i]] : i \in DOMAIN s}
    BY <1>3 DEF Range
  <2>2. Range(s) = {s[j] : j \in DOMAIN s}
    BY DEF Range
  <2>3. ASSUME NEW i \in DOMAIN s PROVE s[at[i]] \in Range(s)
    BY <1>2, <2>2
  <2>4. ASSUME NEW j \in DOMAIN s PROVE s[j] \in Range(Sorted[s])
    <3>1. PICK i \in DOMAIN s : at[i] = j
      BY <1>6
    <3> QED
      BY <2>1, <3>1
  <2>5. \A y \in Range(Sorted[s]) : y \in Range(s)
    BY <2>1, <2>3, Zenon
  <2>6. \A y \in Range(s) : y \in Range(Sorted[s])
    BY <2>2, <2>4, Zenon
  <2> QED
    BY <2>5, <2>6, Zenon
<1>8. ASSUME NEW i \in DOMAIN s, NEW j \in DOMAIN s, i <= j PROVE s[at[i]] <= s[at[j]]
  <2>1. s[at[j]] < s[at[i]] => j < i
    BY <1>2, RankOrders
  <2> QED
    BY <1>1, <1>2, <1>8, <2>1
<1>9. IsInjective(s) => IsInjective(Sorted[s])
  <2> SUFFICES ASSUME IsInjective(s), NEW i \in DOMAIN s, NEW j \in DOMAIN s, s[at[i]] = s[at[j]]
               PROVE  i = j
    BY <1>3 DEF IsInjective
  <2>1. at[i] = at[j]
    BY <1>2 DEF IsInjective
  <2> QED
    BY <1>2, <2>1
<1> QED
  BY <1>3, <1>5, <1>7, <1>8, <1>9

(* What is in order stays as it is.                                        *)
LEMMA SortedStays ==
    ASSUME NEW s \in Seq(Nat), \A i, j \in DOMAIN s : i <= j => s[i] <= s[j]
    PROVE  Sorted[s] = s
<1> DEFINE at == [i \in DOMAIN s |-> CHOOSE j \in DOMAIN s : Rank(s, j) = i]
<1>1. DOMAIN s = 1..Len(s) /\ Len(s) \in Nat /\ \A i \in DOMAIN s : s[i] \in Nat
  BY SeqDomain
<1>2. ASSUME NEW j \in DOMAIN s PROVE Rank(s, j) = j
  <2> DEFINE upTo == {k \in DOMAIN s : s[k] < s[j] \/ (s[k] = s[j] /\ k <= j)}
  <2>1. j \in 1..Len(s) /\ j \in Nat
    BY <1>1
  <2>2. ASSUME NEW k \in DOMAIN s PROVE (s[k] < s[j] \/ (s[k] = s[j] /\ k <= j)) <=> k <= j
    <3>1. s[k] \in Nat /\ s[j] \in Nat /\ k \in Nat
      BY <1>1
    <3>2. (k <= j => s[k] <= s[j]) /\ (j <= k => s[j] <= s[k])
      OBVIOUS
    <3> QED
      BY <2>1, <3>1, <3>2
  <2>3. upTo = {k \in DOMAIN s : k <= j}
    BY <2>2
  <2>4. upTo = 1..j
    BY <1>1, <2>1, <2>3
  <2>5. Cardinality(1..j) = IF 1 > j THEN 0 ELSE j - 1 + 1
    BY <2>1, 1 \in Int, j \in Int, FS_Interval
  <2>6. Rank(s, j) = Cardinality(upTo)
    BY DEF Rank
  <2> HIDE DEF upTo
  <2> QED
    BY <2>1, <2>4, <2>5, <2>6
<1>3. \A i \in DOMAIN s : at[i] \in DOMAIN s /\ Rank(s, at[i]) = i
  BY RankIsPlace
<1>4. Sorted[s] = [i \in DOMAIN s |-> s[at[i]]]
  BY DEF Sorted
<1> HIDE DEF at
<1>5. \A i \in DOMAIN s : at[i] = i
  BY <1>2, <1>3
<1>6. [i \in DOMAIN s |-> s[at[i]]] = [i \in DOMAIN s |-> s[i]]
  BY <1>5
<1> QED
  BY <1>1, <1>4, <1>6

(* Sorting keeps how often each element is there.                          *)
LEMMA SortedKeepsCopies ==
    ASSUME NEW s \in Seq(Nat), NEW x
    PROVE  Copies(Sorted[s], x) = Copies(s, x)
<1> DEFINE at == [i \in DOMAIN s |-> CHOOSE j \in DOMAIN s : Rank(s, j) = i]
           there == {j \in DOMAIN s : s[j] = x}
           places == {i \in DOMAIN s : s[at[i]] = x}
           rank == [j \in there |-> Rank(s, j)]
<1>1. IsFiniteSet(there)
  <2>1. IsFiniteSet(DOMAIN s) /\ there \in SUBSET DOMAIN s
    BY SeqDomain
  <2> HIDE DEF there
  <2> QED
    BY <2>1, FS_Subset
<1>2. \A i \in DOMAIN s : at[i] \in DOMAIN s /\ Rank(s, at[i]) = i
  BY RankIsPlace
<1>3. Copies(Sorted[s], x) = Cardinality(places) /\ Copies(s, x) = Cardinality(there)
  BY DEF Sorted, Copies
<1> HIDE DEF at
<1>4. ASSUME NEW j \in DOMAIN s PROVE Rank(s, j) \in DOMAIN s /\ at[Rank(s, j)] = j
  <2>1. /\ Rank(s, j) \in DOMAIN s
        /\ \A h, k \in DOMAIN s : Rank(s, h) = Rank(s, k) => h = k
    BY RankIsPlace, Zenon
  <2>2. at[Rank(s, j)] \in DOMAIN s /\ Rank(s, at[Rank(s, j)]) = Rank(s, j)
    BY <1>2, <2>1, Zenon
  <2> QED
    BY <2>1, <2>2, Zenon
<1>5. rank \in Bijection(there, places)
  <2>1. \A j \in there : Rank(s, j) \in places
    BY <1>4
  <2>2. \A i \in places : at[i] \in there /\ rank[at[i]] = i
    BY <1>2
  <2>3. \A j, k \in there : Rank(s, j) = Rank(s, k) => j = k
    BY <1>4
  <2> HIDE DEF there, places
  <2>4. rank \in [there -> places] /\ IsInjective(rank)
    BY <2>1, <2>3 DEF IsInjective
  <2> HIDE DEF rank
  <2> QED
    BY <2>2, <2>4 DEF Bijection, Injection, Surjection
<1> HIDE DEF there, places, rank
<1>6. ExistsBijection(there, places)
  BY <1>5 DEF ExistsBijection
<1> QED
  BY <1>1, <1>3, <1>6, FS_Bijection

-----------------------------------------------------------------------------
(* How often s has x from index i on.                                      *)
CopiesFrom(s, i, x) == Cardinality({g \in i..Len(s) : s[g] = x})

(* Each index has one copy of its element.                                 *)
LEMMA CopiesNext ==
    ASSUME NEW S, NEW s \in Seq(S), NEW i \in 1..Len(s) + 1, NEW x
    PROVE  /\ CopiesFrom(s, i, x) \in Nat
           /\ CopiesFrom(s, i, x) = 0 <=> \A g \in i..Len(s) : s[g] # x
           /\ i # Len(s) + 1 =>
                 CopiesFrom(s, i, x) = CopiesFrom(s, i + 1, x) + IF s[i] = x THEN 1 ELSE 0
<1> DEFINE from(k) == {g \in k..Len(s) : s[g] = x}
<1>1. Len(s) \in Nat
  OBVIOUS
<1>2. ASSUME NEW k \in 1..Len(s) + 1
      PROVE  IsFiniteSet(from(k)) /\ CopiesFrom(s, k, x) = Cardinality(from(k))
  <2>1. IsFiniteSet(1..Len(s))
    BY <1>1, SeqDomain
  <2>2. from(k) \in SUBSET (1..Len(s))
    BY <1>1
  <2> HIDE DEF from
  <2>3. IsFiniteSet(from(k))
    BY <2>1, <2>2, FS_Subset
  <2> QED
    BY <2>3 DEF CopiesFrom, from
<1>3. from(i) = {} <=> \A g \in i..Len(s) : s[g] # x
  OBVIOUS
<1>4. i # Len(s) + 1 => /\ i + 1 \in 1..Len(s) + 1
                        /\ from(i) = IF s[i] = x THEN from(i + 1) \cup {i} ELSE from(i + 1)
                        /\ i \notin from(i + 1)
  <2> SUFFICES ASSUME i # Len(s) + 1
               PROVE  /\ i + 1 \in 1..Len(s) + 1
                      /\ from(i) = IF s[i] = x THEN from(i + 1) \cup {i} ELSE from(i + 1)
                      /\ i \notin from(i + 1)
    OBVIOUS
  <2>1. i..Len(s) = {i} \cup (i + 1..Len(s)) /\ i + 1 \in 1..Len(s) + 1 /\ i \notin i + 1..Len(s)
    BY <1>1
  <2> QED
    BY <2>1
<1> HIDE DEF from
<1>5. i # Len(s) + 1 =>
          Cardinality(from(i)) = Cardinality(from(i + 1)) + IF s[i] = x THEN 1 ELSE 0
  <2> SUFFICES ASSUME i # Len(s) + 1
               PROVE  Cardinality(from(i)) = Cardinality(from(i + 1)) + IF s[i] = x THEN 1 ELSE 0
    OBVIOUS
  <2>1. IsFiniteSet(from(i + 1)) /\ Cardinality(from(i + 1)) \in Nat
    BY <1>2, <1>4, FS_CardinalityType
  <2>2. Cardinality(from(i + 1) \cup {i}) = Cardinality(from(i + 1)) + 1
    BY <1>4, <2>1, FS_AddElement
  <2>3. CASE s[i] = x
    BY <1>4, <2>2, <2>3
  <2>4. CASE s[i] # x
    <3>1. from(i) = from(i + 1)
      BY <1>4, <2>4
    <3> QED
      BY <2>1, <2>4, <3>1
  <2> QED
    BY <2>3, <2>4
<1> QED
  BY <1>2, <1>3, <1>4, <1>5, FS_CardinalityType, FS_EmptySet

(* All copies are from the first index on.                                 *)
LEMMA CopiesTyped ==
    ASSUME NEW S, NEW s \in Seq(S), NEW x
    PROVE  /\ Copies(s, x) \in Nat
           /\ Copies(s, x) = CopiesFrom(s, 1, x)
           /\ Copies(s, x) = 0 <=> x \notin Range(s)
<1>1. Len(s) \in Nat /\ DOMAIN s = 1..Len(s) /\ 1 \in 1..Len(s) + 1
  OBVIOUS
<1>2. Copies(s, x) = CopiesFrom(s, 1, x)
  BY <1>1 DEF Copies, CopiesFrom
<1>3. x \notin Range(s) <=> \A g \in 1..Len(s) : s[g] # x
  BY <1>1 DEF Range
<1>4. CopiesFrom(s, 1, x) \in Nat /\ (CopiesFrom(s, 1, x) = 0 <=> \A g \in 1..Len(s) : s[g] # x)
  BY <1>1, CopiesNext
<1> QED
  BY <1>2, <1>3, <1>4

(* Appending adds one copy of one element.                                 *)
LEMMA CopiesOfAppend ==
    ASSUME NEW s \in Seq(Nat), NEW x \in Nat, NEW z \in Nat
    PROVE  Copies(Append(s, x), z) = Copies(s, z) + IF x = z THEN 1 ELSE 0
<1> DEFINE t == Append(s, x)
           of(u) == {i \in DOMAIN u : u[i] = z}
<1>1. /\ DOMAIN t = 1..Len(s) + 1
      /\ DOMAIN s = 1..Len(s)
      /\ \A i \in 1..Len(s) + 1 : t[i] = IF i = Len(s) + 1 THEN x ELSE s[i]
      /\ Len(s) \in Nat
  OBVIOUS
<1> HIDE DEF t
<1>2. /\ 1..Len(s) + 1 = (1..Len(s)) \cup {Len(s) + 1}
      /\ Len(s) + 1 \notin 1..Len(s)
  BY <1>1
<1>3. of(t) = (IF x = z THEN of(s) \cup {Len(s) + 1} ELSE of(s)) /\ Len(s) + 1 \notin of(s)
  BY <1>1, <1>2
<1>4. IsFiniteSet(of(s)) /\ Cardinality(of(s)) \in Nat
  <2>1. IsFiniteSet(DOMAIN s) /\ of(s) \in SUBSET DOMAIN s
    BY SeqDomain
  <2> HIDE DEF of
  <2> QED
    BY <2>1, FS_Subset, FS_CardinalityType
<1>5. Copies(t, z) = Cardinality(of(t)) /\ Copies(s, z) = Cardinality(of(s))
  BY DEF Copies
<1> HIDE DEF of
<1>6. Cardinality(of(s) \cup {Len(s) + 1}) = Cardinality(of(s)) + 1
  BY <1>3, <1>4, FS_AddElement
<1> QED
  BY <1>3, <1>4, <1>5, <1>6 DEF t

-----------------------------------------------------------------------------
(* The slice is sorted.                                                     *)
InOrder(s) == \A i, j \in DOMAIN s : i <= j => s[i] <= s[j]

(* The inner loop ends, past everything that is less than x.               *)
LEMMA SkipStops ==
    ASSUME NEW b \in Seq(Nat), NEW j \in 1..Len(b) + 1, NEW x \in Nat
    PROVE  /\ Skip(b, j, x) \in j..Len(b) + 1
           /\ Skip(b, j, x) = Len(b) + 1 \/ b[Skip(b, j, x)] >= x
           /\ \A h \in j..Skip(b, j, x) - 1 : b[h] < x
<1> DEFINE ends == {k \in j..Len(b) + 1 : k = Len(b) + 1 \/ b[k] >= x}
<1>1. Len(b) \in Nat /\ \A h \in 1..Len(b) : b[h] \in Nat
  OBVIOUS
<1>2. Len(b) + 1 \in ends /\ ends \in SUBSET Nat
  BY <1>1
<1> HIDE DEF ends
<1>3. PICK m \in ends : \A k \in ends : m <= k
  BY <1>2, LeastNumber
<1>4. /\ m \in j..Len(b) + 1
      /\ m = Len(b) + 1 \/ b[m] >= x
      /\ \A h \in j..m - 1 : b[h] < x
  BY <1>1, <1>3 DEF ends
<1> QED
  BY <1>4 DEF Skip

(* After i rounds of the outer loop, diff has those of the first i         *)
(* elements of a that are not in b, as often as they are among these, and  *)
(* j is past elements of b that are less than the last of these.           *)
Found(a, b, i, state) ==
    /\ state \in [j : 1..Len(b) + 1, diff : Seq(Nat)]
    /\ IF i = 0 THEN state.j = 1 ELSE \A h \in 1..state.j - 1 : b[h] < a[i]
    /\ Range(state.diff) = {a[g] : g \in 1..i} \ Range(b)
    /\ \A x \in Nat \ Range(b) : Copies(state.diff, x) + CopiesFrom(a, i + 1, x) = Copies(a, x)

(* Appending adds one element.                                              *)
LEMMA RangeOfAppend ==
    ASSUME NEW S, NEW s \in Seq(S), NEW x \in S
    PROVE  Range(Append(s, x)) = Range(s) \cup {x}
<1>1. /\ DOMAIN Append(s, x) = 1..Len(s) + 1
      /\ DOMAIN s = 1..Len(s)
      /\ \A i \in 1..Len(s) + 1 : Append(s, x)[i] = IF i = Len(s) + 1 THEN x ELSE s[i]
      /\ Len(s) \in Nat
  OBVIOUS
<1>2. ASSUME NEW y \in Range(Append(s, x)) PROVE y \in Range(s) \cup {x}
  BY <1>1 DEF Range
<1>3. ASSUME NEW y \in Range(s) \cup {x} PROVE y \in Range(Append(s, x))
  BY <1>1 DEF Range
<1> QED
  BY <1>2, <1>3

(* Appending what is not there yet repeats nothing.                         *)
LEMMA AppendedOnce ==
    ASSUME NEW S, NEW s \in Seq(S), NEW x \in S, IsInjective(s), x \notin Range(s)
    PROVE  IsInjective(Append(s, x))
<1>1. /\ DOMAIN Append(s, x) = 1..Len(s) + 1
      /\ DOMAIN s = 1..Len(s)
      /\ \A i \in 1..Len(s) + 1 : Append(s, x)[i] = IF i = Len(s) + 1 THEN x ELSE s[i]
      /\ Len(s) \in Nat
  OBVIOUS
<1>2. \A i \in 1..Len(s) : s[i] # x
  BY <1>1 DEF Range
<1>3. \A i \in 1..Len(s) + 1 : i = Len(s) + 1 \/ i \in 1..Len(s)
  BY <1>1
<1>4. ASSUME NEW i \in 1..Len(s) + 1, NEW k \in 1..Len(s) + 1, Append(s, x)[i] = Append(s, x)[k]
      PROVE  i = k
  BY <1>1, <1>2, <1>3, <1>4 DEF IsInjective
<1> QED
  BY <1>1, <1>4 DEF IsInjective

(* A round of the outer loop leaves an index into b, or past it, and a      *)
(* slice.                                                                   *)
LEMMA DifferTyped ==
    ASSUME NEW b \in Seq(Nat), NEW state \in [j : 1..Len(b) + 1, diff : Seq(Nat)], NEW x \in Nat
    PROVE  Differ(b, x)[state] \in [j : 1..Len(b) + 1, diff : Seq(Nat)]
<1>1. Len(b) \in Nat /\ state.j \in 1..Len(b) + 1 /\ state.diff \in Seq(Nat)
  OBVIOUS
<1>2. Skip(b, state.j, x) \in state.j..Len(b) + 1
  BY <1>1, SkipStops, Zenon
<1>3. Skip(b, state.j, x) \in 1..Len(b) + 1
  BY <1>1, <1>2
<1> QED
  BY <1>1, <1>3 DEF Differ

(* A round of the outer loop takes it from the first i elements of a to     *)
(* the first i + 1: j never has to go back.                                 *)
LEMMA DifferFinds ==
    ASSUME NEW a \in Seq(Nat), NEW b \in Seq(Nat), InOrder(a), InOrder(b),
           NEW i \in 0..Len(a) - 1, NEW state, Found(a, b, i, state)
    PROVE  Found(a, b, i + 1, Differ(b, a[i + 1])[state])
<1> DEFINE x == a[i + 1]
           k == Skip(b, state.j, x)
           next == Differ(b, x)[state]
           before == {a[g] : g \in 1..i}
<1>1. /\ Len(a) \in Nat /\ Len(b) \in Nat /\ i \in Nat /\ i + 1 \in 1..Len(a)
      /\ \A g \in 1..Len(a) : a[g] \in Nat
      /\ \A h \in 1..Len(b) : b[h] \in Nat
      /\ DOMAIN a = 1..Len(a) /\ DOMAIN b = 1..Len(b)
  OBVIOUS
<1>2. x \in Nat
  BY <1>1
<1>3. /\ state \in [j : 1..Len(b) + 1, diff : Seq(Nat)]
      /\ Range(state.diff) = before \ Range(b)
  BY DEF Found
<1>4. next \in [j : 1..Len(b) + 1, diff : Seq(Nat)]
  BY <1>2, <1>3, DifferTyped
<1>5. /\ next.j = k
      /\ next.diff = IF k = Len(b) + 1 \/ x < b[k] THEN Append(state.diff, x) ELSE state.diff
  BY <1>3 DEF Differ
<1>6. /\ k \in state.j..Len(b) + 1
      /\ k = Len(b) + 1 \/ b[k] >= x
      /\ \A h \in state.j..k - 1 : b[h] < x
  BY <1>2, <1>3, SkipStops
<1>7. \A h \in 1..state.j - 1 : b[h] < x
  <2>1. CASE i = 0
    BY <1>3, <2>1 DEF Found
  <2>2. CASE i # 0
    <3>1. i \in DOMAIN a /\ i + 1 \in DOMAIN a /\ i <= i + 1 /\ a[i] \in Nat
      BY <1>1, <2>2
    <3>2. a[i] <= x
      BY <3>1 DEF InOrder
    <3>3. \A h \in 1..state.j - 1 : h \in 1..Len(b) /\ b[h] < a[i]
      BY <1>1, <1>3, <2>2 DEF Found
    <3> QED
      BY <1>1, <1>2, <3>1, <3>2, <3>3
  <2> QED
    BY <2>1, <2>2
<1> HIDE DEF x, k, next, before
<1>8. \A h \in 1..k - 1 : b[h] < x
  BY <1>3, <1>6, <1>7
<1>9. x \notin Range(b) <=> (k = Len(b) + 1 \/ x < b[k])
  <2>1. Range(b) = {b[h] : h \in 1..Len(b)}
    BY <1>1 DEF Range
  <2>2. k \in 1..Len(b) + 1
    BY <1>1, <1>3, <1>6
  <2>3. ASSUME k # Len(b) + 1, x < b[k], NEW h \in k..Len(b) PROVE b[h] # x
    <3>1. k \in DOMAIN b /\ h \in DOMAIN b /\ k <= h /\ b[k] \in Nat /\ b[h] \in Nat
      BY <1>1, <2>2, <2>3
    <3>2. b[k] <= b[h]
      BY <3>1 DEF InOrder
    <3> QED
      BY <1>2, <2>3, <3>1, <3>2
  <2>4. ASSUME k # Len(b) + 1, ~(x < b[k]) PROVE x \in Range(b)
    <3>1. k \in 1..Len(b)
      <4>1. Len(b) \in Nat
        BY <1>1
      <4> QED
        BY <2>2, <2>4, <4>1
    <3>2. b[k] \in Nat /\ b[k] >= x /\ ~(x < b[k])
      BY <1>1, <1>6, <2>4, <3>1
    <3>3. b[k] = x
      BY <1>2, <3>2
    <3> QED
      BY <2>1, <3>1, <3>3
  <2>5. \A h \in 1..k - 1 : h \in 1..Len(b) /\ b[h] # x
    BY <1>1, <1>2, <1>8, <2>2
  <2> QED
    BY <1>1, <2>1, <2>2, <2>3, <2>4, <2>5
<1>10. {a[g] : g \in 1..i + 1} = before \cup {x}
  BY <1>1 DEF before, x
<1>11. Range(next.diff) = (before \cup {x}) \ Range(b)
  <2>1. Range(Append(state.diff, x)) = Range(state.diff) \cup {x}
    BY <1>2, <1>3, RangeOfAppend
  <2> QED
    BY <1>3, <1>5, <1>9, <2>1
<1>12. ASSUME NEW z \in Nat \ Range(b)
       PROVE  Copies(next.diff, z) + CopiesFrom(a, i + 1 + 1, z) = Copies(a, z)
  <2>1. Copies(state.diff, z) + CopiesFrom(a, i + 1, z) = Copies(a, z)
    BY DEF Found
  <2>2. /\ i + 1 \in 1..Len(a) + 1 /\ i + 1 + 1 \in 1..Len(a) + 1 /\ i + 1 # Len(a) + 1
    BY <1>1
  <2>3. /\ CopiesFrom(a, i + 1, z) = CopiesFrom(a, i + 1 + 1, z) + IF x = z THEN 1 ELSE 0
        /\ CopiesFrom(a, i + 1 + 1, z) \in Nat
    BY <2>2, CopiesNext DEF x
  <2>4. Copies(state.diff, z) \in Nat
    BY <1>3, CopiesTyped
  <2>5. Copies(next.diff, z) = Copies(state.diff, z) + IF x = z THEN 1 ELSE 0
    <3>1. CASE next.diff = Append(state.diff, x)
      <4>1. state.diff \in Seq(Nat)
        BY <1>3
      <4>2. Copies(Append(state.diff, x), z) = Copies(state.diff, z) + IF x = z THEN 1 ELSE 0
        BY <1>2, <4>1, CopiesOfAppend
      <4> QED
        BY <3>1, <4>2
    <3>2. CASE next.diff # Append(state.diff, x)
      <4>1. next.diff = state.diff /\ x # z
        BY <1>5, <1>9, <3>2
      <4> QED
        BY <2>4, <4>1
    <3> QED
      BY <3>1, <3>2
  <2> QED
    BY <2>1, <2>3, <2>4, <2>5
<1>13. Found(a, b, i + 1, next)
  <2>1. i + 1 # 0 /\ \A h \in 1..next.j - 1 : b[h] < a[i + 1]
    BY <1>1, <1>5, <1>8 DEF x
  <2>2. Range(next.diff) = {a[g] : g \in 1..i + 1} \ Range(b)
    BY <1>10, <1>11
  <2> QED
    BY <1>4, <1>12, <2>1, <2>2 DEF Found
<1> QED
  BY <1>13 DEF next, x

(* The outer loop of setDifference, over slices in order.                  *)
LEMMA LoopFinds ==
    ASSUME NEW a \in Seq(Nat), NEW b \in Seq(Nat), InOrder(a), InOrder(b)
    PROVE  LET loop[i \in 0..Len(a)] ==
                   IF i = 0 THEN [j |-> 1, diff |-> <<>>] ELSE Differ(b, a[i])[loop[i - 1]]
           IN Found(a, b, Len(a), loop[Len(a)])
<1> DEFINE n == Len(a)
           S == [j : 1..Len(b) + 1, diff : Seq(Nat)]
           start == [j |-> 1, diff |-> <<>>]
           loop[i \in 0..Len(a)] ==
               IF i = 0 THEN [j |-> 1, diff |-> <<>>] ELSE Differ(b, a[i])[loop[i - 1]]
           step == [p \in S \X (1..n) |-> Differ(b, a[p[2]])[p[1]]]
<1>1. n \in Nat /\ start \in S /\ \A i \in 1..n : a[i] \in Nat
  OBVIOUS
<1>2. PICK f : IsHistory(f, n, S, start, step)
  <2>1. \A p \in S \X (1..n) : Differ(b, a[p[2]])[p[1]] \in S
    BY <1>1, DifferTyped
  <2> HIDE DEF S, n, start
  <2>2. IsStep(step, n, S)
    BY <2>1 DEF IsStep
  <2> HIDE DEF step
  <2> QED
    BY <1>1, <2>2, PrimitiveRecursion, Zenon
<1>3. ASSUME NEW i \in 1..n PROVE f[i] = Differ(b, a[i])[f[i - 1]]
  <2>1. i - 1 \in 0..n
    BY <1>1
  <2>2. f[i - 1] \in S /\ f[i] = step[<<f[i - 1], i>>]
    <3> HIDE DEF step, n, S, start
    <3> QED
      BY <1>2, <2>1 DEF IsHistory
  <2> HIDE DEF n, S
  <2> QED
    BY <2>2
<1>4. f = [i \in 0..Len(a) |->
               IF i = 0 THEN [j |-> 1, diff |-> <<>>] ELSE Differ(b, a[i])[f[i - 1]]]
  <2>1. f \in [0..n -> S] /\ f[0] = start
    <3> HIDE DEF step, n, S, start
    <3> QED
      BY <1>2 DEF IsHistory
  <2>2. ASSUME NEW i \in 0..n
        PROVE  f[i] = IF i = 0 THEN start ELSE Differ(b, a[i])[f[i - 1]]
    <3> HIDE DEF S, start
    <3> QED
      BY <1>1, <1>3, <2>1
  <2> HIDE DEF S
  <2> QED
    BY <2>1, <2>2
<1>5. loop = [i \in 0..Len(a) |->
               IF i = 0 THEN [j |-> 1, diff |-> <<>>] ELSE Differ(b, a[i])[loop[i - 1]]]
  BY <1>4, Zenon
<1> HIDE DEF loop
<1> DEFINE T == {i \in 0..n : Found(a, b, i, loop[i])}
<1>6. 0 \in T
  <2>1. loop[0] = start
    BY <1>1, <1>5
  <2>2. Range(start.diff) = {} /\ {a[g] : g \in 1..0} = {}
    BY DEF Range
  <2>3. Found(a, b, 0, loop[0])
    <3> HIDE DEF start
    <3>1. start.j = 1 /\ start.diff = <<>>
      BY DEF start
    <3>2. ASSUME NEW x \in Nat
          PROVE  Copies(start.diff, x) + CopiesFrom(a, 0 + 1, x) = Copies(a, x)
      <4>1. <<>> \in Seq(Nat) /\ x \notin Range(<<>>)
        BY <2>2, <3>1
      <4>2. Copies(<<>>, x) = 0
        BY <4>1, CopiesTyped
      <4>3. Copies(a, x) \in Nat /\ Copies(a, x) = CopiesFrom(a, 1, x)
        BY CopiesTyped
      <4> QED
        BY <3>1, <4>2, <4>3
    <3> QED
      BY <1>1, <2>1, <2>2, <3>1, <3>2 DEF Found
  <2> QED
    BY <1>1, <2>3
<1>7. ASSUME NEW i \in 0..n - 1, i \in T PROVE i + 1 \in T
  <2>1. i + 1 \in 0..n /\ i + 1 # 0 /\ i + 1 - 1 = i
    BY <1>1
  <2>2. loop[i + 1] = Differ(b, a[i + 1])[loop[i]]
    BY <1>5, <2>1
  <2>3. Found(a, b, i, loop[i])
    BY <1>7
  <2>4. Found(a, b, i + 1, loop[i + 1])
    BY <2>2, <2>3, DifferFinds
  <2> QED
    BY <2>1, <2>4
<1>8. n \in T
  <2>1. \A i \in 0..n - 1 : i \in T => i + 1 \in T
    BY <1>7
  <2> HIDE DEF T, n
  <2>2. \A i \in 0..n : i \in T
    BY <1>1, <1>6, <2>1, BoundedInduction, Zenon
  <2> QED
    BY <1>1, <2>2
<1> QED
  BY <1>8 DEF loop

(* "setDifference returns the elements in a that are not in b", whatever   *)
(* their order, and each as often as a has it.                             *)
THEOREM DifferenceFound ==
    ASSUME NEW s \in Seq(Nat), NEW t \in Seq(Nat)
    PROVE  /\ SetDifference(s, t) \in Seq(Nat)
           /\ Range(SetDifference(s, t)) = Range(s) \ Range(t)
           /\ \A x \in Nat : Copies(SetDifference(s, t), x) =
                                IF x \in Range(t) THEN 0 ELSE Copies(s, x)
<1> DEFINE a == Sorted[s]
           b == Sorted[t]
           loop[i \in 0..Len(a)] ==
               IF i = 0 THEN [j |-> 1, diff |-> <<>>] ELSE Differ(b, a[i])[loop[i - 1]]
<1>1. a \in Seq(Nat) /\ InOrder(a) /\ Range(a) = Range(s)
  BY SortedIsSorted, SeqDomain DEF InOrder
<1>2. b \in Seq(Nat) /\ InOrder(b) /\ Range(b) = Range(t)
  BY SortedIsSorted, SeqDomain DEF InOrder
<1>3. SetDifference(s, t) = loop[Len(a)].diff
  BY <1>1, <1>2 DEF SetDifference, Difference
<1> HIDE DEF a, b
<1>4. Found(a, b, Len(a), loop[Len(a)])
  BY <1>1, <1>2, LoopFinds
<1> HIDE DEF loop
<1> DEFINE d == SetDifference(s, t)
<1>5. {a[g] : g \in 1..Len(a)} = Range(a)
  BY <1>1 DEF Range
<1>6. d \in Seq(Nat) /\ Range(d) = Range(s) \ Range(t)
  BY <1>1, <1>2, <1>3, <1>4, <1>5 DEF Found
<1>7. ASSUME NEW x \in Nat PROVE Copies(d, x) = IF x \in Range(t) THEN 0 ELSE Copies(s, x)
  <2>1. CASE x \in Range(t)
    <3> HIDE DEF d
    <3> QED
      BY <1>6, <2>1, CopiesTyped
  <2>2. CASE x \notin Range(t)
    <3>1. Copies(d, x) + CopiesFrom(a, Len(a) + 1, x) = Copies(a, x)
      BY <1>2, <1>3, <1>4, <2>2 DEF Found
    <3>2. CopiesFrom(a, Len(a) + 1, x) = 0
      <4>1. Len(a) \in Nat
        BY <1>1
      <4>2. Len(a) + 1 \in 1..Len(a) + 1 /\ Len(a) + 1..Len(a) = {}
        BY <4>1
      <4>3. CopiesFrom(a, Len(a) + 1, x) = 0 <=> \A g \in Len(a) + 1..Len(a) : a[g] # x
        BY <1>1, <4>2, CopiesNext
      <4> QED
        BY <4>2, <4>3
    <3>3. Copies(d, x) \in Nat
      BY <1>6, CopiesTyped
    <3>4. Copies(a, x) = Copies(s, x)
      BY SortedKeepsCopies DEF a
    <3> QED
      BY <2>2, <3>1, <3>2, <3>3, <3>4
  <2> QED
    BY <2>1, <2>2
<1> HIDE DEF d
<1> QED
  BY <1>6, <1>7 DEF d

-----------------------------------------------------------------------------
(* The states of the loop of setIntersection.                              *)
MeetStates(a, b) == [i : 1..Len(a) + 1, j : 1..Len(b) + 1, common : Seq(Nat)]

(* The elements from index i on.                                           *)
Ahead(s, i) == {s[g] : g \in i..Len(s)}

(* The round was the last, or none before it was.                          *)
Advanced(a, b, r, state) ==
    state.i = Len(a) + 1 \/ state.j = Len(b) + 1 \/ state.i + state.j >= r + 2

(* The lesser of two numbers.                                              *)
Lesser(m, n) == IF m <= n THEN m ELSE n

(* The copies that both slices have are found or still ahead in both.      *)
(* Those that one has more than the other are passed over.                 *)
Counted(a, b, state) ==
    \A z \in Nat : Copies(state.common, z)
                     + Lesser(CopiesFrom(a, state.i, z), CopiesFrom(b, state.j, z))
                   = Lesser(Copies(a, z), Copies(b, z))

(* Common elements are found or still ahead in both slices.  What was      *)
(* found is behind in a: found again it would be twice in a.               *)
Shared(a, b, state) ==
    /\ state \in MeetStates(a, b)
    /\ Range(state.common) \subseteq {a[g] : g \in 1..state.i - 1} \cap Range(b)
    /\ Range(a) \cap Range(b) \subseteq
          Range(state.common) \cup (Ahead(a, state.i) \cap Ahead(b, state.j))
    /\ IsInjective(a) => IsInjective(state.common)

(* What is ahead is the next element and what is ahead of that, and none   *)
(* is less than the next one.                                              *)
LEMMA AheadInOrder ==
    ASSUME NEW s \in Seq(Nat), InOrder(s), NEW i \in 1..Len(s)
    PROVE  /\ s[i] \in Nat
           /\ Ahead(s, i) = {s[i]} \cup Ahead(s, i + 1)
           /\ \A x \in Ahead(s, i) : x \in Nat /\ s[i] <= x
<1>1. /\ Len(s) \in Nat /\ DOMAIN s = 1..Len(s) /\ \A g \in 1..Len(s) : s[g] \in Nat
      /\ i..Len(s) = {i} \cup (i + 1..Len(s))
  OBVIOUS
<1>2. \A g \in i..Len(s) : g \in 1..Len(s) /\ i <= g
  BY <1>1
<1>3. \A g \in i..Len(s) : s[i] <= s[g]
  BY <1>1, <1>2 DEF InOrder
<1> QED
  BY <1>1, <1>2, <1>3 DEF Ahead

(* The next index has one more element behind it.                          *)
LEMMA OneMoreBehind ==
    ASSUME NEW s, NEW i \in Nat \ {0}
    PROVE  {s[g] : g \in 1..i + 1 - 1} = {s[g] : g \in 1..i - 1} \cup {s[i]}
<1>1. 1..i + 1 - 1 = (1..i - 1) \cup {i}
  OBVIOUS
<1> QED
  BY <1>1

(* A round leaves indices that are in the slices, or past them.            *)
LEMMA MeetTyped ==
    ASSUME NEW a \in Seq(Nat), NEW b \in Seq(Nat), NEW state \in MeetStates(a, b)
    PROVE  Meet(a, b)[state] \in MeetStates(a, b)
<1>1. /\ Len(a) \in Nat /\ Len(b) \in Nat
      /\ state.i \in 1..Len(a) + 1 /\ state.j \in 1..Len(b) + 1 /\ state.common \in Seq(Nat)
  BY DEF MeetStates
<1>2. CASE state.i > Len(a) \/ state.j > Len(b)
  BY <1>2 DEF Meet, MeetStates
<1>3. CASE ~(state.i > Len(a) \/ state.j > Len(b))
  <2> DEFINE x == a[state.i]
             y == b[state.j]
  <2>1. Meet(a, b)[state] =
          [i      |-> IF y < x THEN state.i ELSE state.i + 1,
           j      |-> IF x < y THEN state.j ELSE state.j + 1,
           common |-> IF x = y THEN Append(state.common, x) ELSE state.common]
    BY <1>3 DEF Meet, MeetStates
  <2> HIDE DEF x, y
  <2>2. x \in Nat /\ state.i + 1 \in 1..Len(a) + 1 /\ state.j + 1 \in 1..Len(b) + 1
    <3>1. /\ state.i \in 1..Len(a) /\ state.j \in 1..Len(b)
          /\ state.i + 1 \in 1..Len(a) + 1 /\ state.j + 1 \in 1..Len(b) + 1
      <4>1. /\ \A i \in 1..Len(a) + 1 : ~(i > Len(a)) => i \in 1..Len(a) /\ i + 1 \in 1..Len(a) + 1
            /\ \A j \in 1..Len(b) + 1 : ~(j > Len(b)) => j \in 1..Len(b) /\ j + 1 \in 1..Len(b) + 1
        BY <1>1
      <4> QED
        BY <1>1, <1>3, <4>1
    <3>2. \A g \in 1..Len(a) : a[g] \in Nat
      OBVIOUS
    <3> QED
      BY <3>1, <3>2 DEF x
  <2>3. Append(state.common, x) \in Seq(Nat)
    BY <1>1, <2>2
  <2> QED
    BY <1>1, <2>1, <2>2, <2>3 DEF MeetStates
<1> QED
  BY <1>2, <1>3

(* A round keeps count: it drops the lesser of two elements, which the     *)
(* other slice has no more of, or moves on in both after a common one.     *)
LEMMA MeetCounts ==
    ASSUME NEW a \in Seq(Nat), NEW b \in Seq(Nat), InOrder(a), InOrder(b),
           NEW state \in MeetStates(a, b), Counted(a, b, state)
    PROVE  Counted(a, b, Meet(a, b)[state])
<1> DEFINE next == Meet(a, b)[state]
           x == a[state.i]
           y == b[state.j]
<1>1. Len(a) \in Nat /\ Len(b) \in Nat
  OBVIOUS
<1>2. state.i \in 1..Len(a) + 1 /\ state.j \in 1..Len(b) + 1 /\ state.common \in Seq(Nat)
  BY DEF MeetStates
<1>3. CASE state.i > Len(a) \/ state.j > Len(b)
  <2>1. next = state
    BY <1>3 DEF Meet, MeetStates
  <2> HIDE DEF next
  <2> QED
    BY <2>1 DEF next
<1>4. CASE ~(state.i > Len(a) \/ state.j > Len(b))
  <2>1. /\ next.i = IF y < x THEN state.i ELSE state.i + 1
        /\ next.j = IF x < y THEN state.j ELSE state.j + 1
        /\ next.common = IF x = y THEN Append(state.common, x) ELSE state.common
    BY <1>4 DEF Meet, MeetStates
  <2>2. state.i \in 1..Len(a) /\ state.j \in 1..Len(b)
    BY <1>1, <1>2, <1>4
  <2>3. x \in Nat /\ \A z \in Ahead(a, state.i) : z \in Nat /\ x <= z
    BY <2>2, AheadInOrder
  <2>4. y \in Nat /\ \A z \in Ahead(b, state.j) : z \in Nat /\ y <= z
    BY <2>2, AheadInOrder
  <2> SUFFICES ASSUME NEW z \in Nat
               PROVE  Copies(next.common, z)
                        + Lesser(CopiesFrom(a, next.i, z), CopiesFrom(b, next.j, z))
                      = Lesser(Copies(a, z), Copies(b, z))
    BY Zenon DEF Counted, next
  <2> DEFINE c == Copies(state.common, z)
             m == CopiesFrom(a, state.i + 1, z)
             n == CopiesFrom(b, state.j + 1, z)
  <2>5. c + Lesser(CopiesFrom(a, state.i, z), CopiesFrom(b, state.j, z)) = Lesser(Copies(a, z), Copies(b, z))
    BY DEF Counted
  <2>6. c \in Nat
    BY <1>2, CopiesTyped
  <2>7. /\ m \in Nat /\ CopiesFrom(a, state.i, z) = m + IF x = z THEN 1 ELSE 0
        /\ (\A g \in state.i..Len(a) : a[g] # z) => CopiesFrom(a, state.i, z) = 0
    <3>1. state.i \in 1..Len(a) + 1 /\ state.i + 1 \in 1..Len(a) + 1 /\ state.i # Len(a) + 1
      BY <1>1, <2>2
    <3> QED
      BY <3>1, CopiesNext
  <2>8. /\ n \in Nat /\ CopiesFrom(b, state.j, z) = n + IF y = z THEN 1 ELSE 0
        /\ (\A g \in state.j..Len(b) : b[g] # z) => CopiesFrom(b, state.j, z) = 0
    <3>1. state.j \in 1..Len(b) + 1 /\ state.j + 1 \in 1..Len(b) + 1 /\ state.j # Len(b) + 1
      BY <1>1, <2>2
    <3> QED
      BY <3>1, CopiesNext
  <2> HIDE DEF next, x, y, c, m, n
  <2>9. CASE x < y
    <3>1. next.i = state.i + 1 /\ next.j = state.j /\ next.common = state.common
      BY <2>1, <2>3, <2>4, <2>9
    <3>2. x = z => CopiesFrom(b, state.j, z) = 0
      <4>1. x \notin Ahead(b, state.j)
        BY <2>3, <2>4, <2>9
      <4> QED
        BY <2>8, <4>1 DEF Ahead
    <3>3. Lesser(m, CopiesFrom(b, state.j, z)) =
            Lesser(CopiesFrom(a, state.i, z), CopiesFrom(b, state.j, z))
      BY <2>7, <3>2 DEF Lesser
    <3> QED
      BY <2>5, <3>1, <3>3, Zenon DEF c, m
  <2>10. CASE y < x
    <3>1. next.i = state.i /\ next.j = state.j + 1 /\ next.common = state.common
      BY <2>1, <2>3, <2>4, <2>10
    <3>2. y = z => CopiesFrom(a, state.i, z) = 0
      <4>1. y \notin Ahead(a, state.i)
        BY <2>3, <2>4, <2>10
      <4> QED
        BY <2>7, <4>1 DEF Ahead
    <3>3. Lesser(CopiesFrom(a, state.i, z), n) =
            Lesser(CopiesFrom(a, state.i, z), CopiesFrom(b, state.j, z))
      BY <2>7, <2>8, <3>2 DEF Lesser
    <3> QED
      BY <2>5, <3>1, <3>3, Zenon DEF c, n
  <2>11. CASE x = y
    <3>1. next.i = state.i + 1 /\ next.j = state.j + 1 /\ next.common = Append(state.common, x)
      BY <2>1, <2>3, <2>4, <2>11
    <3>2. Copies(next.common, z) = c + IF x = z THEN 1 ELSE 0
      BY <1>2, <2>3, <3>1, CopiesOfAppend DEF c
    <3>3. Lesser(CopiesFrom(a, state.i, z), CopiesFrom(b, state.j, z)) =
            Lesser(m, n) + IF x = z THEN 1 ELSE 0
      BY <2>7, <2>8, <2>11 DEF Lesser
    <3>4. Lesser(m, n) \in Nat
      BY <2>7, <2>8 DEF Lesser
    <3>5. Copies(next.common, z) + Lesser(m, n) = Lesser(Copies(a, z), Copies(b, z))
      BY <2>5, <2>6, <3>2, <3>3, <3>4
    <3> QED
      BY <3>1, <3>5 DEF m, n
  <2> QED
    BY <2>3, <2>4, <2>9, <2>10, <2>11
<1> QED
  BY <1>3, <1>4

(* A round keeps what the loop is for, and comes closer to the end.        *)
LEMMA MeetShares ==
    ASSUME NEW a \in Seq(Nat), NEW b \in Seq(Nat), InOrder(a), InOrder(b),
           NEW r \in Nat, NEW state, Shared(a, b, state), Advanced(a, b, r, state)
    PROVE  /\ Shared(a, b, Meet(a, b)[state])
           /\ Advanced(a, b, r + 1, Meet(a, b)[state])
<1> DEFINE next == Meet(a, b)[state]
           x == a[state.i]
           y == b[state.j]
<1>1. /\ Len(a) \in Nat /\ Len(b) \in Nat
      /\ DOMAIN a = 1..Len(a) /\ DOMAIN b = 1..Len(b)
  OBVIOUS
<1>2. /\ state \in MeetStates(a, b)
      /\ state.i \in 1..Len(a) + 1 /\ state.j \in 1..Len(b) + 1 /\ state.common \in Seq(Nat)
  BY DEF Shared, MeetStates
<1>3. next \in MeetStates(a, b)
  BY <1>2, MeetTyped
<1>4. CASE state.i > Len(a) \/ state.j > Len(b)
  <2>1. next = state
    BY <1>2, <1>4 DEF Meet, MeetStates
  <2> HIDE DEF next
  <2>2. Advanced(a, b, r + 1, state)
    BY <1>1, <1>2, <1>4 DEF Advanced
  <2> QED
    BY <2>1, <2>2 DEF next
<1>5. CASE ~(state.i > Len(a) \/ state.j > Len(b))
  <2>1. next = [i      |-> IF y < x THEN state.i ELSE state.i + 1,
                j      |-> IF x < y THEN state.j ELSE state.j + 1,
                common |-> IF x = y THEN Append(state.common, x) ELSE state.common]
    BY <1>2, <1>5 DEF Meet, MeetStates
  <2>2. state.i \in 1..Len(a) /\ state.j \in 1..Len(b)
    BY <1>1, <1>2, <1>5
  <2>3. /\ x \in Nat /\ Ahead(a, state.i) = {x} \cup Ahead(a, state.i + 1)
        /\ \A z \in Ahead(a, state.i) : z \in Nat /\ x <= z
    BY <2>2, AheadInOrder
  <2>4. /\ y \in Nat /\ Ahead(b, state.j) = {y} \cup Ahead(b, state.j + 1)
        /\ \A z \in Ahead(b, state.j) : z \in Nat /\ y <= z
    BY <2>2, AheadInOrder
  <2>5. x \in Range(a) /\ y \in Range(b)
    BY <1>1, <2>2 DEF Range
  <2> DEFINE behind(i) == {a[g] : g \in 1..i - 1}
  <2>6. behind(state.i + 1) = behind(state.i) \cup {x}
    <3>1. state.i \in Nat \ {0}
      BY <2>2
    <3> QED
      BY <3>1, OneMoreBehind
  <2>7. IsInjective(a) => x \notin behind(state.i)
    <3> SUFFICES ASSUME IsInjective(a), NEW g \in 1..state.i - 1 PROVE x # a[g]
      OBVIOUS
    <3>1. g \in DOMAIN a /\ state.i \in DOMAIN a /\ g # state.i
      BY <1>1, <2>2
    <3> QED
      BY <3>1 DEF IsInjective
  <2>8. /\ Range(state.common) \subseteq behind(state.i) \cap Range(b)
        /\ Range(a) \cap Range(b) \subseteq
              Range(state.common) \cup (Ahead(a, state.i) \cap Ahead(b, state.j))
        /\ IsInjective(a) => IsInjective(state.common)
    BY DEF Shared
  <2> SUFFICES /\ Range(next.common) \subseteq behind(next.i) \cap Range(b)
               /\ Range(a) \cap Range(b) \subseteq
                     Range(next.common) \cup (Ahead(a, next.i) \cap Ahead(b, next.j))
               /\ IsInjective(a) => IsInjective(next.common)
               /\ next.i + next.j >= r + 1 + 2 \/ next.i = Len(a) + 1 \/ next.j = Len(b) + 1
    BY <1>3 DEF Shared, Advanced
  <2> HIDE DEF next, x, y, behind
  <2>9. state.i = Len(a) + 1 \/ state.j = Len(b) + 1 \/ state.i + state.j >= r + 2
    BY DEF Advanced
  <2>10. next.i + next.j >= r + 1 + 2
    <3>1. /\ next.i = IF y < x THEN state.i ELSE state.i + 1
          /\ next.j = IF x < y THEN state.j ELSE state.j + 1
      BY <2>1
    <3>2. state.i \in Nat /\ state.j \in Nat /\ state.i + state.j >= r + 2
      <4>1. Len(a) \in Nat /\ Len(b) \in Nat
        BY <1>1
      <4>2. state.i \in Nat /\ state.j \in Nat /\ state.i # Len(a) + 1 /\ state.j # Len(b) + 1
        BY <2>2, <4>1
      <4> QED
        BY <2>9, <4>2
    <3> QED
      BY <2>3, <2>4, <3>1, <3>2
  <2>11. CASE x < y
    <3>1. next.i = state.i + 1 /\ next.j = state.j /\ next.common = state.common
      BY <2>1, <2>3, <2>4, <2>11
    <3>2. x \notin Ahead(b, state.j)
      BY <2>3, <2>4, <2>11
    <3> QED
      BY <2>3, <2>6, <2>8, <2>10, <3>1, <3>2
  <2>12. CASE y < x
    <3>1. next.i = state.i /\ next.j = state.j + 1 /\ next.common = state.common
      BY <2>1, <2>3, <2>4, <2>12
    <3>2. y \notin Ahead(a, state.i)
      BY <2>3, <2>4, <2>12
    <3> QED
      BY <2>4, <2>8, <2>10, <3>1, <3>2
  <2>13. CASE x = y
    <3>1. next.i = state.i + 1 /\ next.j = state.j + 1 /\ next.common = Append(state.common, x)
      BY <2>1, <2>3, <2>4, <2>13
    <3>2. Range(next.common) = Range(state.common) \cup {x}
      <4>1. state.common \in Seq(Nat) /\ x \in Nat
        BY <1>2, <2>3
      <4>2. \A s \in Seq(Nat), z \in Nat : Range(Append(s, z)) = Range(s) \cup {z}
        BY RangeOfAppend
      <4> QED
        BY <3>1, <4>1, <4>2
    <3>3. IsInjective(a) => IsInjective(next.common)
      <4> SUFFICES ASSUME IsInjective(a) PROVE IsInjective(Append(state.common, x))
        BY <3>1
      <4>1. IsInjective(state.common) /\ x \notin Range(state.common)
        BY <2>7, <2>8
      <4> QED
        BY <1>2, <2>3, <4>1, AppendedOnce
    <3> QED
      BY <2>3, <2>4, <2>5, <2>6, <2>8, <2>10, <2>13, <3>1, <3>2, <3>3
  <2> QED
    BY <2>3, <2>4, <2>11, <2>12, <2>13
<1> QED
  BY <1>4, <1>5

(* The loop of setIntersection, over slices in order.                      *)
LEMMA IntersectionShares ==
    ASSUME NEW a \in Seq(Nat), NEW b \in Seq(Nat), InOrder(a), InOrder(b)
    PROVE  LET c == Intersection[a][b] IN
           /\ c \in Seq(Nat) /\ Range(c) = Range(a) \cap Range(b)
           /\ IsInjective(a) => IsInjective(c)
           /\ \A x \in Nat : Copies(c, x) = Lesser(Copies(a, x), Copies(b, x))
<1> DEFINE n == Len(a) + Len(b)
           start == [i |-> 1, j |-> 1, common |-> <<>>]
           loop[r \in 0..Len(a) + Len(b)] ==
               IF r = 0 THEN [i |-> 1, j |-> 1, common |-> <<>>] ELSE Meet(a, b)[loop[r - 1]]
<1>1. Len(a) \in Nat /\ Len(b) \in Nat /\ n \in Nat
  OBVIOUS
<1>2. start \in MeetStates(a, b)
  BY <1>1 DEF MeetStates
<1>3. /\ loop[0] = start
      /\ \A r \in 1..n : loop[r] = Meet(a, b)[loop[r - 1]]
  <2> DEFINE step == [p \in MeetStates(a, b) \X (1..n) |-> Meet(a, b)[p[1]]]
  <2>1. IsStep(step, n, MeetStates(a, b))
    <3>1. \A p \in MeetStates(a, b) \X (1..n) : Meet(a, b)[p[1]] \in MeetStates(a, b)
      BY MeetTyped
    <3> HIDE DEF n
    <3> QED
      BY <3>1 DEF IsStep
  <2>2. PICK f : IsHistory(f, n, MeetStates(a, b), start, step)
    <3> HIDE DEF step, n, start
    <3> QED
      BY <1>1, <1>2, <2>1, PrimitiveRecursion, Zenon
  <2>3. f \in [0..n -> MeetStates(a, b)] /\ f[0] = start
    <3> HIDE DEF step, n, start
    <3> QED
      BY <2>2 DEF IsHistory
  <2>4. ASSUME NEW r \in 1..n PROVE f[r] = Meet(a, b)[f[r - 1]]
    <3>1. r - 1 \in 0..n
      BY <1>1
    <3>2. f[r] = step[<<f[r - 1], r>>] /\ f[r - 1] \in MeetStates(a, b)
      <4> HIDE DEF step, n, start
      <4> QED
        BY <2>2, <3>1 DEF IsHistory
    <3> HIDE DEF n
    <3> QED
      BY <3>2
  <2>5. f = [r \in 0..n |-> IF r = 0 THEN start ELSE Meet(a, b)[f[r - 1]]]
    <3>1. ASSUME NEW r \in 0..n, r # 0 PROVE r \in 1..n
      BY <1>1, <3>1
    <3> HIDE DEF n, start
    <3> QED
      BY <2>3, <2>4, <3>1
  <2>6. loop = [r \in 0..n |-> IF r = 0 THEN start ELSE Meet(a, b)[loop[r - 1]]]
    BY <2>5, Zenon
  <2> HIDE DEF loop, start
  <2>7. 0 \in 0..n /\ \A r \in 1..n : r \in 0..n /\ r # 0
    BY <1>1
  <2> HIDE DEF n
  <2> QED
    BY <2>6, <2>7
<1> HIDE DEF loop, start
<1> DEFINE T == {r \in 0..n : /\ Shared(a, b, loop[r]) /\ Advanced(a, b, r, loop[r])
                              /\ Counted(a, b, loop[r])}
<1>4. 0 \in T
  <2>1. /\ start.i = 1 /\ start.j = 1 /\ start.common = <<>>
    BY DEF start
  <2>2. Ahead(a, 1) = Range(a) /\ Ahead(b, 1) = Range(b)
    BY <1>1 DEF Ahead, Range
  <2>3. Range(<<>>) = {} /\ IsInjective(<<>>)
    BY DEF Range, IsInjective
  <2>4. Shared(a, b, start)
    BY <1>2, <2>1, <2>2, <2>3 DEF Shared
  <2>5. Advanced(a, b, 0, start)
    BY <2>1 DEF Advanced
  <2>6. Counted(a, b, start)
    <3> SUFFICES ASSUME NEW x \in Nat
                 PROVE  Copies(<<>>, x) + Lesser(CopiesFrom(a, 1, x), CopiesFrom(b, 1, x))
                        = Lesser(Copies(a, x), Copies(b, x))
      BY <2>1 DEF Counted
    <3>1. <<>> \in Seq(Nat) /\ x \notin Range(<<>>)
      BY <2>3
    <3>2. Copies(<<>>, x) = 0
      BY <3>1, CopiesTyped
    <3>3. /\ Copies(a, x) = CopiesFrom(a, 1, x) /\ Copies(a, x) \in Nat
          /\ Copies(b, x) = CopiesFrom(b, 1, x) /\ Copies(b, x) \in Nat
      BY CopiesTyped
    <3> QED
      BY <3>2, <3>3 DEF Lesser
  <2> QED
    BY <1>1, <1>3, <2>4, <2>5, <2>6
<1>5. ASSUME NEW r \in 0..n - 1, r \in T PROVE r + 1 \in T
  <2>1. PICK k \in 1..n : k = r + 1 /\ k - 1 = r /\ k \in 0..n
    BY <1>1
  <2>2. loop[k] = Meet(a, b)[loop[r]]
    BY <1>3, <2>1
  <2>3. r \in Nat /\ Shared(a, b, loop[r]) /\ Advanced(a, b, r, loop[r]) /\ Counted(a, b, loop[r])
    BY <1>5
  <2> HIDE DEF n
  <2>4. Shared(a, b, loop[k]) /\ Advanced(a, b, k, loop[k])
    BY <2>1, <2>2, <2>3, MeetShares
  <2>5. Counted(a, b, loop[k])
    <3>1. loop[r] \in MeetStates(a, b)
      BY <2>3 DEF Shared
    <3> QED
      BY <2>2, <2>3, <3>1, MeetCounts
  <2> QED
    BY <2>1, <2>4, <2>5
<1>6. n \in T
  <2>1. \A r \in 0..n - 1 : r \in T => r + 1 \in T
    BY <1>5
  <2> HIDE DEF T, n
  <2>2. \A r \in 0..n : r \in T
    BY <1>1, <1>4, <2>1, BoundedInduction, Zenon
  <2> QED
    BY <1>1, <2>2
<1> DEFINE last == loop[n]
<1>7. Intersection[a][b] = last.common
  BY DEF Intersection, loop
<1> HIDE DEF last
<1>8. Shared(a, b, last) /\ Advanced(a, b, n, last) /\ Counted(a, b, last)
  BY <1>6 DEF last
<1>9. last.i \in 1..Len(a) + 1 /\ last.j \in 1..Len(b) + 1 /\ last.common \in Seq(Nat)
  BY <1>8 DEF Shared, MeetStates
<1>10. Ahead(a, last.i) = {} \/ Ahead(b, last.j) = {}
  <2>1. last.i = Len(a) + 1 \/ last.j = Len(b) + 1
    BY <1>1, <1>8, <1>9 DEF Advanced
  <2> QED
    BY <1>1, <2>1 DEF Ahead
<1>11. {a[g] : g \in 1..last.i - 1} \subseteq Range(a)
  BY <1>1, <1>9 DEF Range
<1>12. ASSUME NEW x \in Nat
       PROVE  Copies(last.common, x) = Lesser(Copies(a, x), Copies(b, x))
  <2>1. /\ CopiesFrom(a, last.i, x) \in Nat
        /\ (\A g \in last.i..Len(a) : a[g] # x) => CopiesFrom(a, last.i, x) = 0
    BY <1>9, CopiesNext
  <2>2. /\ CopiesFrom(b, last.j, x) \in Nat
        /\ (\A g \in last.j..Len(b) : b[g] # x) => CopiesFrom(b, last.j, x) = 0
    BY <1>9, CopiesNext
  <2>3. CopiesFrom(a, last.i, x) = 0 \/ CopiesFrom(b, last.j, x) = 0
    BY <1>10, <2>1, <2>2 DEF Ahead
  <2>4. Lesser(CopiesFrom(a, last.i, x), CopiesFrom(b, last.j, x)) = 0
    BY <2>1, <2>2, <2>3 DEF Lesser
  <2>5. Copies(last.common, x) \in Nat
    BY <1>9, CopiesTyped
  <2>6. Copies(last.common, x) + Lesser(CopiesFrom(a, last.i, x), CopiesFrom(b, last.j, x))
        = Lesser(Copies(a, x), Copies(b, x))
    BY <1>8 DEF Counted
  <2> QED
    BY <2>4, <2>5, <2>6
<1> QED
  BY <1>7, <1>8, <1>9, <1>10, <1>11, <1>12 DEF Shared

(* setIntersection, and sliceUnion in the server, return what both slices  *)
(* have, as often as both have it; once if the first has it once: a latest *)
(* list that was cut down names nobody twice.                              *)
THEOREM IntersectionFound ==
    ASSUME NEW s \in Seq(Nat), NEW t \in Seq(Nat)
    PROVE  /\ SetIntersection(s, t) \in Seq(Nat)
           /\ Range(SetIntersection(s, t)) = Range(s) \cap Range(t)
           /\ IsInjective(s) => IsInjective(SetIntersection(s, t))
           /\ \A x \in Nat : Copies(SetIntersection(s, t), x) = Lesser(Copies(s, x), Copies(t, x))
<1> DEFINE a == Sorted[s]
           b == Sorted[t]
<1>1. a \in Seq(Nat) /\ InOrder(a) /\ Range(a) = Range(s) /\ (IsInjective(s) => IsInjective(a))
  BY SortedIsSorted, SeqDomain DEF InOrder
<1>2. b \in Seq(Nat) /\ InOrder(b) /\ Range(b) = Range(t)
  BY SortedIsSorted, SeqDomain DEF InOrder
<1>3. SetIntersection(s, t) = Intersection[a][b]
  BY DEF SetIntersection
<1>4. \A x \in Nat : Copies(a, x) = Copies(s, x) /\ Copies(b, x) = Copies(t, x)
  BY SortedKeepsCopies
<1> HIDE DEF a, b
<1>5. LET c == Intersection[a][b] IN
      /\ c \in Seq(Nat) /\ Range(c) = Range(a) \cap Range(b)
      /\ IsInjective(a) => IsInjective(c)
      /\ \A x \in Nat : Copies(c, x) = Lesser(Copies(a, x), Copies(b, x))
  BY <1>1, <1>2, IntersectionShares
<1> QED
  BY <1>1, <1>2, <1>3, <1>4, <1>5

-----------------------------------------------------------------------------
(* The members of a set, one after the other: nothing else, none left out. *)
LEMMA SetToSeqLists ==
    ASSUME NEW S, IsFiniteSet(S)
    PROVE  SetToSeq(S) \in Seq(S) /\ Range(SetToSeq(S)) = S
<1> DEFINE n == Cardinality(S)
           s == SetToSeq(S)
<1>1. n \in Nat /\ ExistsBijection(1..n, S)
  BY FS_CardinalityType
<1>2. PICK f \in [1..n -> S] : IsInjective(f)
  BY <1>1 DEF ExistsBijection, Bijection, Injection
<1>3. s \in [1..n -> S] /\ IsInjective(s)
  BY <1>2 DEF SetToSeq
<1> HIDE DEF s
<1>4. IsFiniteSet(1..n) /\ Cardinality(1..n) = n
  <2>1. 1 \in Int /\ n \in Int
    BY <1>1
  <2>2. IsFiniteSet(1..n) /\ Cardinality(1..n) = IF 1 > n THEN 0 ELSE n - 1 + 1
    BY <2>1, FS_Interval
  <2> QED
    BY <1>1, <2>2
<1>5. s \in Injection(1..n, S)
  BY <1>3 DEF Injection
<1>6. s \in Surjection(1..n, S)
  <2> HIDE DEF n
  <2>1. Cardinality(1..n) = Cardinality(S)
    BY <1>4 DEF n
  <2> QED
    BY <1>5, <2>1, FS_Injection
<1>7. Range(s) = S
  BY <1>3, <1>6 DEF Range, Surjection
<1>8. s \in Seq(S)
  BY <1>1, <1>3
<1> QED
  BY <1>7, <1>8 DEF s

(* Concatenation has the elements of both slices.                           *)
LEMMA RangeOfConcat ==
    ASSUME NEW S, NEW s \in Seq(S), NEW t \in Seq(S)
    PROVE  s \o t \in Seq(S) /\ Range(s \o t) = Range(s) \cup Range(t)
<1>1. /\ s \o t \in Seq(S)
      /\ DOMAIN (s \o t) = 1..Len(s) + Len(t)
      /\ DOMAIN s = 1..Len(s) /\ DOMAIN t = 1..Len(t)
      /\ Len(s) \in Nat /\ Len(t) \in Nat
      /\ \A i \in 1..Len(s) + Len(t) : (s \o t)[i] = IF i <= Len(s) THEN s[i] ELSE t[i - Len(s)]
  OBVIOUS
<1>2. ASSUME NEW x \in Range(s \o t) PROVE x \in Range(s) \cup Range(t)
  <2>1. PICK i \in 1..Len(s) + Len(t) : x = (s \o t)[i]
    BY <1>1 DEF Range
  <2>2. CASE i <= Len(s)
    BY <1>1, <2>1, <2>2 DEF Range
  <2>3. CASE ~(i <= Len(s))
    <3>1. i - Len(s) \in 1..Len(t)
      BY <1>1, <2>3
    <3> QED
      BY <1>1, <2>1, <2>3, <3>1 DEF Range
  <2> QED
    BY <2>2, <2>3
<1>3. ASSUME NEW x \in Range(s) PROVE x \in Range(s \o t)
  <2>1. PICK i \in 1..Len(s) : x = s[i]
    BY <1>1 DEF Range
  <2>2. i \in 1..Len(s) + Len(t) /\ (s \o t)[i] = x
    BY <1>1, <2>1
  <2> QED
    BY <1>1, <2>2 DEF Range
<1>4. ASSUME NEW x \in Range(t) PROVE x \in Range(s \o t)
  <2>1. PICK i \in 1..Len(t) : x = t[i]
    BY <1>1 DEF Range
  <2>2. /\ Len(s) + i \in 1..Len(s) + Len(t) /\ ~(Len(s) + i <= Len(s))
        /\ Len(s) + i - Len(s) = i
    BY <1>1
  <2>3. (s \o t)[Len(s) + i] = x
    BY <1>1, <2>1, <2>2
  <2> QED
    BY <1>1, <2>2, <2>3 DEF Range
<1> QED
  BY <1>1, <1>2, <1>3, <1>4

(* The elements of all of a slice of slices.                               *)
LEMMA FlattenCollects ==
    ASSUME NEW S, NEW seqs \in Seq(Seq(S))
    PROVE  /\ FlattenSeq(seqs) \in Seq(S)
           /\ Range(FlattenSeq(seqs)) = UNION {Range(seqs[i]) : i \in DOMAIN seqs}
<1> DEFINE n == Len(seqs)
           flatten[i \in 1..Len(seqs)] == IF i = 1 THEN seqs[i] ELSE flatten[i - 1] \o seqs[i]
           step == [p \in Seq(S) \X (1..n) |-> p[1] \o seqs[p[2]]]
           upTo(i) == UNION {Range(seqs[k]) : k \in 1..i}
<1>1. n \in Nat /\ DOMAIN seqs = 1..n /\ <<>> \in Seq(S) /\ \A i \in 1..n : seqs[i] \in Seq(S)
  OBVIOUS
<1>2. CASE n = 0
  <2>1. FlattenSeq(seqs) = <<>> /\ Range(<<>>) = {}
    BY <1>2 DEF FlattenSeq, Range
  <2> QED
    BY <1>1, <1>2, <2>1
<1>3. CASE n # 0
  <2>1. PICK f : IsHistory(f, n, Seq(S), <<>>, step)
    <3>1. IsStep(step, n, Seq(S))
      <4>1. \A p \in Seq(S) \X (1..n) : p[1] \o seqs[p[2]] \in Seq(S)
        BY <1>1
      <4> HIDE DEF n
      <4> QED
        BY <4>1 DEF IsStep
    <3> HIDE DEF step, n
    <3> QED
      BY <1>1, <3>1, PrimitiveRecursion, Zenon
  <2>2. f[0] = <<>> /\ \A i \in 0..n : f[i] \in Seq(S)
    <3> HIDE DEF step, n
    <3> QED
      BY <2>1 DEF IsHistory
  <2>3. ASSUME NEW i \in 1..n PROVE f[i] = f[i - 1] \o seqs[i]
    <3>1. i - 1 \in 0..n
      BY <1>1
    <3>2. f[i] = step[<<f[i - 1], i>>]
      <4> HIDE DEF step, n
      <4> QED
        BY <2>1 DEF IsHistory
    <3> HIDE DEF n
    <3> QED
      BY <2>2, <3>1, <3>2
  <2> DEFINE g == [i \in 1..n |-> f[i]]
  <2>4. ASSUME NEW i \in 1..n
        PROVE  g[i] = IF i = 1 THEN seqs[i] ELSE g[i - 1] \o seqs[i]
    <3>1. CASE i = 1
      <4>1. g[i] = f[0] \o seqs[1]
        <5>1. 1 \in 1..n /\ 1 - 1 = 0
          BY <3>1
        <5> HIDE DEF n
        <5> QED
          BY <2>3, <3>1, <5>1
      <4>2. <<>> \o seqs[1] = seqs[1]
        BY <1>1, <1>3
      <4> QED
        BY <2>2, <3>1, <4>1, <4>2
    <3>2. CASE i # 1
      <4>1. i - 1 \in 1..n
        BY <1>1, <3>2
      <4> HIDE DEF n
      <4> QED
        BY <2>3, <3>2, <4>1
    <3> QED
      BY <3>1, <3>2
  <2>5. g = [i \in 1..Len(seqs) |-> IF i = 1 THEN seqs[i] ELSE g[i - 1] \o seqs[i]]
    <3> DEFINE h == [i \in 1..Len(seqs) |-> IF i = 1 THEN seqs[i] ELSE g[i - 1] \o seqs[i]]
    <3>1. \A i \in 1..Len(seqs) : g[i] = h[i]
      <4>1. \A i \in 1..Len(seqs) : h[i] = IF i = 1 THEN seqs[i] ELSE g[i - 1] \o seqs[i]
        BY Zenon
      <4> HIDE DEF g, h
      <4> QED
        BY <2>4, <4>1
    <3>2. DOMAIN g = 1..Len(seqs) /\ g = [i \in DOMAIN g |-> g[i]]
      BY Zenon
    <3> HIDE DEF g
    <3>3. DOMAIN h = 1..Len(seqs) /\ h = [i \in DOMAIN h |-> h[i]]
      OBVIOUS
    <3> HIDE DEF h
    <3>4. g = h
      BY <3>1, <3>2, <3>3
    <3> QED
      BY <3>4 DEF h
  <2>6. flatten = [i \in 1..Len(seqs) |-> IF i = 1 THEN seqs[i] ELSE flatten[i - 1] \o seqs[i]]
    <3> HIDE DEF g
    <3> QED
      BY <2>5, Zenon
  <2> HIDE DEF flatten
  <2>7. \A i \in 1..n : flatten[i] = IF i = 1 THEN seqs[i] ELSE flatten[i - 1] \o seqs[i]
    BY <2>6
  <2> DEFINE T == {i \in 0..n : i # 0 => flatten[i] \in Seq(S) /\ Range(flatten[i]) = upTo(i)}
  <2>8. 0 \in T
    BY <1>1
  <2>9. ASSUME NEW i \in 0..n - 1, i \in T PROVE i + 1 \in T
    <3>1. i + 1 \in 1..n /\ i + 1 - 1 = i /\ i + 1 # 0 /\ i + 1 \in 0..n
      BY <1>1
    <3>2. upTo(i + 1) = upTo(i) \cup Range(seqs[i + 1])
      BY <1>1
    <3>3. CASE i = 0
      <4>1. flatten[i + 1] = seqs[i + 1]
        BY <2>7, <3>1, <3>3
      <4>2. upTo(i) = {}
        BY <3>3
      <4> HIDE DEF upTo
      <4> QED
        BY <1>1, <3>1, <3>2, <4>1, <4>2
    <3>4. CASE i # 0
      <4>1. flatten[i + 1] = flatten[i] \o seqs[i + 1]
        <5>1. PICK k \in 1..n : k = i + 1
          BY <3>1
        <5>2. k # 1 /\ k - 1 = i
          BY <3>4, <5>1
        <5> HIDE DEF n
        <5>3. flatten[k] = flatten[k - 1] \o seqs[k]
          BY <2>7, <5>2
        <5> QED
          BY <5>1, <5>2, <5>3
      <4>2. flatten[i] \in Seq(S) /\ Range(flatten[i]) = upTo(i)
        BY <2>9, <3>4
      <4> HIDE DEF upTo, n
      <4>3. seqs[i + 1] \in Seq(S)
        BY <1>1, <3>1
      <4>4. /\ flatten[i] \o seqs[i + 1] \in Seq(S)
            /\ Range(flatten[i] \o seqs[i + 1]) = upTo(i) \cup Range(seqs[i + 1])
        BY <4>2, <4>3, RangeOfConcat
      <4> QED
        BY <3>1, <3>2, <4>1, <4>4
    <3> QED
      BY <3>3, <3>4
  <2>10. n \in T
    <3>1. \A i \in 0..n - 1 : i \in T => i + 1 \in T
      BY <2>9
    <3> HIDE DEF T, n
    <3>2. \A i \in 0..n : i \in T
      BY <1>1, <2>8, <3>1, BoundedInduction, Zenon
    <3> QED
      BY <1>1, <3>2
  <2>11. FlattenSeq(seqs) = flatten[n]
    BY <1>3 DEF FlattenSeq, flatten
  <2> QED
    BY <1>1, <1>3, <2>10, <2>11
<1> QED
  BY <1>2, <1>3
-----------------------------------------------------------------------------
(* Where the search from ip ends: outside of the network or at an address  *)
(* that nobody uses.                                                       *)
Stops(ip, last, ipNet, usedIPs) ==
    {x \in ip..last + 1 : x \notin ipNet \/ \A used \in usedIPs : x \notin used}

(* The function AssignAddress searches with.                               *)
Search(exact, last, ipNet, usedIPs) ==
    LET from[cand \in {Panic} \cup 0..last + 1] ==
            IF cand = Panic THEN Panic
            ELSE IF cand \notin ipNet THEN Overflow
            ELSE IF \E used \in usedIPs : cand \in used THEN from[NextIP(cand, exact, last)]
            ELSE cand
    IN from

(* The equation that it should solve.                                      *)
IsSearch(from, exact, last, ipNet, usedIPs) ==
    \A cand \in {Panic} \cup 0..last + 1 :
        from[cand] = IF cand = Panic THEN Panic
                     ELSE IF cand \notin ipNet THEN Overflow
                     ELSE IF \E used \in usedIPs : cand \in used THEN from[NextIP(cand, exact, last)]
                     ELSE cand

(* It does, because there is a function that solves it: the one that says  *)
(* where the search from each candidate ends.                              *)
LEMMA SearchGoesOn ==
    ASSUME NEW last \in Nat, NEW ipNet \in SUBSET (0..last), NEW usedIPs, NEW exact \in BOOLEAN
    PROVE  IsSearch(Search(exact, last, ipNet, usedIPs), exact, last, ipNet, usedIPs)
<1> DEFINE D == {Panic} \cup 0..last + 1
           isUsed(x) == \E used \in usedIPs : x \in used
           stops(x) == Stops(x, last, ipNet, usedIPs)
           end(x) == CHOOSE m \in stops(x) : \A k \in stops(x) : m <= k
           result(x) == IF x = Panic THEN Panic
                        ELSE IF end(x) \in ipNet THEN end(x)
                        ELSE IF end(x) = last + 1 /\ exact /\ x # last + 1 THEN Panic
                        ELSE Overflow
           f == [cand \in D |-> result(cand)]
<1>1. last + 1 \in Nat /\ last + 1 \notin ipNet /\ Panic \notin Nat /\ Panic \notin ipNet
  BY DEF Panic
<1>2. ASSUME NEW x \in 0..last + 1
      PROVE  end(x) \in stops(x) /\ \A k \in stops(x) : end(x) <= k
  <2> DEFINE T == stops(x)
  <2>1. T \in SUBSET Nat /\ T # {}
    BY <1>1 DEF Stops
  <2> HIDE DEF T
  <2>2. \E m \in T : \A k \in T : m <= k
    BY <2>1, LeastNumber
  <2> QED
    BY <2>2 DEF T
<1>3. ASSUME NEW x \in 0..last + 1, x \notin ipNet \/ ~isUsed(x)
      PROVE  end(x) = x
  <2>1. x \in stops(x) /\ \A k \in stops(x) : k \in Nat /\ x <= k
    BY <1>3 DEF Stops
  <2> HIDE DEF stops, end
  <2>2. end(x) \in Nat /\ x \in Nat /\ x <= end(x) /\ end(x) <= x
    BY <1>2, <2>1
  <2> QED
    BY <2>2
<1>4. ASSUME NEW x \in ipNet, isUsed(x)
      PROVE  x \in 0..last /\ x + 1 \in 0..last + 1 /\ end(x) = end(x + 1)
  <2>1. x \in 0..last /\ x + 1 \in 0..last + 1
    OBVIOUS
  <2>2. stops(x) = stops(x + 1)
    BY <1>4, <2>1 DEF Stops
  <2> QED
    BY <2>1, <2>2
<1> HIDE DEF end
<1>5. ASSUME NEW x \in D
      PROVE  f[x] = IF x = Panic THEN Panic
                    ELSE IF x \notin ipNet THEN Overflow
                    ELSE IF isUsed(x) THEN f[NextIP(x, exact, last)]
                    ELSE x
  <2>1. f[x] = result(x)
    BY Zenon
  <2>2. CASE x = Panic
    BY <2>1, <2>2
  <2>3. CASE x # Panic /\ x \notin ipNet
    <3>1. end(x) = x
      BY <1>3, <2>3
    <3> QED
      BY <2>1, <2>3, <3>1
  <2>4. CASE x # Panic /\ x \in ipNet /\ ~isUsed(x)
    <3>1. end(x) = x
      BY <1>3, <2>4
    <3> QED
      BY <2>1, <2>4, <3>1
  <2>5. CASE x # Panic /\ x \in ipNet /\ isUsed(x)
    <3>1. x \in 0..last /\ x + 1 \in 0..last + 1 /\ end(x) = end(x + 1)
      BY <1>4, <2>5
    <3>2. end(last + 1) = last + 1
      BY <1>1, <1>3
    <3>3. x # last + 1
      BY <3>1
    <3>4. CASE x = last /\ exact
      <4>1. NextIP(x, exact, last) = Panic /\ f[Panic] = Panic
        BY <3>4 DEF NextIP
      <4>2. end(x) = last + 1
        BY <3>1, <3>2, <3>4
      <4> QED
        BY <1>1, <2>1, <2>5, <3>3, <3>4, <4>1, <4>2
    <3>5. CASE ~(x = last /\ exact)
      <4>1. NextIP(x, exact, last) = x + 1
        BY <3>5 DEF NextIP
      <4>2. f[x + 1] = result(x + 1)
        BY <3>1
      <4>3. x + 1 # Panic /\ x + 1 = last + 1 <=> x = last
        BY <3>1 DEF Panic
      <4> QED
        BY <1>1, <2>1, <2>5, <3>1, <3>2, <3>3, <3>5, <4>1, <4>2, <4>3
    <3> QED
      BY <3>4, <3>5
  <2> QED
    BY <2>2, <2>3, <2>4, <2>5
<1> DEFINE from == Search(exact, last, ipNet, usedIPs)
<1>6. f = [cand \in {Panic} \cup 0..last + 1 |->
               IF cand = Panic THEN Panic
               ELSE IF cand \notin ipNet THEN Overflow
               ELSE IF \E used \in usedIPs : cand \in used THEN f[NextIP(cand, exact, last)]
               ELSE cand]
  <2> DEFINE h == [cand \in D |-> IF cand = Panic THEN Panic
                                  ELSE IF cand \notin ipNet THEN Overflow
                                  ELSE IF isUsed(cand) THEN f[NextIP(cand, exact, last)]
                                  ELSE cand]
  <2>1. DOMAIN f = D /\ f = [x \in DOMAIN f |-> f[x]]
    BY Zenon
  <2>2. DOMAIN h = D /\ h = [x \in DOMAIN h |-> h[x]]
    <3> HIDE DEF f, D, isUsed
    <3> QED
      BY Zenon
  <2>3. \A x \in D : h[x] = f[x]
    BY <1>5, Zenon
  <2> HIDE DEF f, h, D
  <2>4. h = f
    BY <2>1, <2>2, <2>3
  <2> QED
    BY <2>4, Zenon DEF h, D
<1>7. from = [cand \in {Panic} \cup 0..last + 1 |->
               IF cand = Panic THEN Panic
               ELSE IF cand \notin ipNet THEN Overflow
               ELSE IF \E used \in usedIPs : cand \in used THEN from[NextIP(cand, exact, last)]
               ELSE cand]
  <2> HIDE DEF f
  <2> QED
    BY <1>6, Zenon DEF Search
<1> HIDE DEF from
<1>8. IsSearch(from, exact, last, ipNet, usedIPs)
  BY <1>7, Zenon DEF IsSearch
<1> QED
  BY <1>8 DEF from

(* AssignAddress returns the first address of the network, from ip on,     *)
(* that no used network contains, and ErrAddressOverflow when there is     *)
(* none; but when the network is full up to the last address of all, kept  *)
(* in as few bytes as it needs, nextIP panics instead.                     *)
THEOREM FirstFreeAssigned ==
    ASSUME NEW last \in Nat, NEW ipNet \in SUBSET (0..last), NEW ip \in ipNet,
           \A x, y \in ipNet : x..y \subseteq ipNet,
           NEW usedIPs, NEW exact \in BOOLEAN
    PROVE  LET free     == {x \in ipNet : x >= ip /\ \A used \in usedIPs : x \notin used}
               assigned == AssignAddress(ip, exact, last, ipNet, usedIPs) IN
           IF free # {} THEN assigned \in free /\ \A x \in free : assigned <= x
           ELSE assigned = IF last \in ipNet /\ exact THEN Panic ELSE Overflow
<1> DEFINE from == Search(exact, last, ipNet, usedIPs)
           isUsed(x) == \E used \in usedIPs : x \in used
           stops == Stops(ip, last, ipNet, usedIPs)
           free == {x \in ipNet : x >= ip /\ ~isUsed(x)}
           assigned == AssignAddress(ip, exact, last, ipNet, usedIPs)
<1>1. \A cand \in {Panic} \cup 0..last + 1 :
          from[cand] = IF cand = Panic THEN Panic
                       ELSE IF cand \notin ipNet THEN Overflow
                       ELSE IF isUsed(cand) THEN from[NextIP(cand, exact, last)]
                       ELSE cand
  <2>1. IsSearch(from, exact, last, ipNet, usedIPs)
    BY SearchGoesOn
  <2> HIDE DEF from
  <2> QED
    BY <2>1, Zenon DEF IsSearch
<1>2. assigned = from[ip]
  BY Zenon DEF AssignAddress, Search
<1> HIDE DEF from, assigned
<1>3. ip \in 0..last /\ last + 1 \in Nat /\ last + 1 \notin ipNet /\ Panic \notin 0..last + 1
  BY DEF Panic
<1>4. PICK m \in stops : \A k \in stops : m <= k
  <2> DEFINE T == stops
  <2>1. T \in SUBSET Nat /\ T # {}
    BY <1>3 DEF Stops
  <2> HIDE DEF T
  <2>2. \E m \in T : \A k \in T : m <= k
    BY <2>1, LeastNumber
  <2> QED
    BY <2>2 DEF T
<1>5. m \in ip..last + 1 /\ (m \notin ipNet \/ ~isUsed(m))
  BY <1>4 DEF Stops
<1>6. ASSUME NEW x \in ip..m - 1
      PROVE  x \in 0..last /\ from[x] = from[NextIP(x, exact, last)]
  <2>1. x \in 0..last /\ x \in ip..last + 1 /\ ~(m <= x)
    BY <1>3, <1>5
  <2>2. x \in ipNet /\ isUsed(x)
    BY <1>4, <2>1 DEF Stops
  <2>3. x # Panic
    BY <1>3, <2>1
  <2> HIDE DEF isUsed
  <2> QED
    BY <1>1, <2>1, <2>2, <2>3
<1> DEFINE to == IF m = last + 1 THEN last ELSE m
           n == to - ip
           T == {k \in 0..n : from[ip + k] = from[ip]}
<1>7. n \in Nat /\ to \in ip..last /\ ip + n = to
  BY <1>3, <1>5
<1>8. 0 \in T
  BY <1>3, <1>7
<1>9. ASSUME NEW k \in 0..n - 1, k \in T PROVE k + 1 \in T
  <2>1. PICK x : x = ip + k
    OBVIOUS
  <2>2. x \in ip..m - 1 /\ x # last /\ x + 1 = ip + (k + 1) /\ k + 1 \in 0..n
    BY <1>3, <1>5, <1>7, <2>1
  <2>3. from[x] = from[x + 1]
    BY <1>6, <2>2 DEF NextIP
  <2> HIDE DEF n
  <2> QED
    BY <1>9, <2>1, <2>2, <2>3
<1>10. from[to] = from[ip]
  <2> HIDE DEF n, to
  <2>1. \A k \in 0..n - 1 : k \in T => k + 1 \in T
    BY <1>9
  <2> HIDE DEF T
  <2>2. \A k \in 0..n : k \in T
    BY <1>7, <1>8, <2>1, BoundedInduction, Zenon
  <2>3. n \in T
    BY <1>7, <2>2
  <2> QED
    BY <1>7, <2>3 DEF T
<1>11. m \in ipNet => assigned = m
  <2> SUFFICES ASSUME m \in ipNet PROVE from[m] = m /\ to = m
    BY <1>2, <1>10
  <2>1. m # last + 1 /\ m \in 0..last + 1 /\ m # Panic /\ ~isUsed(m)
    BY <1>3, <1>5
  <2> HIDE DEF isUsed
  <2> QED
    BY <1>1, <2>1
<1>12. m \notin ipNet => assigned = IF m = last + 1 /\ exact THEN Panic ELSE Overflow
  <2> SUFFICES ASSUME m \notin ipNet
               PROVE  from[to] = IF m = last + 1 /\ exact THEN Panic ELSE Overflow
    BY <1>2, <1>10
  <2>1. m \in 0..last + 1 /\ m # Panic
    BY <1>3, <1>5
  <2>2. from[m] = Overflow
    BY <1>1, <2>1
  <2>3. CASE m = last + 1
    <3>1. last \in ip..m - 1
      BY <1>3, <2>3
    <3>2. from[last] = from[NextIP(last, exact, last)]
      BY <1>6, <3>1
    <3>3. from[Panic] = Panic
      BY <1>1
    <3> QED
      BY <2>2, <2>3, <3>2, <3>3 DEF NextIP
  <2>4. CASE m # last + 1
    BY <2>2, <2>4
  <2> QED
    BY <2>3, <2>4
<1>13. m \in ipNet => m \in free /\ \A x \in free : m <= x
  BY <1>4, <1>5 DEF Stops
<1>14. m \notin ipNet => free = {} /\ (m = last + 1 <=> last \in ipNet)
  <2> SUFFICES ASSUME m \notin ipNet PROVE free = {} /\ (m = last + 1 <=> last \in ipNet)
    OBVIOUS
  <2>1. \A y \in ipNet : ~(m <= y)
    <3>1. \A y \in ipNet : y \in 0..last /\ ip..y \subseteq ipNet
      OBVIOUS
    <3> QED
      BY <1>3, <1>5, <3>1
  <2>2. free = {}
    <3> SUFFICES ASSUME NEW x \in free PROVE FALSE
      OBVIOUS
    <3>1. x \in stops
      BY DEF Stops
    <3> QED
      BY <1>4, <2>1, <3>1
  <2>3. m = last + 1 => last \in ipNet
    <3> SUFFICES ASSUME m = last + 1, last \notin ipNet PROVE FALSE
      OBVIOUS
    <3>1. last \in stops /\ ~(m <= last)
      BY <1>3 DEF Stops
    <3> QED
      BY <1>4, <3>1
  <2>4. last \in ipNet => m = last + 1
    BY <1>3, <1>5, <2>1
  <2> QED
    BY <2>2, <2>3, <2>4
<1> HIDE DEF free
<1>15. IF free # {} THEN assigned \in free /\ \A x \in free : assigned <= x
       ELSE assigned = IF last \in ipNet /\ exact THEN Panic ELSE Overflow
  BY <1>11, <1>12, <1>13, <1>14
<1> QED
  BY <1>15, Zenon DEF free, assigned
=============================================================================
