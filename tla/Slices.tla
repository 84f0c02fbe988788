-------------------------------- MODULE Slices --------------------------------
(***************************************************************************)
(* The loops over two sorted slices in goal/util.go, as recursive          *)
(* functions of their indices; sliceUnion (coord/update.go) is             *)
(* setIntersection once more.  Elements are numbers.                       *)
(***************************************************************************)
EXTENDS Integers, SequencesExt

(* How many elements of s are not behind the one at index j.               *)
Rank(s, j) == Cardinality({k \in DOMAIN s : s[k] < s[j] \/ (s[k] = s[j] /\ k <= j)})

(* sort.Slice: equal numbers are the same, so their order does not matter. *)
Sorted == [s \in Seq(Nat) |->
    [i \in DOMAIN s |-> s[CHOOSE j \in DOMAIN s : Rank(s, j) = i]]]

(* The inner loop of setDifference: on from j to the first element of b    *)
(* that is not less than x.                                                *)
Skip(b, j, x) == CHOOSE k \in j..Len(b) + 1 :
    /\ k = Len(b) + 1 \/ b[k] >= x
    /\ \A h \in j..k - 1 : b[h] < x

(* The outer loop, which goes on from j with element x of a.               *)
Differ(b, x) == [state \in [j : 1..Len(b) + 1, diff : Seq(Nat)] |->
    LET j == Skip(b, state.j, x)
    IN [j |-> j,
        diff |-> IF j = Len(b) + 1 \/ x < b[j] THEN Append(state.diff, x) ELSE state.diff]]

(* The loops, over slices in order.                                        *)
Difference == [a \in Seq(Nat) |-> [b \in Seq(Nat) |->
    LET loop[i \in 0..Len(a)] ==
            IF i = 0 THEN [j |-> 1, diff |-> <<>>] ELSE Differ(b, a[i])[loop[i - 1]]
    IN loop[Len(a)].diff]]

(* setDifference, which sorts what it is given.                            *)
SetDifference(s, t) == Difference[Sorted[s]][Sorted[t]]

(* A round of the loop that setIntersection and sliceUnion share.          *)
Meet(a, b) == [state \in [i : 1..Len(a) + 1, j : 1..Len(b) + 1, common : Seq(Nat)] |->
    CASE state.i > Len(a) \/ state.j > Len(b) -> state
      [] OTHER ->
           LET x == a[state.i]
               y == b[state.j]
           IN [i      |-> IF y < x THEN state.i ELSE state.i + 1,
               j      |-> IF x < y THEN state.j ELSE state.j + 1,
               common |-> IF x = y THEN Append(state.common, x) ELSE state.common]]

(* Every round before the last moves an index, so there are no more rounds *)
(* than elements.                                                          *)
Intersection == [a \in Seq(Nat) |-> [b \in Seq(Nat) |->
    LET loop[r \in 0..Len(a) + Len(b)] ==
            IF r = 0 THEN [i |-> 1, j |-> 1, common |-> <<>>] ELSE Meet(a, b)[loop[r - 1]]
    IN loop[Len(a) + Len(b)].common]]

(* setIntersection, and sliceUnion, which sort what they are given.        *)
SetIntersection(s, t) == Intersection[Sorted[s]][Sorted[t]]

-----------------------------------------------------------------------------
(* How often s has x.                                                      *)
Copies(s, x) == Cardinality({i \in DOMAIN s : s[i] = x})
=============================================================================
