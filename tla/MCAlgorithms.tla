----------------------------- MODULE MCAlgorithms -----------------------------
(***************************************************************************)
(* What Slices and AddressAssignment compute, compared with what it should *)
(* be, on all inputs up to a size.  TLC evaluates the assumptions.         *)
(***************************************************************************)
EXTENDS Slices, AddressAssignment

CONSTANTS
    MaxElement, MaxLength,  \* of the slices
    AddressWidth            \* the bits of an address

LastAddress == 2^AddressWidth - 1

Inputs == UNION {[1..n -> 1..MaxElement] : n \in 0..MaxLength}

(* "setDifference returns the elements in a that are not in b", each as    *)
(* often as a has it, and setIntersection what the two share, each as      *)
(* often as both have it, in order, whatever the order of the inputs and   *)
(* with or without duplicates.                                             *)
ASSUME SortedLoopsRight ==
    \A a, b \in Inputs :
        LET d == SetDifference(a, b)
            c == SetIntersection(a, b) IN
        /\ d = Sorted[d] /\ c = Sorted[c]
        /\ \A x \in 1..MaxElement :
             /\ Copies(d, x) = IF Copies(b, x) = 0 THEN Copies(a, x) ELSE 0
             /\ Copies(c, x) = Min({Copies(a, x), Copies(b, x)})

(* Blocks of 2^k addresses that begin at a multiple of 2^k: networks.      *)
Blocks == {(m * 2^k)..((m + 1) * 2^k - 1) :
              <<k, m>> \in {km \in (0..AddressWidth) \X (0..LastAddress) :
                              (km[2] + 1) * 2^km[1] <= LastAddress + 1}}

(* AssignAddress returns the first free address from ipNet.IP on, and      *)
(* ErrAddressOverflow when there is none; but a full network that reaches  *)
(* to the last address of all makes it panic instead.                      *)
ASSUME AssignsFirstFree ==
    \A ipNet, u, w \in Blocks : \A ip \in ipNet : \A exact \in BOOLEAN :
        LET free == {x \in ipNet \ (u \cup w) : x >= ip} IN
        AssignAddress(ip, exact, LastAddress, ipNet, {u, w}) =
            IF free # {} THEN Min(free)
            ELSE IF LastAddress \in ipNet /\ exact THEN Panic
            ELSE Overflow
=============================================================================
