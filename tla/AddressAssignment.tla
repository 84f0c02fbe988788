--------------------------- MODULE AddressAssignment ---------------------------
(***************************************************************************)
(* AssignAddress and nextIP (util/assign.go).  An address is a number, a   *)
(* network the set of its addresses, from a first to a last one.  The      *)
(* addresses of a kind go from 0 to its last one.                          *)
(***************************************************************************)
EXTENDS Integers

(* What AssignAddress may return besides an address.                       *)
Overflow == -1   \* ErrAddressOverflow
Panic    == -2   \* make with a negative length

(* nextIP: the last address of all has no next one in as many bytes as an  *)
(* address of its kind needs.  An IPv4 address kept in 16 bytes does; what *)
(* follows is none of IPv4, and in no network of it.                       *)
NextIP(ip, exact, last) == IF ip = last /\ exact THEN Panic ELSE ip + 1

(* AssignAddress: from ip = ipNet.IP on, the first address of the network  *)
(* that no used network contains.                                          *)
AssignAddress(ip, exact, last, ipNet, usedIPs) ==
    LET from[cand \in {Panic} \cup 0..last + 1] ==
            IF cand = Panic THEN Panic
            ELSE IF cand \notin ipNet THEN Overflow
            ELSE IF \E used \in usedIPs : cand \in used THEN from[NextIP(cand, exact, last)]
            ELSE cand
    IN from[ip]
=============================================================================
