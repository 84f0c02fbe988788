--------------------------- MODULE MCReifyProtocol ---------------------------
(***************************************************************************)
(* Two clients, a with a way to m and b without, and a device m that runs  *)
(* no client.  All three see each other.  Client a has a DNS server.       *)
(***************************************************************************)
EXTENDS ReifyProtocol

CONSTANTS net, a, b, m

MCDevices == {a, b, m}
MCClients == {a, b}
MCAllClients == {a, b, m}
MCOrder   == <<a, b, m>>

(* Keys: 0 is no key; a makes a new one in every process, b keeps its own  *)
(* in its configuration, and m's was written into the specification.       *)
MCKeys == 0..9
MCPrivateKey ==
    [d \in Clients |-> [k \in 0..MaxDisturbances |->
        CASE d = a -> 1 + k [] d = b -> 8 [] d = m -> 9]]

MCDevice(addresses, key, all, only) ==
    [Addresses |-> addresses, Settings |-> 0, PublicKey |-> key,
     Accessible |-> {}, AccessAll |-> all, AccessOnly |-> only]

MCOpenSpec == [n \in {net} |-> [d \in MCDevices |->
    MCDevice("sorted", IF d = m THEN 9 ELSE 0, TRUE, {})]]

(* As MCOpenSpec, but two addresses of b are not in order.                 *)
MCUnsortedSpec == [MCOpenSpec EXCEPT ![net][b].Addresses = "unsorted"]

(* As MCOpenSpec, but m may see only a, not itself.                        *)
MCBlindSpec == [MCOpenSpec EXCEPT ![net][m] = MCDevice("sorted", 9, FALSE, {a})]

MCIdentities == {net} \X Clients

MCSortAddresses == [l \in {"sorted", "unsorted"} |-> "sorted"]

(* a and b reach each other, and a reaches m.                              *)
MCReach == {<<a, b>>, <<b, a>>, <<a, m>>}
=============================================================================
