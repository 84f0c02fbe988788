-------------------------------- MODULE Routes --------------------------------
(***************************************************************************)
(* From a view to a WireGuard interface: what a device may choose as its   *)
(* ways to the others (device/client.go, chooseEndpoints) and the machine  *)
(* these choices are compiled to (spec/compile.go).                        *)
(*                                                                         *)
(* A choice is a function via: the device itself when one of its endpoints *)
(* answered (ForwarderAndEndpointChosen), another device when that is its  *)
(* forwarder (UsesForwarder), or NoRoute.                                  *)
(***************************************************************************)
EXTENDS NetSpec, Sequences

CONSTANTS
    DeviceOrder,   \* the order of Network.Devices
    IPv4Lists,     \* the lists of addresses with an IPv4 address
    IPv6Lists      \* those with an IPv6 address

NoRoute == "no route"

ASSUME RoutesAssumption ==
    /\ DeviceOrder \in Seq(DeviceNames)
    /\ DeviceNames = {DeviceOrder[i] : i \in 1..Len(DeviceOrder)}
    /\ \A i, j \in 1..Len(DeviceOrder) : DeviceOrder[i] = DeviceOrder[j] => i = j
    /\ NoRoute \notin DeviceNames
    /\ IPv4Lists \subseteq AddressLists
    /\ IPv6Lists \subseteq AddressLists

IsChoice(v) ==
    DOMAIN v \subseteq DeviceNames /\ v \in [DOMAIN v -> DeviceNames \cup {NoRoute}]

Before(p, q) ==
    \E i, j \in DOMAIN DeviceOrder : i < j /\ DeviceOrder[i] = p /\ DeviceOrder[j] = q

(* The devices chosen so far when the second loop of chooseEndpoints comes *)
(* to device q: all with an endpoint that answered, and those before q it  *)
(* found a forwarder for.                                                  *)
ChosenBefore(v, answered, q) ==
    {p \in DOMAIN v : p \in answered \/ (Before(p, q) /\ v[p] # NoRoute)}

(* The choices chooseEndpoints can end with: an endpoint that answers, or  *)
(* any of the forwarders chosen so far, or nothing.                        *)
ValidChoice(devices, v, answered) ==
    \A p \in DOMAIN v :
        IF p \in answered THEN v[p] = p
        ELSE LET forwarders == GetForwardersFor(devices, ChosenBefore(v, answered, p), p)
             IN IF forwarders = {} THEN v[p] = NoRoute ELSE v[p] \in forwarders

-----------------------------------------------------------------------------
(* The other devices that have a key; CompileMachine is always called with *)
(* ignoreIncomplete, and leaves the rest out.                              *)
KeyedPeers(devices, me) == {p \in DOMAIN devices \ {me} : devices[p].PublicKey # ZeroKey}

(* Faulty variant of InterfacePeers: no continue after a forwarder.        *)
AllPeers(devices, v, me) == KeyedPeers(devices, me)

(* The devices that become peers of the interface: one reached through a   *)
(* forwarder does not.                                                     *)
InterfacePeers(devices, v, me) == {p \in KeyedPeers(devices, me) : v[p] \in {p, NoRoute}}

(* AllowedIPs of peer p, as the devices whose addresses they are: its own  *)
(* and those of the devices it forwards for.                               *)
AllowedIPs(devices, v, me, p) ==
    {p} \cup {q \in KeyedPeers(devices, me) : v[q] = p}

(* SpecCensored.CompileMachine for device me and the one network a client  *)
(* hands it, and the interface of that network.  Endpoint says whether the *)
(* peer's chosen endpoint is set.                                          *)
CompileMachine(devices, v, me) ==
    [Addresses    |-> devices[me].Addresses,
     Settings     |-> devices[me].Settings,
     ForwardsIPv4 |-> \E p \in devices[me].Accessible : devices[p].Addresses \in IPv4Lists,
     ForwardsIPv6 |-> \E p \in devices[me].Accessible : devices[p].Addresses \in IPv6Lists,
     Peers        |-> [p \in InterfacePeers(devices, v, me) |->
                        [PublicKey  |-> devices[p].PublicKey,
                         Settings   |-> devices[p].Settings,
                         Endpoint   |-> v[p] = p,
                         AllowedIPs |-> AllowedIPs(devices, v, me, p)]]]

(* Device q has a route in machine m.                                      *)
Routed(m, q) == \E p \in DOMAIN m.Peers : q \in m.Peers[p].AllowedIPs

(* And the peer of that route has an endpoint.                             *)
Reached(m, q) == \E p \in DOMAIN m.Peers : q \in m.Peers[p].AllowedIPs /\ m.Peers[p].Endpoint
=============================================================================
