------------------------------- MODULE NetSpec -------------------------------
(***************************************************************************)
(* Package spec: the network specification the coordination server keeps  *)
(* and the censored view of it each device is given (spec/spec.go).        *)
(*                                                                         *)
(* A Spec is a function from the names of its networks to networks, and a  *)
(* network a function from the names of its devices to devices: names are  *)
(* unique and the order of the two slices never changes, so a list of      *)
(* devices stands in the order of its names.  Accessible and AccessOnly,   *)
(* lists of names in that order, are sets.                                 *)
(***************************************************************************)
EXTENDS Naturals, FiniteSets

CONSTANTS
    NetworkNames,    \* every name a network may have
    DeviceNames,     \* every name a device may have
    AddressLists,    \* values of the fields no request sets: Addresses, Endpoints
    SettingsValues,  \* values of ListenPort, PresharedKey and PersistentKeepalive together
    Keys,            \* public keys
    ZeroKey          \* goal.Key{}: no key has been set

ASSUME ZeroKeyAssumption == ZeroKey \in Keys

NetworkDevice ==
    [Addresses  : AddressLists,
     Settings   : SettingsValues,
     PublicKey  : Keys,
     Accessible : SUBSET DeviceNames,
     AccessAll  : BOOLEAN,
     AccessOnly : SUBSET DeviceNames]

IsNetwork(sn) ==
    DOMAIN sn \subseteq DeviceNames /\ sn \in [DOMAIN sn -> NetworkDevice]

IsSpec(s) ==
    /\ DOMAIN s \subseteq NetworkNames
    /\ s = [n \in DOMAIN s |-> s[n]]
    /\ \A n \in DOMAIN s : IsNetwork(s[n])

NetworkDeviceCensored ==
    [Addresses  : AddressLists,
     Settings   : SettingsValues,
     PublicKey  : Keys,
     Accessible : SUBSET DeviceNames]

(* NetworkCensored, what a device is sent and reports.                     *)
IsNetworkCensored(nc) ==
    /\ nc = [Name |-> nc.Name, CensoredFor |-> nc.CensoredFor, Devices |-> nc.Devices]
    /\ nc.Name \in NetworkNames
    /\ nc.CensoredFor \in DeviceNames
    /\ DOMAIN nc.Devices \subseteq DeviceNames
    /\ nc.Devices \in [DOMAIN nc.Devices -> NetworkDeviceCensored]

-----------------------------------------------------------------------------
(* Spec.GetNetwork and Network.GetDevice both find something.              *)
Known(s, n, d) == n \in DOMAIN s /\ d \in DOMAIN s[n]

(* Faulty variant of Censored: the access control leaves the server too.   *)
Uncensored(nd) == nd

(* The part of a device record that leaves the server: the access control  *)
(* stays behind.                                                           *)
Censored(nd) ==
    [Addresses  |-> nd.Addresses,
     Settings   |-> nd.Settings,
     PublicKey  |-> nd.PublicKey,
     Accessible |-> nd.Accessible]

(* The devices of network sn that device d is allowed to see.  d sees      *)
(* itself only if its own AccessControl says so.                           *)
Visible(sn, d) == {p \in DOMAIN sn : sn[d].AccessAll \/ p \in sn[d].AccessOnly}

(* Network.CensorForDevice, for a device of the network.  Two of its       *)
(* results are Equal in the code exactly when they are equal here.         *)
CensorForDevice(s, n, d) ==
    [Name        |-> n,
     CensoredFor |-> d,
     Devices     |-> [p \in Visible(s[n], d) |-> Censored(s[n][p])]]

(* NetworkDevice.Clone copies every field but Accessible, which the clone  *)
(* has empty.                                                              *)
CloneDevice(nd) == [nd EXCEPT !.Accessible = {}]

Clone(s) == [n \in DOMAIN s |-> [d \in DOMAIN s[n] |-> CloneDevice(s[n][d])]]

(* NetworkCensored.GetForwardersFor: the devices that say they can reach p *)
(* and to which this device has itself chosen a way (chosen).              *)
GetForwardersFor(devices, chosen, p) ==
    {f \in chosen \cap DOMAIN devices : p \in devices[f].Accessible}
=============================================================================
