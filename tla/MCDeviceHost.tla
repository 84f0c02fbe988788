----------------------------- MODULE MCDeviceHost -----------------------------
(***************************************************************************)
(* A machine in two networks, with two other devices in the first and one  *)
(* in the second.  Addresses 1 to 9 are of the first network, 11 to 19 of  *)
(* the second, and 30 and 31 are of IPv6.                                  *)
(***************************************************************************)
EXTENDS DeviceHost, MCAlgorithms

CONSTANTS n1, n2, me, p, q

MCDevices == {me, p, q}
MCOrder   == <<me, p, q>>

MCDevice(addresses, port, accessible) ==
    [Addresses |-> addresses, Settings |-> port, PublicKey |-> 1, Accessible |-> accessible]

MCView(n, devices) == [Name |-> n, CensoredFor |-> me, Devices |-> devices]

(* The own addresses, then the port, then for whom this machine forwards.  *)
MCFirst(own, port, accessible, ps, qs) ==
    MCView(n1, me :> MCDevice(own, port, accessible) @@ p :> MCDevice(ps, 0, {}) @@ q :> MCDevice(qs, 0, {}))

MCSecond(own, accessible, ps) ==
    MCView(n2, me :> MCDevice(own, 7, accessible) @@ p :> MCDevice(ps, 0, {}))

(* In the second view of n1 p and q share an address, q's two have swapped *)
(* order, and the machine has renumbered; in the third its own addresses   *)
(* are out of order.  In the second view of n2 it stops forwarding and has *)
(* an address of IPv6, and in the third it should forward to one.          *)
MCViews == (n1 :> {MCFirst(<<1>>, 5, {p}, <<2>>, <<4, 3>>),
                   MCFirst(<<1, 6>>, 0, {}, <<3>>, <<3, 4>>),
                   MCFirst(<<6, 1>>, 0, {}, <<3>>, <<3, 4>>)})
        @@ (n2 :> {MCSecond(<<11>>, {p}, <<12>>),
                   MCSecond(<<11, 31>>, {}, <<13>>),
                   MCSecond(<<11>>, {p}, <<30>>)})

MCInitView == n1 :> MCFirst(<<1>>, 5, {p}, <<2>>, <<4, 3>>) @@ n2 :> MCSecond(<<11>>, {p}, <<12>>)

MCAddressLists == {<<1>>, <<1, 6>>, <<6, 1>>, <<2>>, <<3>>, <<3, 4>>, <<4, 3>>,
                   <<11>>, <<11, 31>>, <<12>>, <<13>>, <<30>>}

MCIPv6Addresses == {30, 31}
MCIPv6Lists == {<<11, 31>>, <<30>>}
MCIPv4Lists == MCAddressLists \ {<<30>>}

MCSymbols == {".", "home", "cloud", "me", "p", "q", "print", "er", "internal"}

MCText == n1 :> <<"home">> @@ n2 :> <<"cloud">> @@ me :> <<"me">> @@ p :> <<"p">> @@ q :> <<"q">>

MCParent(suffix, n, d) == [Suffix |-> suffix, Network |-> n, Device |-> d]

(* printer.internal, an alias; er.internal, one that ends it; and the      *)
(* suffix .internal of all names.                                          *)
MCParents == <<MCParent(<<"print", "er", ".", "internal">>, n1, q),
               MCParent(<<"er", ".", "internal">>, n2, p),
               MCParent(<<".", "internal">>, NoName, NoName)>>

(* The hypothesis under which DeviceHostProofs shows AnswersAreCurrent, and *)
(* the order of parents from which it follows.                             *)
ASSUME NamesAssumption == SpecificFirst /\ NamesAreClear
=============================================================================
