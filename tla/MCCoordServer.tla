---------------------------- MODULE MCCoordServer ----------------------------
(***************************************************************************)
(* A server with two networks.  In n1 device a sees everybody, b sees only *)
(* itself and a; c has no token and never calls.  Network n2 has one       *)
(* device with the name of one in n1.  updateSpec may swap in a            *)
(* specification without n2 and without c, and the original one again.     *)
(***************************************************************************)
EXTENDS CoordServer

CONSTANTS n1, n2, a, b, c, k0, k1

MCNetworkNames == {n1, n2}
MCDeviceNames  == {a, b, c}
MCKeys         == {k0, k1}

MCDevice(all, only, accessible) ==
    [Addresses |-> 1, Settings |-> 1, PublicKey |-> k0,
     Accessible |-> accessible, AccessAll |-> all, AccessOnly |-> only]

MCNetwork1 ==
    [d \in {a, b, c} |->
        CASE d = a -> MCDevice(TRUE, {}, {})
          [] d = b -> MCDevice(FALSE, {a, b}, {a})
          [] d = c -> MCDevice(FALSE, {c}, {})]

MCInitSpec ==
    [n \in {n1, n2} |-> IF n = n1 THEN MCNetwork1 ELSE [d \in {a} |-> MCDevice(TRUE, {}, {})]]

MCSmallerSpec == [n \in {n1} |-> [d \in {a, b} |-> MCNetwork1[d]]]

MCNewSpecs == {MCInitSpec, MCSmallerSpec}

MCIdentities == {<<n1, a>>, <<n1, b>>, <<n2, a>>}

MCNothing ==
    [SettingsSet |-> FALSE, Settings |-> 0, PublicKeySet |-> FALSE, PublicKey |-> k0,
     AccessibleSet |-> FALSE, Accessible |-> {}]

MCPatchRequests ==
    {[MCNothing EXCEPT !.PublicKeySet = TRUE, !.PublicKey = k1],
     [MCNothing EXCEPT !.AccessibleSet = TRUE, !.Accessible = {c}]}

(* What b is sent at first.                                                *)
MCStaleReports ==
    {[Name |-> n1, CensoredFor |-> b,
      Devices |-> [p \in {a, b} |->
          [Addresses |-> 1, Settings |-> 1, PublicKey |-> k0,
           Accessible |-> MCNetwork1[p].Accessible]]]}
=============================================================================
