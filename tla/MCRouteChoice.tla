---------------------------- MODULE MCRouteChoice ----------------------------
(***************************************************************************)
(* A device and three others: every way the three advertise each other,    *)
(* with and without keys, and endpoints of which none, the first, the      *)
(* second or both answer.                                                  *)
(***************************************************************************)
EXTENDS RouteChoice

CONSTANTS net, me, n1, n2, n3

MCOrder == <<n1, me, n2, n3>>
MCDevices == {me, n1, n2, n3}

MCDevice(key, accessible) ==
    [Addresses |-> "v4", Settings |-> 0, PublicKey |-> key, Accessible |-> accessible]

MCViews ==
    {[d \in MCDevices |->
        IF d = me THEN MCDevice(1, {}) ELSE MCDevice(keys[d], accessible[d])] :
     keys \in [{n1, n2, n3} -> {0, 1}],
     accessible \in [{n1, n2, n3} -> {{}, {n1}, {n2}, {n3}, {n1, n2}, {n2, n3}, {n1, n3}}]}

(* Of these, the views where everybody has a key.                          *)
MCKeyedViews == {v \in MCViews : \A d \in MCDevices : v[d].PublicKey # 0}

MCEndpoints == {<<>>, <<Unreachable>>, <<Unreachable, 0, 1>>, <<1, 0, 1>>}

MCScorings == {[d \in MCDevices |-> IF d = me THEN <<>> ELSE s[d]] : s \in [{n1, n2, n3} -> MCEndpoints]}
=============================================================================
