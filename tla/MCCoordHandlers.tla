--------------------------- MODULE MCCoordHandlers ---------------------------
(***************************************************************************)
(* The server of MCCoordServer with three requests in flight at a time:    *)
(* patches of the keys of a and b, their reports, current when they are    *)
(* sent, and GETs.  Handlers are interchangeable, except where liveness is *)
(* checked.                                                                *)
(***************************************************************************)
EXTENDS CoordHandlers, MCCoordServer, TLC

CONSTANTS h1, h2, h3

MCHandlers == {h1, h2, h3}

MCSymmetry == Permutations(MCHandlers)

MCHandlerIdentities == {<<n1, a>>, <<n1, b>>}

MCReadCalls == {<<n1, b>>}

MCKeyPatches == {[MCNothing EXCEPT !.PublicKeySet = TRUE, !.PublicKey = k1]}

(* Who is answered does not depend on what a view holds: one device, its   *)
(* patches, one of them refused (b is not in n2), and an update after which *)
(* the server does not know it.                                            *)
MCOneDevice == {<<n2, a>>}

MCOneNetwork == [n \in {n2} |-> MCInitSpec[n]]

MCEmptySpecs == {[n \in {} |-> n]}

MCSmallPatches ==
    {MCNothing, [MCNothing EXCEPT !.AccessibleSet = TRUE, !.Accessible = {b}]}
=============================================================================
