----------------------------- MODULE RouteChoice -----------------------------
(***************************************************************************)
(* chooseEndpoints (device/client.go) with ChooseEndpoint                  *)
(* (spec/resolve.go), then the local half of patchAccessible and           *)
(* CompileMachine, for one device and any view it may be sent: the two     *)
(* loops step by step, where ReifyProtocol takes any choice that is        *)
(* ValidChoice at once.                                                    *)
(***************************************************************************)
EXTENDS Routes

CONSTANTS
    Me,          \* the device that chooses
    CanForward,  \* its configuration
    Views,       \* the Devices of the views it may be sent
    Scorings,    \* per device, what the scorer says of each of its Endpoints
    Unreachable  \* the scorer returned an error

ASSUME RouteChoiceAssumption ==
    /\ CanForward \in BOOLEAN
    /\ \A v \in Views : Me \in DOMAIN v /\ DOMAIN v \subseteq DeviceNames
                       /\ v \in [DOMAIN v -> NetworkDeviceCensored]
    /\ \A s \in Scorings : s \in [DeviceNames -> Seq(Nat \cup {Unreachable})]
    /\ Unreachable \notin Nat

VARIABLES
    pc,        \* "endpoints" and "forwarders", the loops; "accessible"; "compile"; "done"
    i,         \* how far the running loop has got
    devices,   \* nc.Devices, with the view's Accessible
    scores,    \* what pinging each device's endpoints will find
    endpoint,  \* EndpointChosenIndex of each device, or 0
    via,       \* the choices so far
    needs,     \* needsForwarders
    machine    \* what CompileMachine returned

vars == <<pc, i, devices, scores, endpoint, via, needs, machine>>

NotCompiled == [NotCompiled |-> TRUE]

Others == DOMAIN devices \ {Me}

(* Faulty variant of Better: of two equal scores the later one wins.       *)
AsGood(scored, k, b) == b = 0 \/ scored[k] >= scored[b]

(* score > maxScore, for the k-th endpoint and the best so far, if any.    *)
Better(scored, k, b) == b = 0 \/ scored[k] > scored[b]

(* ChooseEndpoint, once all scorers are done: the loop's maxI over the     *)
(* first k endpoints, 0 while none answered (ErrAllEndpointsBad).          *)
ChooseEndpoint(scored) ==
    LET best[k \in 0..Len(scored)] ==
            IF k = 0 THEN 0
            ELSE IF scored[k] # Unreachable /\ Better(scored, k, best[k - 1])
                 THEN k ELSE best[k - 1]
    IN best[Len(scored)]

ChoiceInit ==
    /\ pc = "endpoints" /\ i = 1
    /\ devices \in Views
    /\ scores \in Scorings
    /\ endpoint = [p \in Others |-> 0]
    /\ via = [p \in Others |-> NoRoute]
    /\ needs = <<>>
    /\ machine = NotCompiled

(* The first loop, for the i-th device: an endpoint, or a place in         *)
(* needsForwarders.                                                        *)
TryEndpoints ==
    /\ pc = "endpoints" /\ i <= Len(DeviceOrder)
    /\ LET p == DeviceOrder[i] IN
       IF p \notin Others THEN UNCHANGED <<endpoint, via, needs>>
       ELSE LET e == ChooseEndpoint(scores[p]) IN
            IF e = 0
            THEN needs' = Append(needs, p) /\ UNCHANGED <<endpoint, via>>
            ELSE /\ endpoint' = [endpoint EXCEPT ![p] = e]
                 /\ via' = [via EXCEPT ![p] = p]
                 /\ UNCHANGED needs
    /\ i' = i + 1
    /\ UNCHANGED <<pc, devices, scores, machine>>

EndpointsTried ==
    /\ pc = "endpoints" /\ i > Len(DeviceOrder)
    /\ pc' = "forwarders" /\ i' = 1
    /\ UNCHANGED <<devices, scores, endpoint, via, needs, machine>>

(* Faulty variant of Chosen: a forwarder need not have been chosen itself. *)
Anybody == Others

(* The devices with ForwarderAndEndpointChosen.                            *)
Chosen == {p \in Others : via[p] # NoRoute}

(* Faulty variant of PickForwarder: only those with an endpoint forward.   *)
PickAnswering ==
    /\ pc = "forwarders" /\ i <= Len(needs)
    /\ LET forwarders == GetForwardersFor(devices, {p \in Others : endpoint[p] # 0}, needs[i]) IN
       IF forwarders = {} THEN UNCHANGED via
       ELSE \E f \in forwarders : via' = [via EXCEPT ![needs[i]] = f]
    /\ i' = i + 1
    /\ UNCHANGED <<pc, devices, scores, endpoint, needs, machine>>

(* The second loop: any of the forwarders for the i-th in need of one.     *)
PickForwarder ==
    /\ pc = "forwarders" /\ i <= Len(needs)
    /\ LET forwarders == GetForwardersFor(devices, Chosen, needs[i]) IN
       IF forwarders = {} THEN UNCHANGED via
       ELSE \E f \in forwarders : via' = [via EXCEPT ![needs[i]] = f]
    /\ i' = i + 1
    /\ UNCHANGED <<pc, devices, scores, endpoint, needs, machine>>

ForwardersPicked ==
    /\ pc = "forwarders" /\ i > Len(needs)
    /\ pc' = "accessible"
    /\ UNCHANGED <<i, devices, scores, endpoint, via, needs, machine>>

(* Faulty variant of Advertised: the ways are listed, not the devices.     *)
WaysAdvertised == IF CanForward THEN {via[p] : p \in Others} ELSE {}

Advertised == IF CanForward THEN Chosen ELSE {}

(* patchAccessible: what is sent to the server goes into the view too.     *)
SetAccessible ==
    /\ pc = "accessible"
    /\ devices' = [devices EXCEPT ![Me].Accessible = Advertised]
    /\ pc' = "compile"
    /\ UNCHANGED <<i, scores, endpoint, via, needs, machine>>

Compile ==
    /\ pc = "compile"
    /\ machine' = CompileMachine(devices, via, Me)
    /\ pc' = "done"
    /\ UNCHANGED <<i, devices, scores, endpoint, via, needs>>

ChoiceNext ==
    \/ TryEndpoints \/ EndpointsTried
    \/ PickForwarder \/ ForwardersPicked
    \/ SetAccessible \/ Compile

ChoiceSpec == ChoiceInit /\ [][ChoiceNext]_vars

-----------------------------------------------------------------------------
ChoiceTypeOK ==
    /\ pc \in {"endpoints", "forwarders", "accessible", "compile", "done"}
    /\ i \in 1..Len(DeviceOrder) + 1
    /\ devices \in [DOMAIN devices -> NetworkDeviceCensored]
    /\ endpoint \in [Others -> Nat]
    /\ DOMAIN via = Others /\ IsChoice(via)
    /\ needs \in Seq(Others)
    /\ machine # NotCompiled => pc = "done"

AnsweringEndpoints(p) == {e \in DOMAIN scores[p] : scores[p][e] # Unreachable}

(* The loops of chooseEndpoints end with a choice ReifyProtocol allows:    *)
(* every device with an answering endpoint is reached directly, the others *)
(* through a forwarder that was chosen before them, and none is left out   *)
(* that has one.                                                           *)
ChoiceIsValid ==
    pc \in {"accessible", "compile", "done"} =>
        ValidChoice(devices, via, {p \in Others : AnsweringEndpoints(p) # {}})

(* "If the score returned is tied, the first endpoint is chosen": the      *)
(* chosen endpoint answered, none scored more, and none before it as much. *)
FirstBestEndpoint ==
    \A p \in Others : endpoint[p] # 0 =>
        /\ endpoint[p] \in AnsweringEndpoints(p)
        /\ \A e \in AnsweringEndpoints(p) :
              scores[p][e] < scores[p][endpoint[p]]
                \/ (scores[p][e] = scores[p][endpoint[p]] /\ endpoint[p] <= e)

(* Whoever forwards for a device can be sent to: from any chosen device,   *)
(* following forwarders ends at a device with an answering endpoint and    *)
(* never turns in a circle (the index juggling of needsForwarders).        *)
ForwardersLeadThere ==
    \A p \in Others : via[p] # NoRoute =>
        LET hop[k \in 0..Cardinality(Others)] ==
                IF k = 0 THEN p
                ELSE IF hop[k - 1] = NoRoute THEN NoRoute ELSE via[hop[k - 1]]
            end == hop[Cardinality(Others)]
        IN end # NoRoute /\ via[end] = end /\ endpoint[end] # 0

(* WireGuard gives an address to one peer only.  In the compiled interface *)
(* every device with a key is routed through exactly one peer, itself or a *)
(* forwarder with an endpoint, unless its forwarder is no peer: one        *)
(* without a key, or itself behind a forwarder.                            *)
RoutedOnce ==
    pc = "done" =>
        \A q \in KeyedPeers(devices, Me) :
            LET hosts == {p \in DOMAIN machine.Peers : q \in machine.Peers[p].AllowedIPs} IN
            /\ \A p \in hosts : p = q \/ machine.Peers[p].Endpoint
            /\ IF via[q] \in {q, NoRoute} THEN hosts = {q}
               ELSE IF via[q] \in DOMAIN machine.Peers THEN hosts = {via[q]}
               ELSE hosts = {}

(* "Accessible is the list of devices (in the same network) that this peer *)
(* has access to, and can fowrard packets to": a device with a key that is *)
(* advertised has a route in the interface of the one that advertises it.  *)
AdvertisedIsRouted ==
    pc = "done" =>
        \A q \in devices[Me].Accessible \cap KeyedPeers(devices, Me) : Routed(machine, q)
=============================================================================
