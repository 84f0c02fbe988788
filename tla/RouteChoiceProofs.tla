--------------------------- MODULE RouteChoiceProofs ---------------------------
(***************************************************************************)
(* For any number of devices and any views: whatever endpoints answer and  *)
(* whichever forwarders are picked, the interface a device sets up routes  *)
(* no other device through two peers, and none by way of a forwarder it    *)
(* has no endpoint of.                                                     *)
(***************************************************************************)
EXTENDS RouteChoice, DataInduction, FiniteSetTheorems, TLAPS

(* A choice in which every way begins: whoever was chosen as a forwarder   *)
(* was given a way of its own.                                             *)
WaysBegin(v) == \A p \in DOMAIN v : v[p] # NoRoute => v[p] \in DOMAIN v /\ v[v[p]] # NoRoute

(* The inductive invariant.                                                *)
ChoiceInv ==
    /\ Me \in DOMAIN devices /\ DOMAIN devices \subseteq DeviceNames
    /\ devices \in [DOMAIN devices -> NetworkDeviceCensored]
    /\ via = [p \in Others |-> via[p]]
    /\ needs \in Seq(Others)
    /\ i \in Nat \ {0}
    /\ WaysBegin(via)
    /\ pc = "done" => machine = CompileMachine(devices, via, Me)

(* The order of the specification file lists every other device.           *)
LEMMA OthersInOrder ==
    ASSUME ChoiceInv, NEW p \in Others
    PROVE  \E k \in DOMAIN DeviceOrder : DeviceOrder[k] = p
<1>1. p \in DeviceNames
  BY DEF ChoiceInv, Others
<1>2. DOMAIN DeviceOrder = 1..Len(DeviceOrder)
  BY RoutesAssumption
<1> QED
  BY <1>1, <1>2, RoutesAssumption

-----------------------------------------------------------------------------
(* The compiler: with a choice in which every way begins, the peers that   *)
(* hold the addresses of device q are at most one, q itself or its         *)
(* forwarder, and a forwarder has an endpoint.                             *)
LEMMA CompiledOnce ==
    ASSUME NEW ds, NEW v, NEW me,
           DOMAIN ds \subseteq DeviceNames, DOMAIN v = DOMAIN ds \ {me}, WaysBegin(v),
           NEW q \in KeyedPeers(ds, me),
           NEW m, m = CompileMachine(ds, v, me),
           NEW hosts, hosts = {p \in DOMAIN m.Peers : q \in m.Peers[p].AllowedIPs}
    PROVE  /\ \A p \in hosts : p = q \/ m.Peers[p].Endpoint
           /\ IF v[q] \in {q, NoRoute} THEN hosts = {q}
              ELSE IF v[q] \in DOMAIN m.Peers THEN hosts = {v[q]}
              ELSE hosts = {}
<1> DEFINE peers == InterfacePeers(ds, v, me)
<1>1. /\ DOMAIN m.Peers = peers
      /\ \A p \in peers : /\ m.Peers[p].AllowedIPs = AllowedIPs(ds, v, me, p)
                          /\ m.Peers[p].Endpoint = (v[p] = p)
  BY DEF CompileMachine
<1>2. /\ NoRoute \notin DOMAIN v
      /\ q \in DOMAIN v
      /\ peers \subseteq DOMAIN v
  BY RoutesAssumption DEF KeyedPeers, InterfacePeers
<1>3. hosts = {p \in peers : p = q \/ v[q] = p}
  BY <1>1 DEF AllowedIPs
<1>4. ASSUME NEW p \in hosts, p # q PROVE m.Peers[p].Endpoint
  <2>1. p \in peers /\ v[q] = p
    BY <1>3, <1>4
  <2>2. v[p] # NoRoute
    BY <2>1, <1>2 DEF WaysBegin
  <2> QED
    BY <2>1, <2>2, <1>1 DEF InterfacePeers
<1>5. CASE v[q] \in {q, NoRoute}
  <2>1. q \in peers
    BY <1>5 DEF InterfacePeers
  <2> QED
    BY <2>1, <1>2, <1>3, <1>4, <1>5
<1>6. CASE v[q] \notin {q, NoRoute}
  <2>1. q \notin peers
    BY <1>6 DEF InterfacePeers
  <2> QED
    BY <2>1, <1>1, <1>3, <1>4, <1>6
<1> QED
  BY <1>5, <1>6

-----------------------------------------------------------------------------
(* Before the loops nothing is chosen.                                     *)
LEMMA ChoiceStarts == ChoiceInit => ChoiceInv
<1> SUFFICES ASSUME ChoiceInit PROVE ChoiceInv
  OBVIOUS
<1>1. /\ Me \in DOMAIN devices /\ DOMAIN devices \subseteq DeviceNames
      /\ devices \in [DOMAIN devices -> NetworkDeviceCensored]
  BY RouteChoiceAssumption DEF ChoiceInit
<1>2. via = [p \in Others |-> NoRoute] /\ needs = <<>> /\ i = 1 /\ pc = "endpoints"
  BY DEF ChoiceInit
<1> QED
  BY <1>1, <1>2 DEF ChoiceInv, WaysBegin

(* Giving device p a way to x keeps every way beginning, if x is p or had  *)
(* a way before.                                                           *)
LEMMA WayGiven ==
    ASSUME NEW v, v = [p \in DOMAIN v |-> v[p]], WaysBegin(v), NoRoute \notin DOMAIN v,
           NEW p \in DOMAIN v, NEW x \in DOMAIN v, x = p \/ v[x] # NoRoute,
           NEW w, w = [v EXCEPT ![p] = x]
    PROVE  w = [q \in DOMAIN v |-> w[q]] /\ WaysBegin(w)
<1>1. w = [q \in DOMAIN v |-> w[q]] /\ w[p] = x /\ \A q \in DOMAIN v : q # p => w[q] = v[q]
  OBVIOUS
<1>2. ASSUME NEW q \in DOMAIN v, v[q] # NoRoute PROVE w[q] # NoRoute
  BY <1>1, <1>2
<1>3. w[x] # NoRoute
  BY <1>1
<1> QED
  BY <1>1, <1>2, <1>3 DEF WaysBegin

(* Every step of the loops keeps the ways valid.                           *)
LEMMA ChoiceStep == ChoiceInv /\ [ChoiceNext]_vars => ChoiceInv'
<1> SUFFICES ASSUME ChoiceInv, [ChoiceNext]_vars PROVE ChoiceInv'
  OBVIOUS
<1> USE DEF ChoiceInv
<1>1. NoRoute \notin DOMAIN via
  BY RoutesAssumption DEF Others
<1>2. CASE TryEndpoints
  <2> DEFINE p == DeviceOrder[i]
             e == ChooseEndpoint(scores[p])
  <2>1. devices' = devices /\ Others' = Others /\ i' \in Nat \ {0} /\ pc' # "done"
    BY <1>2 DEF TryEndpoints, Others
  <2>2. \/ via' = via /\ needs' = needs
        \/ p \in Others /\ via' = via /\ needs' = Append(needs, p)
        \/ p \in Others /\ via' = [via EXCEPT ![p] = p] /\ needs' = needs
    BY <1>2 DEF TryEndpoints
  <2>3. needs' \in Seq(Others)
    BY <2>2
  <2>4. via' = [q \in Others |-> via'[q]] /\ WaysBegin(via')
    BY <2>2, <1>1, WayGiven
  <2> QED
    BY <2>1, <2>3, <2>4
<1>3. CASE EndpointsTried
  BY <1>3 DEF EndpointsTried, Others
<1>4. CASE PickForwarder
  <2>1. devices' = devices /\ Others' = Others /\ i' \in Nat \ {0} /\ pc' # "done" /\ needs' = needs
    BY <1>4 DEF PickForwarder, Others
  <2>2. CASE via' = via
    BY <2>1, <2>2
  <2>3. ASSUME NEW f \in GetForwardersFor(devices, Chosen, needs[i]),
               via' = [via EXCEPT ![needs[i]] = f]
        PROVE  via' = [q \in Others |-> via'[q]] /\ WaysBegin(via')
    <3>1. f \in Others /\ via[f] # NoRoute
      BY DEF GetForwardersFor, Chosen
    <3>2. needs[i] \in Others
      BY <1>4 DEF PickForwarder
    <3> QED
      BY <2>3, <3>1, <3>2, <1>1, WayGiven
  <2> QED
    BY <1>4, <2>1, <2>2, <2>3 DEF PickForwarder
<1>5. CASE ForwardersPicked
  BY <1>5 DEF ForwardersPicked, Others
<1>6. CASE SetAccessible
  <2>1. /\ devices' = [devices EXCEPT ![Me].Accessible = Advertised]
        /\ pc' = "compile"
        /\ UNCHANGED <<i, needs, via>>
    BY <1>6 DEF SetAccessible
  <2>2. Advertised \in SUBSET DeviceNames
    BY DEF Advertised, Chosen, Others
  <2>3. devices[Me] \in NetworkDeviceCensored
    OBVIOUS
  <2>4. [devices[Me] EXCEPT !.Accessible = Advertised] \in NetworkDeviceCensored
    BY <2>2, <2>3 DEF NetworkDeviceCensored
  <2>5. DOMAIN devices' = DOMAIN devices /\ devices' \in [DOMAIN devices -> NetworkDeviceCensored]
    BY <2>1, <2>4
  <2> QED
    BY <2>1, <2>5 DEF Others
<1>7. CASE Compile
  BY <1>7 DEF Compile, Others
<1>8. CASE UNCHANGED vars
  BY <1>8 DEF vars, Others
<1> QED
  BY <1>2, <1>3, <1>4, <1>5, <1>6, <1>7, <1>8 DEF ChoiceNext

-----------------------------------------------------------------------------
(* The invariant gives the property.                                       *)
LEMMA InvRoutesOnce == ChoiceInv => RoutedOnce
<1> SUFFICES ASSUME ChoiceInv, pc = "done",
                    NEW q \in KeyedPeers(devices, Me),
                    NEW hosts, hosts = {p \in DOMAIN machine.Peers : q \in machine.Peers[p].AllowedIPs}
             PROVE  /\ \A p \in hosts : p = q \/ machine.Peers[p].Endpoint
                    /\ IF via[q] \in {q, NoRoute} THEN hosts = {q}
                       ELSE IF via[q] \in DOMAIN machine.Peers THEN hosts = {via[q]}
                       ELSE hosts = {}
  BY DEF RoutedOnce
<1>1. machine = CompileMachine(devices, via, Me) /\ DOMAIN devices \subseteq DeviceNames /\ WaysBegin(via)
  BY DEF ChoiceInv
<1>2. DOMAIN via = DOMAIN devices \ {Me}
  BY DEF ChoiceInv, Others
<1> QED
  BY <1>1, <1>2, CompiledOnce

(* RoutedOnce, for every view, every outcome of the pings and every pick   *)
(* of forwarders: in the interface CompileMachine returns to ReifySpec no  *)
(* device's addresses are given to two peers.                              *)
THEOREM DevicesRoutedOnce == ChoiceSpec => []RoutedOnce
<1>1. ChoiceSpec => []ChoiceInv
  BY ChoiceStarts, ChoiceStep, PTL DEF ChoiceSpec
<1> QED
  BY <1>1, InvRoutesOnce, PTL

-----------------------------------------------------------------------------
(* b is the loop's maxI after the first n endpoints.                       *)
BestOf(scored, n, b) ==
    /\ b \in 0..n
    /\ b = 0 => \A k \in 1..n : scored[k] = Unreachable
    /\ b # 0 =>
        /\ scored[b] # Unreachable
        /\ \A k \in 1..n : scored[k] # Unreachable =>
             scored[k] < scored[b] \/ (scored[k] = scored[b] /\ b <= k)

(* The next endpoint becomes the best one only if it scores more.          *)
LEMMA BestOfNext ==
    ASSUME NEW scored \in Seq(Nat \cup {Unreachable}), NEW n \in 1..Len(scored),
           NEW b, BestOf(scored, n - 1, b),
           NEW c, c = IF scored[n] # Unreachable /\ Better(scored, n, b) THEN n ELSE b
    PROVE  BestOf(scored, n, c)
<1>1. /\ n \in Nat \ {0} /\ n - 1 \in Nat /\ b \in 0..n - 1 /\ b \in 0..n /\ c \in 0..n
      /\ \A k \in 1..n : k \in 1..n - 1 \/ k = n
      /\ \A k \in 1..n : scored[k] # Unreachable => scored[k] \in Nat
  BY DEF BestOf
<1>2. CASE c = b /\ scored[n] = Unreachable
  BY <1>1, <1>2 DEF BestOf
<1>3. CASE c = b /\ scored[n] # Unreachable /\ ~Better(scored, n, b)
  <2>1. b # 0 /\ b \in 1..n /\ scored[b] \in Nat /\ ~(scored[n] > scored[b])
    BY <1>1, <1>3 DEF Better, BestOf
  <2>2. scored[n] < scored[b] \/ (scored[n] = scored[b] /\ b <= n)
    BY <1>1, <1>3, <2>1
  <2> QED
    BY <1>1, <1>3, <2>1, <2>2 DEF BestOf
<1>4. CASE c = n /\ scored[n] # Unreachable /\ Better(scored, n, b)
  <2>1. ASSUME NEW k \in 1..n - 1, scored[k] # Unreachable PROVE scored[k] < scored[n]
    <3>1. b # 0 /\ b \in 1..n /\ scored[b] \in Nat /\ scored[n] > scored[b]
      BY <1>1, <1>4, <2>1 DEF BestOf, Better
    <3>2. scored[k] <= scored[b] /\ scored[k] \in Nat /\ scored[n] \in Nat
      BY <1>1, <1>4, <2>1, <3>1 DEF BestOf
    <3> QED
      BY <3>1, <3>2
  <2> QED
    BY <1>1, <1>4, <2>1 DEF BestOf
<1> QED
  BY <1>2, <1>3, <1>4

(* ChooseEndpoint returns the first of the best, or none of those that     *)
(* answered.                                                               *)
LEMMA ChoosesBest ==
    ASSUME NEW scored \in Seq(Nat \cup {Unreachable})
    PROVE  BestOf(scored, Len(scored), ChooseEndpoint(scored))
<1> DEFINE n == Len(scored)
           next(b, k) == IF scored[k] # Unreachable /\ Better(scored, k, b) THEN k ELSE b
           best[k \in 0..Len(scored)] ==
               IF k = 0 THEN 0
               ELSE IF scored[k] # Unreachable /\ Better(scored, k, best[k - 1])
                    THEN k ELSE best[k - 1]
           step == [x \in (0..n) \X (1..n) |-> next(x[1], x[2])]
<1>1. n \in Nat /\ 0 \in 0..n
  OBVIOUS
<1>2. step \in [(0..n) \X (1..n) -> 0..n]
  OBVIOUS
<1>3. PICK f : IsHistory(f, n, 0..n, 0, step)
  <2>1. IsStep(step, n, 0..n)
    BY <1>2 DEF IsStep
  <2> HIDE DEF step, n
  <2> QED
    BY <1>1, <2>1, PrimitiveRecursion, Zenon
<1>4. ASSUME NEW k \in 1..n PROVE f[k] = next(f[k - 1], k)
  <2>1. k - 1 \in 0..n
    BY <1>1
  <2>2. f[k - 1] \in 0..n /\ f[k] = step[<<f[k - 1], k>>]
    <3> HIDE DEF step, n
    <3> QED
      BY <1>3, <2>1 DEF IsHistory
  <2> HIDE DEF n
  <2> QED
    BY <2>2
<1>5. f = [k \in 0..Len(scored) |->
               IF k = 0 THEN 0
               ELSE IF scored[k] # Unreachable /\ Better(scored, k, f[k - 1])
                    THEN k ELSE f[k - 1]]
  BY <1>3, <1>4 DEF IsHistory
<1>6. best = [k \in 0..Len(scored) |->
               IF k = 0 THEN 0
               ELSE IF scored[k] # Unreachable /\ Better(scored, k, best[k - 1])
                    THEN k ELSE best[k - 1]]
  BY <1>5, Zenon
<1>7. ChooseEndpoint(scored) = best[n]
  BY DEF ChooseEndpoint
<1> HIDE DEF best
<1> DEFINE S == {k \in 0..n : BestOf(scored, k, best[k])}
<1>8. 0 \in S
  BY <1>6 DEF BestOf
<1>9. ASSUME NEW k \in 0..n - 1, k \in S PROVE k + 1 \in S
  <2>1. k + 1 \in 1..n /\ k + 1 - 1 = k /\ k + 1 \in 0..n /\ k + 1 # 0
    BY <1>1, <1>9
  <2>2. best[k + 1] = next(best[k], k + 1)
    BY <1>6, <2>1
  <2> QED
    BY <1>9, <2>1, <2>2, BestOfNext
<1>10. n \in S
  <2> HIDE DEF S, n
  <2> QED
    <3>1. \A k \in 0..n - 1 : k \in S => k + 1 \in S
      BY <1>9
    <3>2. \A k \in 0..n : k \in S
      BY <1>1, <1>8, <3>1, BoundedInduction, Zenon
    <3> QED
      BY <1>1, <3>2
<1> QED
  BY <1>7, <1>10

-----------------------------------------------------------------------------
(* The others an endpoint of which answers.                                *)
Answered == {p \in Others : AnsweringEndpoints(p) # {}}

(* The first loop was at device p.                                         *)
Tried(p) ==
    /\ endpoint[p] = ChooseEndpoint(scores[p])
    /\ p \in Answered => via[p] = p
    /\ p \notin Answered => \E l \in DOMAIN needs : needs[l] = p

(* The second loop was at device q: it has one of the forwarders that had  *)
(* been chosen by then, if there were any.                                 *)
Picked(q) ==
    LET forwarders == GetForwardersFor(devices, ChosenBefore(via, Answered, q), q)
    IN IF forwarders = {} THEN via[q] = NoRoute ELSE via[q] \in forwarders

EndpointsLoop ==
    /\ i <= Len(DeviceOrder) + 1 /\ Len(needs) < i
    /\ \A k \in DOMAIN DeviceOrder :
         DeviceOrder[k] \in Others =>
             IF k < i THEN Tried(DeviceOrder[k])
             ELSE endpoint[DeviceOrder[k]] = 0 /\ via[DeviceOrder[k]] = NoRoute
    /\ \A l \in DOMAIN needs :
         via[needs[l]] = NoRoute /\ \E k \in DOMAIN DeviceOrder : k < i /\ needs[l] = DeviceOrder[k]

ForwardersLoop ==
    /\ i <= Len(needs) + 1
    /\ \A p \in Others : Tried(p)
    /\ \A j \in DOMAIN needs :
         IF pc = "forwarders" /\ i <= j THEN via[needs[j]] = NoRoute ELSE Picked(needs[j])

(* The inductive invariant of the two loops.                               *)
LoopInv ==
    /\ ChoiceInv
    /\ pc \in {"endpoints", "forwarders", "accessible", "compile", "done"}
    /\ scores \in [DeviceNames -> Seq(Nat \cup {Unreachable})]
    /\ endpoint \in [Others -> Nat] /\ via \in [Others -> Others \cup {NoRoute}]
    /\ machine # NotCompiled => pc = "done"
    /\ Len(needs) <= Len(DeviceOrder)
    /\ \A l, m \in DOMAIN needs : l < m => Before(needs[l], needs[m])
    /\ \A l \in DOMAIN needs : needs[l] \notin Answered
    /\ IF pc = "endpoints" THEN EndpointsLoop ELSE ForwardersLoop

-----------------------------------------------------------------------------
(* No device comes before itself, or before one that comes before it.      *)
LEMMA BeforeIsStrict ==
    ASSUME NEW p, NEW q, Before(p, q)
    PROVE  p # q /\ ~Before(q, p)
<1>1. PICK k, l \in DOMAIN DeviceOrder : k < l /\ DeviceOrder[k] = p /\ DeviceOrder[l] = q
  BY DEF Before
<1>2. DOMAIN DeviceOrder = 1..Len(DeviceOrder)
  BY RoutesAssumption
<1>3. p # q
  BY <1>1, <1>2, RoutesAssumption
<1>4. ASSUME Before(q, p) PROVE FALSE
  <2>1. PICK m, n \in DOMAIN DeviceOrder : m < n /\ DeviceOrder[m] = q /\ DeviceOrder[n] = p
    BY <1>4 DEF Before
  <2>2. m = l /\ n = k
    BY <1>1, <1>2, <2>1, RoutesAssumption
  <2> QED
    BY <1>1, <1>2, <2>1, <2>2
<1> QED
  BY <1>3, <1>4

(* What the scorer says decides whether a device is reached directly.      *)
LEMMA AnsweredHasEndpoint ==
    ASSUME NEW p \in Others, DOMAIN devices \subseteq DeviceNames,
           scores \in [DeviceNames -> Seq(Nat \cup {Unreachable})]
    PROVE  /\ ChooseEndpoint(scores[p]) \in Nat
           /\ p \in Answered <=> ChooseEndpoint(scores[p]) # 0
           /\ ChooseEndpoint(scores[p]) # 0 =>
                LET e == ChooseEndpoint(scores[p]) IN
                /\ e \in AnsweringEndpoints(p)
                /\ \A k \in AnsweringEndpoints(p) :
                     scores[p][k] < scores[p][e] \/ (scores[p][k] = scores[p][e] /\ e <= k)
<1> DEFINE scored == scores[p]
           e == ChooseEndpoint(scored)
<1>1. scored \in Seq(Nat \cup {Unreachable}) /\ DOMAIN scored = 1..Len(scored) /\ Len(scored) \in Nat
  BY DEF Others
<1>2. BestOf(scored, Len(scored), e)
  <2> HIDE DEF scored
  <2> QED
    BY <1>1, ChoosesBest
<1>3. AnsweringEndpoints(p) = {k \in 1..Len(scored) : scored[k] # Unreachable}
  BY <1>1 DEF AnsweringEndpoints
<1> HIDE DEF scored, e
<1>4. e \in 0..Len(scored) /\ (e # 0 => e \in 1..Len(scored))
  BY <1>1, <1>2 DEF BestOf
<1>5. /\ e # 0 <=> AnsweringEndpoints(p) # {}
      /\ e # 0 => /\ e \in AnsweringEndpoints(p)
                  /\ \A k \in AnsweringEndpoints(p) :
                       scored[k] < scored[e] \/ (scored[k] = scored[e] /\ e <= k)
  BY <1>1, <1>2, <1>3, <1>4 DEF BestOf
<1> QED
  BY <1>4, <1>5 DEF Answered, scored, e

(* Nothing has been tried at the start.                                    *)
LEMMA LoopStarts == ChoiceInit => LoopInv
<1> SUFFICES ASSUME ChoiceInit PROVE LoopInv
  OBVIOUS
<1>1. /\ ChoiceInv /\ pc = "endpoints" /\ i = 1 /\ needs = <<>> /\ machine = NotCompiled
      /\ endpoint = [p \in Others |-> 0] /\ via = [p \in Others |-> NoRoute]
      /\ scores \in Scorings
  BY ChoiceStarts DEF ChoiceInit
<1>2. scores \in [DeviceNames -> Seq(Nat \cup {Unreachable})]
  BY <1>1, RouteChoiceAssumption
<1>3. Len(DeviceOrder) \in Nat /\ DOMAIN DeviceOrder = 1..Len(DeviceOrder)
  BY RoutesAssumption
<1>4. EndpointsLoop
  BY <1>1, <1>3 DEF EndpointsLoop
<1> QED
  BY <1>1, <1>2, <1>3, <1>4 DEF LoopInv

(* The first loop moves on by one device.                                  *)
LEMMA LoopTry ==
    ASSUME LoopInv, TryEndpoints
    PROVE  LoopInv'
<1>0. PICK p, e : p = DeviceOrder[i] /\ e = ChooseEndpoint(scores[p])
  OBVIOUS
<1>1. /\ ChoiceInv' /\ pc = "endpoints" /\ pc' = "endpoints" /\ i \in DOMAIN DeviceOrder /\ i' = i + 1
      /\ DOMAIN DeviceOrder = 1..Len(DeviceOrder) /\ Len(DeviceOrder) \in Nat /\ i \in Nat
      /\ UNCHANGED <<devices, scores, machine>>
  <2>1. Len(DeviceOrder) \in Nat /\ DOMAIN DeviceOrder = 1..Len(DeviceOrder) /\ i \in Nat \ {0}
    BY RoutesAssumption DEF LoopInv, ChoiceInv
  <2>2. ChoiceInv'
    BY ChoiceStep DEF LoopInv, ChoiceNext
  <2> QED
    BY <2>1, <2>2 DEF LoopInv, TryEndpoints
<1>2. /\ Others' = Others /\ Answered' = Answered
      /\ \A q \in Others : q \in DeviceNames
      /\ needs \in Seq(Others) /\ Len(needs) \in Nat /\ DOMAIN needs = 1..Len(needs)
      /\ EndpointsLoop /\ DOMAIN devices \subseteq DeviceNames
      /\ scores \in [DeviceNames -> Seq(Nat \cup {Unreachable})]
      /\ endpoint \in [Others -> Nat] /\ via \in [Others -> Others \cup {NoRoute}]
      /\ machine # NotCompiled => pc = "done"
      /\ \A l, m \in DOMAIN needs : l < m => Before(needs[l], needs[m])
      /\ \A l \in DOMAIN needs : needs[l] \notin Answered
  BY <1>1 DEF LoopInv, ChoiceInv, Others, Answered, AnsweringEndpoints
<1>3. ASSUME NEW q \in Others
      PROVE  \E k \in DOMAIN DeviceOrder : DeviceOrder[k] = q
  BY <1>1, <1>2, RoutesAssumption
<1>4. ASSUME NEW k \in DOMAIN DeviceOrder, k # i PROVE DeviceOrder[k] # p
  BY <1>1, <1>4, <1>0, RoutesAssumption
<1>5. \A k \in DOMAIN DeviceOrder : k \in Nat /\ (k < i' <=> k < i \/ k = i)
  BY <1>1
<1>6. CASE p \notin Others
  <2>1. UNCHANGED <<endpoint, via, needs>>
    BY <1>6, <1>0 DEF TryEndpoints
  <2>2. \A q : Tried(q)' = Tried(q)
    BY <1>1, <1>2, <2>1 DEF Tried
  <2>3. EndpointsLoop'
    BY <1>1, <1>2, <1>5, <1>6, <1>0, <2>1, <2>2 DEF EndpointsLoop
  <2> QED
    BY <1>1, <1>2, <2>1, <2>3 DEF LoopInv
<1>7. CASE p \in Others /\ e # 0
  <2>1. /\ endpoint' = [endpoint EXCEPT ![p] = e] /\ via' = [via EXCEPT ![p] = p] /\ needs' = needs
    BY <1>7, <1>0 DEF TryEndpoints
  <2>2. e \in Nat /\ p \in Answered
    BY <1>2, <1>7, <1>0, AnsweredHasEndpoint
  <2>3. /\ endpoint' \in [Others -> Nat] /\ via' \in [Others -> Others \cup {NoRoute}]
        /\ endpoint'[p] = e /\ via'[p] = p
        /\ \A q \in Others \ {p} : endpoint'[q] = endpoint[q] /\ via'[q] = via[q]
    BY <1>2, <1>7, <2>1, <2>2
  <2>4. \A l \in DOMAIN needs : needs[l] # p /\ needs[l] \in Others
    BY <1>2, <2>2
  <2>5. Tried(p)'
    BY <1>1, <1>2, <1>0, <2>2, <2>3 DEF Tried
  <2>6. \A q \in Others \ {p} : Tried(q) => Tried(q)'
    BY <1>1, <1>2, <2>1, <2>3 DEF Tried
  <2>7. ASSUME NEW k \in DOMAIN DeviceOrder, DeviceOrder[k] \in Others'
        PROVE  IF k < i' THEN Tried(DeviceOrder[k])'
               ELSE endpoint'[DeviceOrder[k]] = 0 /\ via'[DeviceOrder[k]] = NoRoute
    BY <1>2, <1>4, <1>5, <1>0, <2>3, <2>5, <2>6, <2>7 DEF EndpointsLoop
  <2>8. EndpointsLoop'
    BY <1>1, <1>2, <1>5, <2>1, <2>3, <2>4, <2>7 DEF EndpointsLoop
  <2> QED
    BY <1>1, <1>2, <2>1, <2>3, <2>8 DEF LoopInv
<1>8. CASE p \in Others /\ e = 0
  <2>1. needs' = Append(needs, p) /\ endpoint' = endpoint /\ via' = via
    BY <1>8, <1>0 DEF TryEndpoints
  <2>2. p \notin Answered
    BY <1>2, <1>8, <1>0, AnsweredHasEndpoint
  <2>3. endpoint[p] = 0 /\ via[p] = NoRoute
    BY <1>1, <1>2, <1>8, <1>0 DEF EndpointsLoop
  <2>4. /\ DOMAIN needs' = 1..Len(needs) + 1 /\ Len(needs') = Len(needs) + 1
        /\ needs'[Len(needs) + 1] = p
        /\ \A l \in DOMAIN needs : needs'[l] = needs[l] /\ l \in DOMAIN needs'
        /\ \A l \in DOMAIN needs' : l \in DOMAIN needs \/ l = Len(needs) + 1
    BY <1>2, <1>8, <2>1
  <2>5. Tried(p)'
    BY <1>1, <1>2, <1>8, <1>0, <2>1, <2>2, <2>3, <2>4 DEF Tried
  <2>6. \A q \in Others \ {p} : Tried(q) => Tried(q)'
    BY <1>1, <1>2, <2>1, <2>4 DEF Tried
  <2>7. ASSUME NEW k \in DOMAIN DeviceOrder, DeviceOrder[k] \in Others'
        PROVE  IF k < i' THEN Tried(DeviceOrder[k])'
               ELSE endpoint'[DeviceOrder[k]] = 0 /\ via'[DeviceOrder[k]] = NoRoute
    BY <1>2, <1>4, <1>5, <1>0, <2>1, <2>5, <2>6, <2>7 DEF EndpointsLoop
  <2>8. \A l \in DOMAIN needs' :
          via'[needs'[l]] = NoRoute /\ \E k \in DOMAIN DeviceOrder : k < i' /\ needs'[l] = DeviceOrder[k]
    BY <1>1, <1>2, <1>5, <1>0, <2>1, <2>3, <2>4 DEF EndpointsLoop
  <2>9. EndpointsLoop'
    <3>1. i' <= Len(DeviceOrder) + 1 /\ Len(needs') < i'
      BY <1>1, <1>2, <2>4 DEF EndpointsLoop
    <3> QED
      BY <2>7, <2>8, <3>1 DEF EndpointsLoop
  <2>10. \A l, m \in DOMAIN needs' : l < m => Before(needs'[l], needs'[m])
    <3>1. ASSUME NEW l \in DOMAIN needs PROVE Before(needs[l], p)
      <4>1. PICK k \in DOMAIN DeviceOrder : k < i /\ needs[l] = DeviceOrder[k]
        BY <1>2, <3>1 DEF EndpointsLoop
      <4> QED
        BY <1>1, <1>0, <4>1 DEF Before
    <3>2. \A l, m \in DOMAIN needs' : l < m => l \in DOMAIN needs
      BY <1>2, <2>4
    <3> QED
      BY <1>2, <2>4, <3>1, <3>2
  <2>11. \A l \in DOMAIN needs' : needs'[l] \notin Answered'
    BY <1>2, <2>2, <2>4
  <2>12. Len(needs') <= Len(DeviceOrder)
    BY <1>1, <1>2, <2>4 DEF EndpointsLoop
  <2> QED
    BY <1>1, <1>2, <2>1, <2>9, <2>10, <2>11, <2>12 DEF LoopInv
<1> QED
  BY <1>6, <1>7, <1>8

(* The order of needs is that of the devices, so what was chosen when the  *)
(* second loop comes to a device is what ChosenBefore says of the result.  *)
LEMMA ChosenSoFar ==
    ASSUME LoopInv, pc = "forwarders", i \in DOMAIN needs
    PROVE  Chosen = ChosenBefore(via, Answered, needs[i])
<1>1. /\ DOMAIN needs = 1..Len(needs) /\ Len(needs) \in Nat /\ i \in Nat
      /\ \A l \in DOMAIN needs : needs[l] \in Others
      /\ DOMAIN via = Others /\ NoRoute \notin Others
      /\ ForwardersLoop /\ \A l, m \in DOMAIN needs : l < m => Before(needs[l], needs[m])
  <2>1. needs \in Seq(Others) /\ i \in Nat /\ via \in [Others -> Others \cup {NoRoute}]
    BY DEF LoopInv, ChoiceInv
  <2>2. NoRoute \notin Others
    BY RoutesAssumption DEF LoopInv, ChoiceInv, Others
  <2>3. ForwardersLoop /\ \A l, m \in DOMAIN needs : l < m => Before(needs[l], needs[m])
    BY DEF LoopInv
  <2> QED
    BY <2>1, <2>2, <2>3
<1>2. ASSUME NEW p \in Answered PROVE p \in Others /\ via[p] # NoRoute
  BY <1>1 DEF ForwardersLoop, Tried, Answered
<1>3. ASSUME NEW p \in Others \ Answered, via[p] # NoRoute PROVE Before(p, needs[i])
  <2>1. PICK l \in DOMAIN needs : needs[l] = p
    BY <1>1, <1>3 DEF ForwardersLoop, Tried
  <2>2. l < i
    BY <1>1, <1>3, <2>1 DEF ForwardersLoop
  <2> QED
    BY <1>1, <2>1, <2>2
<1> QED
  BY <1>1, <1>2, <1>3 DEF Chosen, ChosenBefore

(* The second loop moves on by one device.                                 *)
LEMMA LoopPick ==
    ASSUME LoopInv, PickForwarder
    PROVE  LoopInv'
<1>0. PICK q : q = needs[i]
  OBVIOUS
<1>1. /\ pc = "forwarders" /\ pc' = "forwarders" /\ i \in DOMAIN needs /\ i' = i + 1
      /\ DOMAIN needs = 1..Len(needs) /\ Len(needs) \in Nat /\ i \in Nat
      /\ UNCHANGED <<devices, scores, endpoint, needs, machine>>
  BY DEF LoopInv, ChoiceInv, PickForwarder
<1>2. /\ ChoiceInv' /\ Others' = Others /\ Answered' = Answered
      /\ \A l \in DOMAIN needs : needs[l] \in Others
      /\ ForwardersLoop /\ NoRoute \notin Others
      /\ via \in [Others -> Others \cup {NoRoute}]
      /\ \A l, m \in DOMAIN needs : l < m => Before(needs[l], needs[m])
      /\ \A l \in DOMAIN needs : needs[l] \notin Answered
  <2>1. ChoiceInv'
    BY ChoiceStep DEF LoopInv, ChoiceNext
  <2>2. NoRoute \notin Others
    BY RoutesAssumption DEF LoopInv, ChoiceInv, Others
  <2>3. needs \in Seq(Others)
    BY DEF LoopInv, ChoiceInv
  <2>4. Others' = Others /\ Answered' = Answered
    BY <1>1 DEF Others, Answered, AnsweringEndpoints
  <2> QED
    BY <1>1, <2>1, <2>2, <2>3, <2>4 DEF LoopInv
<1>3. PICK F : F = GetForwardersFor(devices, ChosenBefore(via, Answered, q), q)
  OBVIOUS
<1>4. /\ F \subseteq Others
      /\ IF F = {} THEN via' = via ELSE \E f \in F : via' = [via EXCEPT ![q] = f]
  <2>1. F = GetForwardersFor(devices, Chosen, needs[i])
    BY <1>0, <1>1, <1>3, ChosenSoFar
  <2> QED
    BY <1>0, <2>1 DEF PickForwarder, GetForwardersFor, Chosen
<1>5. q \in Others /\ q \notin Answered /\ via[q] = NoRoute
  BY <1>0, <1>1, <1>2 DEF ForwardersLoop
<1>6. /\ via' \in [Others -> Others \cup {NoRoute}]
      /\ \A p \in Others \ {q} : via'[p] = via[p]
      /\ IF F = {} THEN via'[q] = NoRoute ELSE via'[q] \in F
  BY <1>2, <1>4, <1>5
<1>7. ASSUME NEW p, ~Before(q, p)
      PROVE  ChosenBefore(via', Answered, p) = ChosenBefore(via, Answered, p)
  BY <1>2, <1>5, <1>6, <1>7 DEF ChosenBefore
<1>8. ASSUME NEW j \in DOMAIN needs
      PROVE  IF i' <= j THEN via'[needs[j]] = NoRoute ELSE Picked(needs[j])'
  <2>1. j \in Nat /\ needs[j] \in Others
    BY <1>1, <1>2
  <2>2. CASE i' <= j
    <3>1. i < j /\ Before(q, needs[j])
      BY <1>0, <1>1, <1>2, <2>1, <2>2
    <3>2. needs[j] # q
      BY <3>1, BeforeIsStrict
    <3> QED
      BY <1>1, <1>2, <1>6, <2>1, <2>2, <3>1, <3>2 DEF ForwardersLoop
  <2>3. CASE j = i
    <3>1. ~Before(q, q)
      BY BeforeIsStrict
    <3>2. ChosenBefore(via', Answered', q) = ChosenBefore(via, Answered, q)
      BY <1>2, <1>7, <3>1
    <3>3. Picked(q)'
      BY <1>1, <1>3, <1>6, <3>2 DEF Picked
    <3>4. i' <= j => FALSE
      BY <1>1, <2>3
    <3> QED
      BY <1>0, <1>1, <2>3, <3>3, <3>4 DEF Picked
  <2>4. CASE j < i
    <3>1. Before(needs[j], q)
      BY <1>0, <1>1, <1>2, <2>4
    <3>2. needs[j] # q /\ ~Before(q, needs[j])
      BY <3>1, BeforeIsStrict
    <3>3. Picked(needs[j])
      BY <1>1, <1>2, <2>1, <2>4 DEF ForwardersLoop
    <3>4. ChosenBefore(via', Answered', needs[j]) = ChosenBefore(via, Answered, needs[j])
      BY <1>2, <1>7, <3>2
    <3>5. via'[needs[j]] = via[needs[j]]
      BY <1>6, <2>1, <3>2
    <3>6. Picked(needs[j])'
      BY <1>1, <3>3, <3>4, <3>5 DEF Picked
    <3> QED
      BY <1>1, <2>1, <2>4, <3>6
  <2> QED
    BY <1>1, <2>1, <2>2, <2>3, <2>4
<1>9. \A p \in Others : Tried(p)'
  <2>1. \A p \in Others : Tried(p) /\ (p \in Answered => via'[p] = via[p])
    BY <1>2, <1>5, <1>6 DEF ForwardersLoop
  <2> QED
    BY <1>1, <1>2, <2>1 DEF Tried
<1>10. ForwardersLoop'
  BY <1>1, <1>2, <1>8, <1>9 DEF ForwardersLoop
<1> QED
  BY <1>1, <1>2, <1>6, <1>10 DEF LoopInv

(* The rest of the function changes neither the choices nor what they were *)
(* made from.                                                              *)
LEMMA LoopRest ==
    ASSUME LoopInv,
           EndpointsTried \/ ForwardersPicked \/ SetAccessible \/ Compile \/ UNCHANGED vars
    PROVE  LoopInv'
<1>1. ChoiceInv' /\ Others' = Others
  BY ChoiceStep DEF LoopInv, ChoiceInv, ChoiceNext, EndpointsTried, ForwardersPicked, SetAccessible,
                    Compile, vars, Others
<1>2. /\ UNCHANGED <<scores, endpoint, via, needs>> /\ Answered' = Answered
  BY <1>1 DEF EndpointsTried, ForwardersPicked, SetAccessible, Compile, vars, Answered, AnsweringEndpoints
<1>3. \A p : Tried(p)' = Tried(p)
  BY <1>2 DEF Tried
<1>4. DOMAIN needs = 1..Len(needs) /\ Len(needs) \in Nat /\ i \in Nat \ {0} /\ DOMAIN via = Others
      /\ Len(DeviceOrder) \in Nat
  BY RoutesAssumption DEF LoopInv, ChoiceInv
<1>5. CASE EndpointsTried
  <2>1. pc = "endpoints" /\ pc' = "forwarders" /\ i' = 1 /\ i > Len(DeviceOrder) /\ UNCHANGED <<devices, machine>>
    BY <1>5 DEF EndpointsTried
  <2>2. ASSUME NEW p \in Others PROVE Tried(p)
    <3>1. PICK k \in DOMAIN DeviceOrder : DeviceOrder[k] = p
      BY <2>2, OthersInOrder DEF LoopInv
    <3>2. k < i
      BY <1>4, <2>1, <3>1, RoutesAssumption
    <3> QED
      BY <2>1, <2>2, <3>1, <3>2 DEF LoopInv, EndpointsLoop
  <2>3. ForwardersLoop'
    BY <1>1, <1>2, <1>3, <1>4, <2>1, <2>2 DEF LoopInv, EndpointsLoop, ForwardersLoop
  <2> QED
    BY <1>1, <1>2, <2>1, <2>3 DEF LoopInv
<1>6. CASE ForwardersPicked \/ Compile \/ UNCHANGED vars
  <2>1. /\ UNCHANGED <<devices, i>> /\ (pc' = "endpoints" <=> pc = "endpoints")
        /\ pc' \in {"endpoints", "forwarders", "accessible", "compile", "done"}
        /\ pc' = "forwarders" => pc = "forwarders"
        /\ pc = "forwarders" /\ pc' # pc => i > Len(needs)
        /\ machine' # NotCompiled => pc' = "done"
    BY <1>6 DEF ForwardersPicked, Compile, vars, LoopInv
  <2>2. \A q : Picked(q)' = Picked(q)
    BY <1>2, <2>1 DEF Picked
  <2>3. CASE pc = "endpoints"
    <3>1. EndpointsLoop'
      BY <1>1, <1>2, <1>3, <2>1, <2>3 DEF EndpointsLoop, LoopInv
    <3> QED
      BY <1>1, <1>2, <2>1, <2>3, <3>1 DEF LoopInv
  <2>4. CASE pc # "endpoints"
    <3>1. ASSUME NEW j \in DOMAIN needs
          PROVE  IF pc' = "forwarders" /\ i <= j THEN via[needs[j]] = NoRoute ELSE Picked(needs[j])
      BY <1>4, <2>1, <2>4 DEF ForwardersLoop, LoopInv
    <3>2. ForwardersLoop'
      BY <1>1, <1>2, <1>3, <2>1, <2>2, <2>4, <3>1 DEF ForwardersLoop, LoopInv
    <3> QED
      BY <1>1, <1>2, <2>1, <2>4, <3>2 DEF LoopInv
  <2> QED
    BY <2>3, <2>4
<1>7. CASE SetAccessible
  <2>1. pc = "accessible" /\ pc' = "compile" /\ UNCHANGED <<i, machine>>
        /\ devices' = [devices EXCEPT ![Me].Accessible = Advertised]
    BY <1>7 DEF SetAccessible
  <2>2. DOMAIN devices' = DOMAIN devices /\ \A p \in Others : devices'[p] = devices[p]
    BY <2>1 DEF Others
  <2>3. \A q : GetForwardersFor(devices', ChosenBefore(via, Answered, q), q)
                 = GetForwardersFor(devices, ChosenBefore(via, Answered, q), q)
    <3>1. \A q : ChosenBefore(via, Answered, q) \subseteq Others
      BY <1>4 DEF ChosenBefore
    <3> QED
      BY <2>2, <3>1 DEF GetForwardersFor
  <2>4. \A q : Picked(q)' = Picked(q)
    BY <1>2, <2>3 DEF Picked
  <2>5. ForwardersLoop'
    BY <1>1, <1>2, <1>3, <2>1, <2>4 DEF ForwardersLoop, LoopInv
  <2> QED
    BY <1>1, <1>2, <2>1, <2>5 DEF LoopInv
<1> QED
  BY <1>5, <1>6, <1>7

(* The loops keep their invariant, whatever answers and whoever is picked. *)
LEMMA LoopAlways == ChoiceSpec => []LoopInv
<1>1. LoopInv /\ [ChoiceNext]_vars => LoopInv'
  BY LoopTry, LoopPick, LoopRest DEF ChoiceNext
<1> QED
  BY <1>1, LoopStarts, PTL DEF ChoiceSpec

-----------------------------------------------------------------------------
(* The loops' counters and choices have their types, the counter also at   *)
(* the end of a list that is empty.                                        *)
THEOREM ChoiceTypeCorrect == ChoiceSpec => []ChoiceTypeOK
<1>1. LoopInv => ChoiceTypeOK
  <2> SUFFICES ASSUME LoopInv PROVE ChoiceTypeOK
    OBVIOUS
  <2>1. IsChoice(via)
    <3>1. via \in [Others -> Others \cup {NoRoute}] /\ Others \subseteq DeviceNames
      BY DEF LoopInv, ChoiceInv, Others
    <3> QED
      BY <3>1 DEF IsChoice
  <2>2. i \in 1..Len(DeviceOrder) + 1
    <3>1. i \in Nat \ {0} /\ Len(DeviceOrder) \in Nat /\ Len(needs) \in Nat /\ Len(needs) <= Len(DeviceOrder)
      BY RoutesAssumption DEF LoopInv, ChoiceInv
    <3>2. i <= Len(DeviceOrder) + 1 \/ i <= Len(needs) + 1
      BY DEF LoopInv, EndpointsLoop, ForwardersLoop
    <3> QED
      BY <3>1, <3>2
  <2> QED
    BY <2>1, <2>2 DEF LoopInv, ChoiceInv, ChoiceTypeOK
<1> QED
  BY <1>1, LoopAlways, PTL

(* chooseEndpoints ends with a choice the protocol model allows: nobody    *)
(* with an answering endpoint is sent through a forwarder, and nobody that *)
(* has a forwarder is left without one, though the second loop adds        *)
(* forwarders while it looks for them.                                     *)
THEOREM ChoicesAreValid == ChoiceSpec => []ChoiceIsValid
<1>1. LoopInv => ChoiceIsValid
  <2> SUFFICES ASSUME LoopInv, pc \in {"accessible", "compile", "done"} PROVE ChoiceIsValid
    BY DEF ChoiceIsValid
  <2>1. ForwardersLoop /\ via \in [Others -> Others \cup {NoRoute}]
    BY DEF LoopInv
  <2>2. ASSUME NEW p \in Others PROVE IF p \in Answered THEN via[p] = p ELSE Picked(p)
    <3>1. CASE p \notin Answered
      <4>1. PICK l \in DOMAIN needs : needs[l] = p
        BY <2>1, <3>1 DEF ForwardersLoop, Tried
      <4> QED
        BY <2>1, <3>1, <4>1 DEF ForwardersLoop
    <3> QED
      BY <2>1, <3>1 DEF ForwardersLoop, Tried
  <2> QED
    BY <2>1, <2>2 DEF ChoiceIsValid, ValidChoice, Picked, Answered
<1> QED
  BY <1>1, LoopAlways, PTL

(* A device's endpoint was tried, or it has none yet.                      *)
LEMMA EndpointTried ==
    ASSUME LoopInv, NEW p \in Others
    PROVE  Tried(p) \/ (pc = "endpoints" /\ endpoint[p] = 0 /\ via[p] = NoRoute)
<1>1. PICK k \in DOMAIN DeviceOrder : DeviceOrder[k] = p
  BY OthersInOrder DEF LoopInv
<1> QED
  BY <1>1 DEF LoopInv, EndpointsLoop, ForwardersLoop

(* However many endpoints answer, and whatever they score, the first of    *)
(* the best is the one that is used.                                       *)
THEOREM FirstBestChosen == ChoiceSpec => []FirstBestEndpoint
<1>1. LoopInv => FirstBestEndpoint
  <2> SUFFICES ASSUME LoopInv, NEW p \in Others, endpoint[p] # 0
               PROVE  /\ endpoint[p] \in AnsweringEndpoints(p)
                      /\ \A e \in AnsweringEndpoints(p) :
                           scores[p][e] < scores[p][endpoint[p]]
                             \/ (scores[p][e] = scores[p][endpoint[p]] /\ endpoint[p] <= e)
    BY DEF FirstBestEndpoint
  <2>1. endpoint[p] = ChooseEndpoint(scores[p])
    BY EndpointTried DEF Tried
  <2>2. DOMAIN devices \subseteq DeviceNames /\ scores \in [DeviceNames -> Seq(Nat \cup {Unreachable})]
    BY DEF LoopInv, ChoiceInv
  <2> QED
    BY <2>1, <2>2, AnsweredHasEndpoint
<1> QED
  BY <1>1, LoopAlways, PTL

-----------------------------------------------------------------------------
(* A chosen device has an endpoint, or its forwarder is chosen too and     *)
(* comes before it in needs, or has an endpoint.                           *)
LEMMA WayAhead ==
    ASSUME LoopInv, NEW p \in Others, via[p] # NoRoute
    PROVE  /\ via[p] \in Others /\ via[via[p]] # NoRoute
           /\ p \in Answered => via[p] = p /\ endpoint[p] # 0
           /\ p \notin Answered =>
                \E l \in DOMAIN needs :
                  /\ needs[l] = p
                  /\ via[p] \in Answered \/ \E m \in DOMAIN needs : m < l /\ needs[m] = via[p]
<1>1. /\ via \in [Others -> Others \cup {NoRoute}] /\ WaysBegin(via)
      /\ DOMAIN devices \subseteq DeviceNames /\ scores \in [DeviceNames -> Seq(Nat \cup {Unreachable})]
      /\ \A l, m \in DOMAIN needs : l < m => Before(needs[l], needs[m])
  BY DEF LoopInv, ChoiceInv
<1>2. via[p] \in Others /\ via[via[p]] # NoRoute
  BY <1>1 DEF WaysBegin
<1>3. Tried(p) /\ Tried(via[p])
  BY <1>2, EndpointTried
<1>4. CASE p \in Answered
  BY <1>1, <1>2, <1>3, <1>4, AnsweredHasEndpoint DEF Tried
<1>5. CASE p \notin Answered
  <2>1. PICK l \in DOMAIN needs : needs[l] = p
    BY <1>3, <1>5 DEF Tried
  <2>2. ForwardersLoop /\ Picked(p)
    BY <2>1 DEF LoopInv, EndpointsLoop, ForwardersLoop
  <2>3. via[p] \in Answered \/ Before(via[p], p)
    BY <1>1, <1>2, <2>2 DEF Picked, GetForwardersFor, ChosenBefore
  <2>4. ASSUME via[p] \notin Answered PROVE \E m \in DOMAIN needs : m < l /\ needs[m] = via[p]
    <3>1. PICK m \in DOMAIN needs : needs[m] = via[p]
      BY <1>3, <2>4 DEF Tried
    <3>2. Before(needs[m], needs[l])
      BY <2>1, <2>3, <2>4, <3>1
    <3>3. ~(l < m) /\ l # m
      BY <1>1, <3>2, BeforeIsStrict
    <3>4. l \in Nat /\ m \in Nat
      BY DEF LoopInv, ChoiceInv
    <3> QED
      BY <3>1, <3>3, <3>4
  <2> QED
    BY <1>2, <1>5, <2>1, <2>4
<1> QED
  BY <1>4, <1>5

(* No more devices need a forwarder than there are.                        *)
LEMMA NeedsAreFew ==
    ASSUME LoopInv
    PROVE  Cardinality(Others) \in Nat /\ Len(needs) \in Nat /\ Len(needs) <= Cardinality(Others)
<1> DEFINE n == Len(DeviceOrder)
<1>1. n \in Nat /\ DeviceOrder \in [1..n -> DeviceNames] /\ DeviceNames = {DeviceOrder[k] : k \in 1..n}
  BY RoutesAssumption
<1>2. IsFiniteSet(DeviceNames)
  <2>1. DeviceOrder \in Surjection(1..n, DeviceNames)
    BY <1>1 DEF Surjection
  <2>2. IsFiniteSet(1..n)
    BY <1>1, FS_Interval
  <2> QED
    BY <2>1, <2>2, FS_Surjection
<1>3. IsFiniteSet(Others) /\ Cardinality(Others) \in Nat
  <2>1. Others \in SUBSET DeviceNames
    BY DEF LoopInv, ChoiceInv, Others
  <2> QED
    BY <1>2, <2>1, FS_Subset, FS_CardinalityType
<1>4. /\ needs \in [1..Len(needs) -> Others] /\ Len(needs) \in Nat /\ DOMAIN needs = 1..Len(needs)
      /\ \A l, m \in DOMAIN needs : l < m => Before(needs[l], needs[m])
  BY DEF LoopInv, ChoiceInv
<1>5. IsFiniteSet(1..Len(needs)) /\ Cardinality(1..Len(needs)) = Len(needs)
  <2>1. 1 \in Int /\ Len(needs) \in Int
    BY <1>4
  <2>2. /\ IsFiniteSet(1..Len(needs))
        /\ Cardinality(1..Len(needs)) = IF 1 > Len(needs) THEN 0 ELSE Len(needs) - 1 + 1
    BY <2>1, FS_Interval
  <2> QED
    BY <1>4, <2>2
<1>6. ASSUME NEW l \in 1..Len(needs), NEW m \in 1..Len(needs), l # m PROVE needs[l] # needs[m]
  <2>1. l < m \/ m < l
    BY <1>4, <1>6
  <2> QED
    BY <1>4, <2>1, BeforeIsStrict
<1>7. ~(Cardinality(Others) < Cardinality(1..Len(needs)))
  BY <1>3, <1>4, <1>5, <1>6, FS_PigeonHole
<1> QED
  BY <1>3, <1>4, <1>5, <1>7

(* From any chosen device the forwarders lead to one with an endpoint: a   *)
(* device reached through needsForwarders only leans on those before it.   *)
THEOREM ForwardersLead == ChoiceSpec => []ForwardersLeadThere
<1>1. ASSUME LoopInv, NEW p \in Others, via[p] # NoRoute
      PROVE  LET hop[k \in 0..Cardinality(Others)] ==
                     IF k = 0 THEN p
                     ELSE IF hop[k - 1] = NoRoute THEN NoRoute ELSE via[hop[k - 1]]
                 end == hop[Cardinality(Others)]
             IN end # NoRoute /\ via[end] = end /\ endpoint[end] # 0
  <2> DEFINE c == Cardinality(Others)
             next(h) == IF h = NoRoute THEN NoRoute ELSE via[h]
             hop[k \in 0..Cardinality(Others)] ==
                 IF k = 0 THEN p
                 ELSE IF hop[k - 1] = NoRoute THEN NoRoute ELSE via[hop[k - 1]]
             S == Others \cup {NoRoute}
             step == [x \in S \X (1..c) |-> next(x[1])]
  <2>1. c \in Nat /\ p \in S /\ Len(needs) \in Nat /\ Len(needs) <= c
    BY <1>1, NeedsAreFew
  <2>2. via \in [Others -> S] /\ NoRoute \notin Others
    BY <1>1, RoutesAssumption DEF LoopInv, ChoiceInv, Others
  <2>3. PICK f : IsHistory(f, c, S, p, step)
    <3>1. IsStep(step, c, S)
      <4> HIDE DEF S, c
      <4>1. \A h \in S : next(h) \in S
        BY <2>2 DEF S
      <4> QED
        BY <4>1 DEF IsStep
    <3> HIDE DEF step, c, S
    <3> QED
      BY <2>1, <3>1, PrimitiveRecursion, Zenon
  <2>4. ASSUME NEW k \in 1..c PROVE f[k] = next(f[k - 1])
    <3>1. k - 1 \in 0..c
      BY <2>1
    <3>2. f[k - 1] \in S /\ f[k] = step[<<f[k - 1], k>>]
      <4> HIDE DEF step, c, S
      <4> QED
        BY <2>3, <3>1 DEF IsHistory
    <3> HIDE DEF c, S
    <3> QED
      BY <3>2
  <2>5. f = [k \in 0..Cardinality(Others) |->
               IF k = 0 THEN p
               ELSE IF f[k - 1] = NoRoute THEN NoRoute ELSE via[f[k - 1]]]
    BY <2>3, <2>4 DEF IsHistory
  <2>6. hop = [k \in 0..Cardinality(Others) |->
               IF k = 0 THEN p
               ELSE IF hop[k - 1] = NoRoute THEN NoRoute ELSE via[hop[k - 1]]]
    BY <2>5, Zenon
  <2> HIDE DEF hop
  <2> DEFINE Near(k, h) ==
               /\ h \in Others /\ via[h] # NoRoute
               /\ h \in Answered \/ \E l \in DOMAIN needs : needs[l] = h /\ l + k <= Len(needs)
             T == {k \in 0..c : Near(k, hop[k])}
  <2>7. DOMAIN needs = 1..Len(needs)
    BY <1>1 DEF LoopInv, ChoiceInv
  <2>8. 0 \in T
    <3>1. Near(0, p)
      BY <1>1, <2>1, <2>7, WayAhead
    <3> HIDE DEF Near
    <3> QED
      BY <2>1, <2>6, <3>1
  <2>9. ASSUME NEW k \in 0..c - 1, k \in T PROVE k + 1 \in T
    <3> DEFINE h == hop[k]
    <3>1. k + 1 \in 0..c /\ k + 1 # 0 /\ k + 1 - 1 = k /\ k \in Nat /\ Near(k, h)
      BY <2>1, <2>9
    <3>2. hop[k + 1] = via[h]
      <4>1. hop[k + 1] = IF hop[k] = NoRoute THEN NoRoute ELSE via[hop[k]]
        <5>1. \A j \in 0..c : hop[j] = IF j = 0 THEN p
                                      ELSE IF hop[j - 1] = NoRoute THEN NoRoute ELSE via[hop[j - 1]]
          BY <2>6
        <5> HIDE DEF c
        <5> QED
          BY <3>1, <5>1
      <4>2. hop[k] # NoRoute
        BY <2>2, <3>1
      <4> QED
        BY <4>1, <4>2
    <3>3. h \in Others /\ via[h] # NoRoute
      BY <3>1
    <3> HIDE DEF h
    <3>4. via[h] \in Others /\ via[via[h]] # NoRoute
      BY <1>1, <3>3, WayAhead
    <3>5. CASE h \in Answered
      BY <1>1, <3>1, <3>2, <3>3, <3>4, <3>5, WayAhead
    <3>6. CASE h \notin Answered
      <4>1. PICK l \in DOMAIN needs :
              /\ needs[l] = h
              /\ via[h] \in Answered \/ \E m \in DOMAIN needs : m < l /\ needs[m] = via[h]
        BY <1>1, <3>3, <3>6, WayAhead
      <4>2. PICK l2 \in DOMAIN needs : needs[l2] = h /\ l2 + k <= Len(needs)
        BY <3>1, <3>6
      <4>3. l = l2
        <5>1. \A x, y \in DOMAIN needs : x < y => needs[x] # needs[y]
          BY <1>1, BeforeIsStrict DEF LoopInv
        <5>2. l \in Nat /\ l2 \in Nat /\ ~(l < l2) /\ ~(l2 < l)
          BY <2>7, <4>1, <4>2, <5>1
        <5> QED
          BY <5>2
      <4>4. \A m \in DOMAIN needs : m < l => m + (k + 1) <= Len(needs)
        BY <2>1, <2>7, <3>1, <4>2, <4>3
      <4> QED
        BY <3>1, <3>2, <3>4, <4>1, <4>4
    <3> QED
      BY <3>5, <3>6
  <2>10. c \in T
    <3> HIDE DEF T, c
    <3>1. \A k \in 0..c - 1 : k \in T => k + 1 \in T
      BY <2>9
    <3>2. \A k \in 0..c : k \in T
      BY <2>1, <2>8, <3>1, BoundedInduction, Zenon
    <3> QED
      BY <2>1, <3>2
  <2>11. hop[c] \in Others /\ via[hop[c]] # NoRoute /\ hop[c] \in Answered
    <3>1. Near(c, hop[c])
      BY <2>10
    <3>2. \A l \in DOMAIN needs : ~(l + c <= Len(needs))
      BY <2>1, <2>7
    <3> QED
      BY <3>1, <3>2
  <2>12. hop[c] # NoRoute /\ via[hop[c]] = hop[c] /\ endpoint[hop[c]] # 0
    BY <1>1, <2>2, <2>11, WayAhead
  <2> QED
    BY <2>12 DEF hop
<1>2. LoopInv => ForwardersLeadThere
  BY <1>1, Zenon DEF ForwardersLeadThere
<1> QED
  BY <1>2, LoopAlways, PTL
==============================================================================
