--------------------------- MODULE DeviceHostProofs ---------------------------
(***************************************************************************)
(* For any number of networks, any views and any disturbances: what the    *)
(* clients on one machine agree on, although each works for itself.        *)
(***************************************************************************)
EXTENDS DeviceHost, AlgorithmsProofs

(* Where the clients are, and with which views.                            *)
ControlInv ==
    /\ view \in [Networks -> AllViews] /\ \A n \in Networks : view[n] \in Views[n]
    /\ pc \in [Networks -> PCs]
    /\ running \in [Networks -> AllViews \cup {NoView}]
    /\ \A n \in Networks : running[n] = NoView \/ running[n] \in HeldViews(n)
    /\ \A n \in Networks : pc[n] \notin {"fetch", "dead"} => running[n] # NoView
    /\ oldForward \in [Networks -> BOOLEAN]
    /\ ipForward \in BOOLEAN
    /\ served = NotServed \/ \E n \in Networks : served \in HeldViews(n)
    /\ \A n \in Networks : pc[n] \notin {"fetch", "dns", "dead"} => served # NotServed
    /\ left \in 0..MaxDisturbances

(* A view of this machine that is sorted stays one, and only the addresses *)
(* of the machine itself have changed.                                     *)
LEMMA SortedView ==
    ASSUME NEW v, IsNetworkCensored(v), v.CensoredFor = Me, Me \in DOMAIN v.Devices
    PROVE  /\ IsNetworkCensored(OwnSorted(v))
           /\ OwnSorted(v).Name = v.Name /\ OwnSorted(v).CensoredFor = Me
           /\ DOMAIN OwnSorted(v).Devices = DOMAIN v.Devices
           /\ \A p \in DOMAIN v.Devices \ {Me} : OwnSorted(v).Devices[p] = v.Devices[p]
           /\ OwnSorted(v).Devices[Me].Settings = v.Devices[Me].Settings
           /\ OwnSorted(v).Devices[Me].Addresses = Sorted[v.Devices[Me].Addresses]
           /\ OwnSorted(OwnSorted(v)) = OwnSorted(v)
<1> DEFINE ds == v.Devices
           own == ds[Me]
           as == Sorted[own.Addresses]
           sorted == [own EXCEPT !.Addresses = as]
           w == [v EXCEPT !.Devices = [ds EXCEPT ![Me] = sorted]]
<1>1. /\ v = [Name |-> v.Name, CensoredFor |-> v.CensoredFor, Devices |-> ds]
      /\ v.Name \in NetworkNames /\ DOMAIN ds \subseteq DeviceNames
      /\ ds \in [DOMAIN ds -> NetworkDeviceCensored]
  BY DEF IsNetworkCensored
<1>2. own \in NetworkDeviceCensored
  BY <1>1
<1>3. as \in AddressLists /\ Sorted[as] = as
  <2>1. own.Addresses \in AddressLists /\ own.Addresses \in Seq(Nat)
    BY <1>2, HostAssumption DEF NetworkDeviceCensored
  <2>2. as \in Seq(Nat) /\ \A i, j \in DOMAIN as : i <= j => as[i] <= as[j]
    <3>1. /\ as \in Seq(Nat) /\ Len(as) = Len(own.Addresses)
          /\ \A i, j \in DOMAIN own.Addresses : i <= j => as[i] <= as[j]
      BY <2>1, SortedIsSorted
    <3> HIDE DEF as, own
    <3>2. DOMAIN as = DOMAIN own.Addresses
      BY <2>1, <3>1, SeqDomain
    <3> QED
      BY <3>1, <3>2
  <2> HIDE DEF as
  <2> QED
    BY <2>1, <2>2, SortedStays, HostAssumption DEF as
<1>4. OwnSorted(v) = w
  BY Zenon DEF OwnSorted
<1> HIDE DEF own, as
<1>5. /\ sorted \in NetworkDeviceCensored /\ sorted.Settings = own.Settings
      /\ sorted.Addresses = as /\ [sorted EXCEPT !.Addresses = as] = sorted
  BY <1>2, <1>3 DEF NetworkDeviceCensored
<1> HIDE DEF sorted
<1> DEFINE es == [ds EXCEPT ![Me] = sorted]
<1>6. /\ es \in [DOMAIN ds -> NetworkDeviceCensored] /\ DOMAIN es = DOMAIN ds
      /\ es[Me] = sorted /\ \A p \in DOMAIN ds \ {Me} : es[p] = ds[p]
      /\ [es EXCEPT ![Me] = sorted] = es
  BY <1>1, <1>5
<1> HIDE DEF es
<1>7. w = [Name |-> v.Name, CensoredFor |-> Me, Devices |-> es]
  BY <1>1 DEF es
<1>8. w.Devices = es /\ w.Name = v.Name /\ w.CensoredFor = Me
  BY <1>7
<1> HIDE DEF w
<1>9. IsNetworkCensored(w)
  <2>1. Me \in DeviceNames
    BY <1>1
  <2> QED
    BY <1>1, <1>6, <1>7, <1>8, <2>1 DEF IsNetworkCensored
<1>10. OwnSorted(w) = w
  <2>1. OwnSorted(w) = [w EXCEPT !.Devices = [w.Devices EXCEPT
                          ![Me] = [w.Devices[Me] EXCEPT !.Addresses = Sorted[w.Devices[Me].Addresses]]]]
    BY Zenon DEF OwnSorted
  <2>2. w.Devices[Me] = sorted /\ sorted.Addresses = as
    BY <1>5, <1>6, <1>8
  <2>3. OwnSorted(w) = [w EXCEPT !.Devices = [es EXCEPT ![Me] = [sorted EXCEPT !.Addresses = as]]]
    BY <1>3, <1>8, <2>1, <2>2
  <2>4. OwnSorted(w) = [w EXCEPT !.Devices = es]
    BY <1>5, <1>6, <2>3
  <2> QED
    BY <1>7, <2>4
<1> QED
  BY <1>4, <1>5, <1>6, <1>8, <1>9, <1>10 DEF as, own

(* A view of a network, sorted or not, has its name and is for this        *)
(* machine.                                                                *)
LEMMA ViewsAreViews ==
    \A n \in Networks : \A v \in HeldViews(n) :
        /\ v \in AllViews /\ v # NoView /\ v.Name = n /\ v.CensoredFor = Me /\ Me \in DOMAIN v.Devices
        /\ IsNetworkCensored(v)
        /\ OwnSorted(v) \in HeldViews(n) /\ OwnSorted(v).Name = n
<1> SUFFICES ASSUME NEW n \in Networks, NEW v \in HeldViews(n)
             PROVE  /\ v \in AllViews /\ v # NoView /\ v.Name = n /\ v.CensoredFor = Me
                    /\ Me \in DOMAIN v.Devices /\ IsNetworkCensored(v)
                    /\ OwnSorted(v) \in HeldViews(n) /\ OwnSorted(v).Name = n
  OBVIOUS
<1>1. PICK u \in Views[n] : v = u \/ v = OwnSorted(u)
  BY DEF HeldViews
<1>2. IsNetworkCensored(u) /\ u.Name = n /\ u.CensoredFor = Me /\ Me \in DOMAIN u.Devices
  BY HostAssumption
<1>3. OwnSorted(u) \in HeldViews(n)
  BY DEF HeldViews
<1>4. /\ IsNetworkCensored(OwnSorted(u)) /\ OwnSorted(u).Name = n /\ OwnSorted(u).CensoredFor = Me
      /\ Me \in DOMAIN OwnSorted(u).Devices /\ OwnSorted(OwnSorted(u)) = OwnSorted(u)
  BY <1>2, SortedView
<1>5. IsNetworkCensored(v) /\ v.Name = n /\ v.CensoredFor = Me /\ Me \in DOMAIN v.Devices
  BY <1>1, <1>2, <1>4
<1>6. v = [Name |-> v.Name, CensoredFor |-> v.CensoredFor, Devices |-> v.Devices]
  BY <1>5 DEF IsNetworkCensored
<1>7. v # NoView
  BY <1>6 DEF NoView
<1>8. v \in AllViews
  BY DEF AllViews
<1>9. OwnSorted(v) = OwnSorted(u)
  BY <1>1, <1>4
<1> QED
  BY <1>3, <1>4, <1>5, <1>7, <1>8, <1>9

(* Sorting changes the view a client is to apply in the order of its own   *)
(* addresses only.                                                         *)
LEMMA SortedGoal ==
    ASSUME NEW n \in Networks, NEW v \in HeldViews(n)
    PROVE  /\ Goal[OwnSorted(v)].Peers = Goal[v].Peers
           /\ Goal[OwnSorted(v)].Settings = Goal[v].Settings
           /\ Range(Goal[OwnSorted(v)].Addresses) = Range(Goal[v].Addresses)
<1> DEFINE w == OwnSorted(v)
           ds == v.Devices
           es == w.Devices
           via == [p \in DOMAIN ds |-> p]
<1>1. v \in AllViews /\ w \in AllViews /\ v.CensoredFor = Me /\ Me \in DOMAIN ds
      /\ IsNetworkCensored(v)
  BY ViewsAreViews
<1>2. /\ w.CensoredFor = Me /\ DOMAIN es = DOMAIN ds
      /\ \A p \in DOMAIN ds \ {Me} : es[p] = ds[p]
      /\ es[Me].Settings = ds[Me].Settings
      /\ es[Me].Addresses = Sorted[ds[Me].Addresses]
  BY <1>1, SortedView
<1>3. ds[Me].Addresses \in Seq(Nat)
  BY <1>1, HostAssumption DEF IsNetworkCensored, NetworkDeviceCensored
<1> HIDE DEF w
<1>4. Goal[v] = CompileMachine(ds, via, Me) /\ Goal[w] = CompileMachine(es, via, Me)
  BY <1>1, <1>2 DEF Goal
<1> HIDE DEF ds, es, via
<1>5. KeyedPeers(es, Me) = KeyedPeers(ds, Me) /\ KeyedPeers(ds, Me) \subseteq DOMAIN ds \ {Me}
  BY <1>2 DEF KeyedPeers
<1>6. InterfacePeers(es, via, Me) = InterfacePeers(ds, via, Me)
      /\ InterfacePeers(ds, via, Me) \subseteq DOMAIN ds \ {Me}
  BY <1>5 DEF InterfacePeers
<1>7. \A p : AllowedIPs(es, via, Me, p) = AllowedIPs(ds, via, Me, p)
  BY <1>5 DEF AllowedIPs
<1>8. CompileMachine(es, via, Me).Peers = CompileMachine(ds, via, Me).Peers
  <2> DEFINE Peer(fs, p) == [PublicKey  |-> fs[p].PublicKey, Settings   |-> fs[p].Settings,
                             Endpoint   |-> via[p] = p,
                             AllowedIPs |-> AllowedIPs(fs, via, Me, p)]
  <2>1. /\ CompileMachine(es, via, Me).Peers = [p \in InterfacePeers(es, via, Me) |-> Peer(es, p)]
        /\ CompileMachine(ds, via, Me).Peers = [p \in InterfacePeers(ds, via, Me) |-> Peer(ds, p)]
    BY DEF CompileMachine
  <2>2. \A p \in InterfacePeers(ds, via, Me) : Peer(es, p) = Peer(ds, p)
    BY <1>2, <1>6, <1>7
  <2> HIDE DEF Peer
  <2> QED
    BY <1>6, <2>1, <2>2
<1>9. /\ CompileMachine(es, via, Me).Settings = CompileMachine(ds, via, Me).Settings
      /\ CompileMachine(es, via, Me).Addresses = Sorted[ds[Me].Addresses]
      /\ CompileMachine(ds, via, Me).Addresses = ds[Me].Addresses
  BY <1>2 DEF CompileMachine
<1> QED
  BY <1>3, <1>4, <1>8, <1>9, SortedIsSorted DEF w

(* What a machine forwards is a matter of yes or no.                       *)
LEMMA GoalForwards ==
    \A v \in AllViews : Goal[v].ForwardsIPv4 \in BOOLEAN /\ Goal[v].ForwardsIPv6 \in BOOLEAN
BY DEF Goal, CompileMachine

(* At the start every client is about to fetch the view it is given.        *)
LEMMA ControlStarts == HostInit => ControlInv
<1> SUFFICES ASSUME HostInit PROVE ControlInv
  OBVIOUS
<1> USE DEF HostInit
<1>1. view \in [Networks -> AllViews] /\ \A n \in Networks : view[n] \in Views[n]
  BY HostAssumption
<1>2. pc \in [Networks -> PCs] /\ \A n \in Networks : pc[n] = "fetch"
  BY DEF PCs
<1>3. running \in [Networks -> AllViews \cup {NoView}] /\ \A n \in Networks : running[n] = NoView
  OBVIOUS
<1>4. left \in 0..MaxDisturbances
  BY HostAssumption
<1> QED
  BY <1>1, <1>2, <1>3, <1>4 DEF ControlInv, DNSInit

(* Every step keeps clients where the invariant says, with views of their   *)
(* own networks.                                                            *)
LEMMA ControlKept == ControlInv /\ [HostNext]_vars => ControlInv'
<1> SUFFICES ASSUME ControlInv, [HostNext]_vars PROVE ControlInv'
  OBVIOUS
<1> USE DEF ControlInv
<1> HIDE DEF Goal
<1>1. ASSUME NEW n \in Networks, ClientStep(n) PROVE ControlInv'
  <2> USE DEF Goto, kernel, client
  <2>1. CASE Fetch(n)
    <3>1. /\ pc' = [pc EXCEPT ![n] = "dns"] /\ running' = [running EXCEPT ![n] = view[n]]
          /\ UNCHANGED <<view, oldForward, ipForward, served, left>>
      BY <2>1 DEF Fetch
    <3>2. view[n] \in HeldViews(n) /\ view[n] \in AllViews /\ view[n] # NoView
      BY ViewsAreViews DEF HeldViews
    <3>3. "dns" \in PCs
      BY DEF PCs
    <3>4. /\ running' \in [Networks -> AllViews \cup {NoView}] /\ running'[n] = view[n]
          /\ \A k \in Networks \ {n} : running'[k] = running[k]
      BY <3>1, <3>2
    <3>5. /\ pc' \in [Networks -> PCs]
          /\ \A k \in Networks \ {n} : pc'[k] = pc[k]
      BY <3>1, <3>3
    <3> QED
      BY <3>1, <3>2, <3>4, <3>5
  <2>2. CASE UpdateDNS(n)
    BY <2>2 DEF UpdateDNS, UpdateSpec, PCs, NoView, NotServed
  <2>3. CASE CreateInterface(n)
    BY <2>3 DEF CreateInterface, PCs
  <2>4. CASE ConfigureWireguard(n)
    BY <2>4 DEF ConfigureWireguard, PCs
  <2>5. CASE ListAddresses(n)
    <3> DEFINE v == running[n]
    <3>1. /\ pc' = [pc EXCEPT ![n] = "addresses"] /\ running' = [running EXCEPT ![n] = OwnSorted(v)]
          /\ served' = IF served.Name = n THEN OwnSorted(served) ELSE served
          /\ UNCHANGED <<view, oldForward, ipForward, left>>
      BY <2>5, Zenon DEF ListAddresses
    <3>2. v \in HeldViews(n) /\ "addresses" \in PCs
      BY <2>5 DEF ListAddresses, PCs
    <3>3. OwnSorted(v) \in HeldViews(n) /\ OwnSorted(v) \in AllViews /\ OwnSorted(v) # NoView
      BY <3>2, ViewsAreViews
    <3> HIDE DEF v
    <3>4. served' # NotServed /\ \E k \in Networks : served' \in HeldViews(k)
      <4>1. PICK k \in Networks : served \in HeldViews(k)
        BY <2>5 DEF ListAddresses
      <4>2. served' \in HeldViews(k)
        BY <3>1, <4>1, ViewsAreViews
      <4> QED
        BY <4>2, ViewsAreViews DEF NoView, NotServed
    <3>5. /\ running' \in [Networks -> AllViews \cup {NoView}] /\ running'[n] = OwnSorted(v)
          /\ \A k \in Networks \ {n} : running'[k] = running[k]
      BY <3>1, <3>3
    <3>6. pc' \in [Networks -> PCs] /\ \A k \in Networks \ {n} : pc'[k] = pc[k]
      BY <3>1, <3>2
    <3> QED
      BY <3>1, <3>3, <3>4, <3>5, <3>6
  <2>6. CASE ChangeAddress(n)
    BY <2>6 DEF ChangeAddress, PCs
  <2>7. CASE SetUp(n)
    BY <2>7 DEF SetUp, PCs
  <2>8. CASE ListRoutes(n)
    BY <2>8 DEF ListRoutes, PCs
  <2>9. CASE ChangeRoute(n)
    BY <2>9 DEF ChangeRoute, PCs
  <2>10. CASE AddTwice(n)
    BY <2>10 DEF AddTwice, BailOut, PCs
  <2>11. CASE RoutesDone(n)
    BY <2>11 DEF RoutesDone, PCs
  <2>12. CASE ReadForward(n)
    BY <2>12 DEF ReadForward, PCs
  <2>13. CASE WriteForward(n)
    <3>1. running[n] \in AllViews
      BY <2>13 DEF WriteForward
    <3> QED
      BY <2>13, <3>1, GoalForwards DEF WriteForward, PCs
  <2>14. CASE Applied(n)
    BY <2>14 DEF Applied, PCs
  <2>15. CASE PanicIPv6(n)
    BY <2>15 DEF PanicIPv6, NewProcess, PCs
  <2>16. CASE PostStatus(n)
    BY <2>16 DEF PostStatus, PCs
  <2>17. CASE GetLatest(n)
    BY <2>17 DEF GetLatest, PCs
  <2> QED
    BY <1>1, <2>1, <2>2, <2>3, <2>4, <2>5, <2>6, <2>7, <2>8, <2>9, <2>10, <2>11, <2>12, <2>13,
       <2>14, <2>15, <2>16, <2>17 DEF ClientStep
<1>2. Disturb => left' \in 0..MaxDisturbances
  BY HostAssumption DEF Disturb
<1>3. ASSUME NEW n \in Networks, CallFails(n) PROVE ControlInv'
  BY <1>2, <1>3 DEF CallFails, BailOut, Goto, kernel, PCs
<1>4. ASSUME NEW n \in Networks, NewView(n) PROVE ControlInv'
  <2>1. PICK v \in Views[n] : view' = [view EXCEPT ![n] = v]
    BY <1>4 DEF NewView
  <2>2. v \in AllViews
    BY ViewsAreViews DEF HeldViews
  <2> QED
    BY <1>2, <1>4, <2>1, <2>2 DEF NewView, client, kernel
<1>5. CASE Crash
  BY <1>2, <1>5 DEF Crash, NewProcess, kernel, PCs
<1>6. CASE Reboot
  BY <1>2, <1>6 DEF Reboot, NewProcess, PCs
<1>7. CASE UNCHANGED vars
  BY <1>7 DEF vars, client, kernel
<1> QED
  BY <1>1, <1>3, <1>4, <1>5, <1>6, <1>7 DEF HostNext

(* Clients are always there.                                                *)
LEMMA ControlAlways == HostSpec => []ControlInv
BY ControlStarts, ControlKept, PTL DEF HostSpec

-----------------------------------------------------------------------------
(* The client of network n has left, or is about to leave, ip_forward at   *)
(* f: it has written it, or has read it and will leave it alone.           *)
Decided(n, f) ==
    /\ pc[n] \in {"write", "ipv6", "post", "idle"}
    /\ pc[n] = "write" => oldForward[n] = f
    /\ Goal[running[n]].ForwardsIPv4 = f

(* A client that reads f cannot do so before it is f, and one that changes *)
(* it wants something else.                                                *)
ForwardInv ==
    ~AssumeProc => \A f \in BOOLEAN : (\A n \in Networks : Decided(n, f)) => ipForward = f

(* The switch stays decided: a step after which all clients want the same   *)
(* of it either wrote that, or found it so.                                 *)
LEMMA ForwardKept ==
    ASSUME Networks # {}, ControlInv, ForwardInv, [HostNext]_vars
    PROVE  ForwardInv'
<1> SUFFICES ASSUME ~AssumeProc, NEW f \in BOOLEAN, \A n \in Networks : Decided(n, f)'
             PROVE  ipForward' = f
  BY DEF ForwardInv
<1> USE DEF ControlInv
<1> HIDE DEF Goal
<1>1. (\A n \in Networks : Decided(n, f)) => ipForward = f
  BY DEF ForwardInv
<1>2. \A n \in Networks : pc'[n] \notin {"fetch", "dead"}
  BY DEF Decided
<1>3. ASSUME NEW n \in Networks, ClientStep(n) PROVE ipForward' = f
  <2>1. \A k \in Networks \ {n} : pc'[k] = pc[k] /\ running'[k] = running[k]
                                    /\ oldForward'[k] = oldForward[k]
    <3>1. CASE PanicIPv6(n)
      BY <1>2, <3>1 DEF PanicIPv6, NewProcess
    <3>2. CASE Fetch(n) \/ UpdateDNS(n) \/ CreateInterface(n) \/ ConfigureWireguard(n) \/ ListAddresses(n)
                 \/ SetUp(n) \/ ListRoutes(n)
      BY <3>2 DEF Fetch, UpdateDNS, CreateInterface, ConfigureWireguard, ListAddresses, SetUp, ListRoutes, Goto
    <3>3. CASE ChangeAddress(n) \/ ChangeRoute(n) \/ AddTwice(n) \/ RoutesDone(n)
      BY <3>3 DEF ChangeAddress, ChangeRoute, AddTwice, RoutesDone, BailOut, Goto
    <3>4. CASE ReadForward(n) \/ WriteForward(n) \/ Applied(n) \/ PostStatus(n) \/ GetLatest(n)
      BY <3>4 DEF ReadForward, WriteForward, Applied, PostStatus, GetLatest, Goto
    <3> QED
      BY <1>3, <3>1, <3>2, <3>3, <3>4 DEF ClientStep
  <2>2. \A k \in Networks \ {n} : Decided(k, f)
    BY <2>1 DEF Decided
  <2>3. Decided(n, f) => ipForward = f
    BY <1>1, <2>2
  <2>4. Decided(n, f)'
    OBVIOUS
  <2>5. CASE ReadForward(n)
    BY <2>4, <2>5 DEF ReadForward, Decided, Goto, kernel
  <2>6. CASE WriteForward(n)
    BY <2>3, <2>4, <2>6 DEF WriteForward, Decided, Goto
  <2>7. CASE RoutesDone(n)
    BY <2>4, <2>7 DEF RoutesDone, Decided, Goto
  <2>8. CASE Applied(n) \/ PostStatus(n) \/ GetLatest(n)
    BY <2>3, <2>4, <2>8 DEF Applied, PostStatus, GetLatest, Decided, Goto, kernel
  <2>9. CASE Fetch(n) \/ UpdateDNS(n) \/ CreateInterface(n) \/ ConfigureWireguard(n) \/ ListAddresses(n)
               \/ SetUp(n) \/ ListRoutes(n)
    BY <2>4, <2>9 DEF Fetch, UpdateDNS, CreateInterface, ConfigureWireguard, ListAddresses, SetUp,
       ListRoutes, Decided, Goto
  <2>10. CASE ChangeAddress(n) \/ ChangeRoute(n) \/ AddTwice(n) \/ PanicIPv6(n)
    BY <2>4, <2>10 DEF ChangeAddress, ChangeRoute, AddTwice, PanicIPv6, BailOut, NewProcess, Decided, Goto
  <2> QED
    BY <1>3, <2>5, <2>6, <2>7, <2>8, <2>9, <2>10 DEF ClientStep
<1>4. ASSUME NEW n \in Networks, CallFails(n) PROVE ipForward' = f
  BY <1>2, <1>4 DEF CallFails, BailOut, Goto
<1>5. ASSUME NEW n \in Networks, NewView(n) PROVE ipForward' = f
  BY <1>1, <1>5 DEF NewView, client, kernel, Decided
<1>6. CASE Crash \/ Reboot
  BY <1>2, <1>6 DEF Crash, Reboot, NewProcess
<1>7. CASE UNCHANGED vars
  BY <1>1, <1>7 DEF vars, client, kernel, Decided
<1> QED
  BY <1>3, <1>4, <1>5, <1>6, <1>7 DEF HostNext

(* Clients that all want the same of ip_forward, each for its own network, *)
(* have it once they are done, however often others read and wrote it in   *)
(* between for views that have changed since.                              *)
THEOREM ClientsShareForwarding ==
    ASSUME Networks # {}
    PROVE  HostSpec => []ForwardingAgrees
<1>1. HostInit => ForwardInv
  BY DEF HostInit, ForwardInv, Decided
<1>2. ControlInv /\ ForwardInv /\ [HostNext]_vars => ForwardInv'
  BY ForwardKept
<1>3. ControlInv /\ ForwardInv => ForwardingAgrees
  BY DEF ForwardInv, ForwardingAgrees, Decided, Done
<1> QED
  BY <1>1, <1>2, <1>3, ControlAlways, PTL DEF HostSpec

-----------------------------------------------------------------------------
(* A sequence over a set is one over any larger set.                        *)
LEMMA SeqOfSubset ==
    ASSUME NEW T, NEW S \in SUBSET T, NEW s \in Seq(S)
    PROVE  s \in Seq(T)
<1>1. s \in [1..Len(s) -> S] /\ Len(s) \in Nat
  OBVIOUS
<1>2. s \in [1..Len(s) -> T]
  BY <1>1
<1> QED
  BY <1>1, <1>2

(* A text ends in its suffix, and has what stands before it before it.     *)
LEMMA SuffixedText ==
    ASSUME NEW S, NEW b \in Seq(S), NEW s \in Seq(S)
    PROVE  LET name == b \o s
           IN IsSuffix(s, name) /\ SubSeq(name, 1, Len(name) - Len(s)) = b
<1> DEFINE name == b \o s
<1>1. /\ Len(s) \in Nat /\ Len(b) \in Nat /\ name \in Seq(S) /\ Len(name) = Len(b) + Len(s)
      /\ \A i \in 1..Len(b) : name[i] = b[i]
      /\ \A i \in 1..Len(s) : name[i + Len(b)] = s[i]
  OBVIOUS
<1> HIDE DEF name
<1>2. /\ Reverse(s) = [i \in 1..Len(s) |-> s[Len(s) - i + 1]]
      /\ Reverse(name) = [i \in 1..Len(name) |-> name[Len(name) - i + 1]]
  BY DEF Reverse
<1>3. /\ Reverse(s) \in Seq(S) /\ Len(Reverse(s)) = Len(s)
      /\ Reverse(name) \in Seq(S) /\ Len(Reverse(name)) = Len(name)
  BY <1>1, <1>2
<1>4. ASSUME NEW i \in 1..Len(s) PROVE Reverse(s)[i] = Reverse(name)[i]
  <2>1. /\ Len(s) - i + 1 \in 1..Len(s) /\ Len(s) - i + 1 + Len(b) = Len(name) - i + 1
        /\ i \in 1..Len(name)
    BY <1>1
  <2>2. Reverse(s)[i] = s[Len(s) - i + 1] /\ Reverse(name)[i] = name[Len(name) - i + 1]
    BY <1>2, <2>1
  <2> QED
    BY <1>1, <2>1, <2>2
<1>5. SubSeq(Reverse(s), 1, Len(s)) = SubSeq(Reverse(name), 1, Len(s))
  BY <1>1, <1>3, <1>4
<1>6. IsSuffix(s, name)
  BY <1>1, <1>3, <1>5 DEF IsSuffix, IsPrefix
<1>7. SubSeq(name, 1, Len(b)) = b
  BY <1>1
<1> QED
  BY <1>1, <1>6, <1>7 DEF name

(* A text with one dot is divided in one way.                              *)
LEMMA OneDotDivides ==
    ASSUME NEW x \in Seq(Symbols), NEW y \in Seq(Symbols),
           NEW u \in Seq(Symbols), NEW w \in Seq(Symbols),
           Dot \notin Range(x), Dot \notin Range(u),
           x \o <<Dot>> \o y = u \o <<Dot>> \o w
    PROVE  x = u /\ y = w
<1> DEFINE s == x \o <<Dot>> \o y
           t == u \o <<Dot>> \o w
<1>1. Dot \in Symbols
  BY TextsAssumption
<1>2. /\ Len(x) \in Nat /\ Len(y) \in Nat /\ Len(s) = Len(x) + 1 + Len(y)
      /\ \A i \in 1..Len(x) : s[i] = x[i]
      /\ s[Len(x) + 1] = Dot
      /\ \A i \in 1..Len(y) : s[i + (Len(x) + 1)] = y[i]
  BY <1>1
<1>3. /\ Len(u) \in Nat /\ Len(w) \in Nat /\ Len(t) = Len(u) + 1 + Len(w)
      /\ \A i \in 1..Len(u) : t[i] = u[i]
      /\ t[Len(u) + 1] = Dot
      /\ \A i \in 1..Len(w) : t[i + (Len(u) + 1)] = w[i]
  BY <1>1
<1>4. s = t
  OBVIOUS
<1> HIDE DEF s, t
<1>5. (\A i \in 1..Len(x) : x[i] # Dot) /\ (\A i \in 1..Len(u) : u[i] # Dot)
  BY DEF Range
<1>6. Len(x) = Len(u)
  <2>1. ~(Len(x) < Len(u))
    BY <1>2, <1>3, <1>4, <1>5
  <2>2. ~(Len(u) < Len(x))
    BY <1>2, <1>3, <1>4, <1>5
  <2> QED
    BY <1>2, <1>3, <2>1, <2>2
<1>7. Len(y) = Len(w)
  BY <1>2, <1>3, <1>4, <1>6
<1>8. \A i \in 1..Len(x) : x[i] = u[i]
  <2>1. \A i \in 1..Len(x) : s[i] = x[i] /\ s[i] = u[i]
    BY <1>2, <1>3, <1>4, <1>6
  <2> QED
    BY <2>1
<1>9. \A i \in 1..Len(y) : y[i] = w[i]
  <2>1. \A i \in 1..Len(y) : s[i + (Len(x) + 1)] = y[i] /\ s[i + (Len(x) + 1)] = w[i]
    BY <1>2, <1>3, <1>4, <1>6, <1>7
  <2> QED
    BY <2>1
<1>10. ASSUME NEW z \in Seq(Symbols) PROVE z = [i \in 1..Len(z) |-> z[i]]
  BY ONLY z \in Seq(Symbols)
<1>11. x = u
  <2>1. x = [i \in 1..Len(x) |-> x[i]] /\ u = [i \in 1..Len(u) |-> u[i]]
    BY <1>10, Zenon
  <2> QED
    BY <2>1, <1>6, <1>8
<1>12. y = w
  <2>1. y = [i \in 1..Len(y) |-> y[i]] /\ w = [i \in 1..Len(w) |-> w[i]]
    BY <1>10, Zenon
  <2> QED
    BY <2>1, <1>7, <1>9
<1> QED
  BY <1>11, <1>12

(* Networks have the names their views have.                               *)
LEMMA NetworksHaveNames == Networks \subseteq NetworkNames
BY HostAssumption DEF IsNetworkCensored

(* The order in which parents have to be listed, aliases or not: as the    *)
(* first one that matches answers, even in the middle of a label, those    *)
(* whose text ends the names of others come after these.  Then, when no    *)
(* network or device has a dot in its name, every name is read as the      *)
(* device and network it is for.                                           *)
THEOREM SpecificParentsFirst ==
    ASSUME NoName \notin DeviceNames,
           \A x \in NetworkNames \cup DeviceNames : Dot \notin Range(Text[x]),
           SpecificFirst
    PROVE  NamesAreClear
<1> SUFFICES ASSUME NEW n \in Networks, NEW d \in DeviceNames, NEW name \in NamesOf(n, d)
             PROVE  LET matching == {i \in DOMAIN Parents : Matches(Parents[i], name)}
                    IN /\ matching # {}
                       /\ \A k \in NetworkNames : \A e \in DeviceNames :
                             AsksFor(Parents[Min(matching)], name, k, e) <=> k = n /\ e = d
  BY Zenon DEF NamesAreClear
<1> DEFINE matching == {i \in DOMAIN Parents : Matches(Parents[i], name)}
<1>1. /\ DOMAIN Parents \subseteq Nat
      /\ \A i \in DOMAIN Parents : Parents[i].Suffix \in Seq(Symbols)
  <2> DEFINE R == [Suffix : Seq(Symbols),
                   Network : NetworkNames \cup {NoName}, Device : DeviceNames \cup {NoName}]
  <2>1. Parents \in Seq(R) /\ \A r \in R : r.Suffix \in Seq(Symbols)
    BY TextsAssumption
  <2> HIDE DEF R, matching
  <2>2. DOMAIN Parents = 1..Len(Parents) /\ Len(Parents) \in Nat
    BY <2>1
  <2>3. \A i \in 1..Len(Parents) : Parents[i] \in R
    BY <2>1
  <2> QED
    BY <2>1, <2>2, <2>3
<1>2. n \in NetworkNames
  BY NetworksHaveNames
<1>3. \A x \in NetworkNames \cup DeviceNames : Text[x] \in Seq(Symbols)
  BY TextsAssumption
<1> DEFINE before == Text[d] \o <<Dot>> \o Text[n]
<1>4. before \in Seq(Symbols)
  BY <1>2, <1>3, TextsAssumption
<1>5. PICK i \in DOMAIN Parents :
          IF IsAlias(Parents[i])
          THEN name = Parents[i].Suffix /\ Parents[i].Network = n /\ Parents[i].Device = d
          ELSE name = before \o Parents[i].Suffix
  BY DEF NamesOf, OwnName, IsAlias
<1> DEFINE suffix == Parents[i].Suffix
<1>6. suffix \in Seq(Symbols)
  BY <1>1
<1>7. name \in NamesUnder(Parents[i])
  <2> HIDE DEF matching, suffix
  <2>1. CASE IsAlias(Parents[i])
    BY <1>5, <2>1 DEF NamesUnder
  <2>2. CASE ~IsAlias(Parents[i])
    <3>1. name = OwnName(Parents[i], n, d)
      BY <1>5, <2>2 DEF OwnName
    <3> QED
      BY <2>2, <3>1 DEF NamesUnder
  <2> QED
    BY <2>1, <2>2
<1> HIDE DEF before, suffix
<1>8. /\ IsSuffix(suffix, name)
      /\ TextBefore(Parents[i], name) = IF IsAlias(Parents[i]) THEN <<>> ELSE before
  <2>1. \A b \in Seq(Symbols) : name = b \o suffix =>
            IsSuffix(suffix, name) /\ SubSeq(name, 1, Len(name) - Len(suffix)) = b
    BY <1>6, SuffixedText
  <2>2. TextBefore(Parents[i], name) = SubSeq(name, 1, Len(name) - Len(suffix))
    BY DEF TextBefore, suffix
  <2>3. CASE IsAlias(Parents[i])
    <3>1. <<>> \in Seq(Symbols) /\ <<>> \o suffix = suffix
      BY <1>6
    <3>2. name = <<>> \o suffix
      BY <1>5, <2>3, <3>1 DEF suffix
    <3> QED
      BY <2>1, <2>2, <2>3, <3>1, <3>2
  <2>4. CASE ~IsAlias(Parents[i])
    <3>1. name = before \o suffix
      BY <1>5, <2>4 DEF suffix
    <3> QED
      BY <1>4, <2>1, <2>2, <2>4, <3>1
  <2> QED
    BY <2>3, <2>4
<1>9. Matches(Parents[i], name)
  BY <1>8 DEF Matches, suffix
<1>10. ASSUME NEW j \in DOMAIN Parents, j < i PROVE ~Matches(Parents[j], name)
  BY <1>7, <1>10 DEF SpecificFirst, Matches
<1>11. i \in matching /\ \A k \in matching : i <= k
  <2>1. \A k \in matching : k \in Nat /\ k \in DOMAIN Parents /\ Matches(Parents[k], name)
    BY <1>1
  <2>2. \A k \in matching : ~(k < i)
    BY <1>10, <2>1
  <2> QED
    BY <1>1, <1>9, <2>1, <2>2
<1>12. matching # {} /\ Min(matching) = i
  <2>1. matching \subseteq Nat
    BY <1>1
  <2> HIDE DEF matching
  <2>2. ASSUME NEW k \in matching, \A h \in matching : k <= h PROVE k = i
    BY <1>11, <2>1, <2>2
  <2> QED
    BY <1>11, <2>2 DEF Min
<1>13. ASSUME NEW k \in NetworkNames, NEW e \in DeviceNames
       PROVE  AsksFor(Parents[i], name, k, e) <=> k = n /\ e = d
  <2>1. CASE IsAlias(Parents[i])
    BY <1>5, <1>8, <2>1 DEF AsksFor
  <2>2. CASE ~IsAlias(Parents[i])
    <3>1. /\ Dot \notin Range(Text[k]) \cup Range(Text[e])
          /\ Dot \notin Range(Text[e]) /\ Dot \notin Range(Text[d])
      OBVIOUS
    <3>2. Text[k] \in Seq(Symbols) /\ Text[e] \in Seq(Symbols)
          /\ Text[n] \in Seq(Symbols) /\ Text[d] \in Seq(Symbols)
      BY <1>2, <1>3
    <3>3. before = Text[e] \o <<Dot>> \o Text[k] => Text[d] = Text[e] /\ Text[n] = Text[k]
      BY <3>1, <3>2, OneDotDivides DEF before
    <3>4. before = Text[e] \o <<Dot>> \o Text[k] <=> k = n /\ e = d
      BY <1>2, <3>3, TextsAssumption DEF before
    <3> QED
      BY <1>8, <2>2, <3>1, <3>4 DEF AsksFor
  <2> QED
    BY <2>1, <2>2
<1> HIDE DEF matching
<1>14. matching # {} /\ \A k \in NetworkNames : \A e \in DeviceNames :
          AsksFor(Parents[Min(matching)], name, k, e) <=> k = n /\ e = d
  BY <1>12, <1>13
<1> QED
  BY <1>14, Zenon DEF matching

(* The plain configuration, with one parent for all names, tells them      *)
(* apart.                                                                  *)
LEMMA OneParentIsClear ==
    ASSUME Len(Parents) = 1, NoName \notin DeviceNames,
           \A x \in NetworkNames \cup DeviceNames : Dot \notin Range(Text[x])
    PROVE  NamesAreClear
<1>1. DOMAIN Parents = {1}
  BY TextsAssumption
<1>2. SpecificFirst
  BY <1>1 DEF SpecificFirst
<1> QED
  BY <1>2, SpecificParentsFirst

(* The DNS server has the view of the last client that came by; when that  *)
(* was this one, it is the view this one is still at.                      *)
ServedInv ==
    \A n \in Networks : pc[n] \notin {"fetch", "dns", "dead"} /\ served.Name = n =>
        served = running[n]

(* Every step keeps what a client past updateDNS may rely on: updateDNS     *)
(* replaces what is served by the view of the client that calls it, and     *)
(* what sorts this view later sorts both.                                   *)
LEMMA ServedKept ==
    ASSUME ControlInv, ServedInv, [HostNext]_vars
    PROVE  ServedInv'
<1> SUFFICES ASSUME NEW k \in Networks, pc'[k] \notin {"fetch", "dns", "dead"}, served'.Name = k
             PROVE  served' = running'[k]
  BY DEF ServedInv
<1> USE DEF ControlInv
<1>1. pc[k] \notin {"fetch", "dns", "dead"} /\ served.Name = k => served = running[k]
  BY DEF ServedInv
<1>2. ASSUME NEW n \in Networks, UpdateDNS(n) PROVE served' = running'[k]
  <2>1. running[n] \in HeldViews(n) /\ served' = running[n] /\ running' = running
    BY <1>2 DEF UpdateDNS, UpdateSpec
  <2> QED
    BY <2>1, ViewsAreViews
<1>3. ASSUME NEW n \in Networks, ListAddresses(n) PROVE served' = running'[k]
  <2>1. /\ pc[n] = "list addresses" /\ pc' = [pc EXCEPT ![n] = "addresses"]
        /\ running' = [running EXCEPT ![n] = OwnSorted(running[n])]
        /\ served' = IF served.Name = n THEN OwnSorted(served) ELSE served
    BY <1>3, Zenon DEF ListAddresses, Goto
  <2>2. PICK m \in Networks : served \in HeldViews(m)
    BY <2>1
  <2>3. served'.Name = served.Name
    <3>1. served.Name = m /\ OwnSorted(served).Name = m
      BY <2>2, ViewsAreViews
    <3>2. served' = OwnSorted(served) \/ served' = served
      BY <2>1
    <3> QED
      BY <3>1, <3>2
  <2>4. pc[k] \notin {"fetch", "dns", "dead"}
    BY <2>1
  <2>5. served = running[k]
    BY <1>1, <2>3, <2>4
  <2>6. CASE k = n
    BY <2>1, <2>3, <2>5, <2>6
  <2>7. CASE k # n
    BY <2>1, <2>3, <2>5, <2>7
  <2> QED
    BY <2>6, <2>7
<1>4. ASSUME served' = served, pc[k] \notin {"fetch", "dns", "dead"}, running'[k] = running[k]
      PROVE  served' = running'[k]
  BY <1>1, <1>4
<1>5. ASSUME NEW n \in Networks, ClientStep(n), ~UpdateDNS(n), ~ListAddresses(n)
      PROVE  served' = served /\ pc[k] \notin {"fetch", "dns", "dead"} /\ running'[k] = running[k]
  <2> USE DEF Goto
  <2>1. CASE Fetch(n)
    BY <2>1 DEF Fetch
  <2>2. CASE CreateInterface(n) \/ ConfigureWireguard(n) \/ SetUp(n) \/ ListRoutes(n)
    BY <2>2 DEF CreateInterface, ConfigureWireguard, SetUp, ListRoutes
  <2>3. CASE ChangeAddress(n) \/ ChangeRoute(n)
    BY <2>3 DEF ChangeAddress, ChangeRoute
  <2>4. CASE AddTwice(n)
    BY <2>4 DEF AddTwice, BailOut
  <2>5. CASE PanicIPv6(n)
    BY <2>5 DEF PanicIPv6, NewProcess
  <2>6. CASE RoutesDone(n) \/ ReadForward(n) \/ WriteForward(n) \/ Applied(n)
    BY <2>6 DEF RoutesDone, ReadForward, WriteForward, Applied
  <2>7. CASE PostStatus(n) \/ GetLatest(n)
    BY <2>7 DEF PostStatus, GetLatest
  <2> QED
    BY <1>5, <2>1, <2>2, <2>3, <2>4, <2>5, <2>6, <2>7 DEF ClientStep
<1>6. ASSUME NEW n \in Networks, CallFails(n) \/ NewView(n)
      PROVE  served' = served /\ pc[k] \notin {"fetch", "dns", "dead"} /\ running'[k] = running[k]
  BY <1>6 DEF CallFails, BailOut, NewView, client, Goto
<1>7. ~Crash /\ ~Reboot
  BY DEF Crash, Reboot, NewProcess
<1>8. UNCHANGED vars => served' = served /\ pc[k] \notin {"fetch", "dns", "dead"} /\ running'[k] = running[k]
  BY DEF vars, client
<1> QED
  BY <1>2, <1>3, <1>4, <1>5, <1>6, <1>7, <1>8 DEF HostNext

(* What the server answers for a name, once the client of its network is   *)
(* done.                                                                   *)
LEMMA DoneAnswers ==
    ASSUME NamesAreClear, ControlInv, ServedInv
    PROVE  AnswersAreCurrent
<1> SUFFICES ASSUME NEW n \in Networks, Done(n), NEW d \in DeviceNames, NEW name \in NamesOf(n, d)
             PROVE  LET answer == HandleQuery(name)
                        current == IF d \in DOMAIN view[n].Devices
                                   THEN Success(Range(view[n].Devices[d].Addresses))
                                   ELSE NameError IN
                    /\ answer.rcode = "NOERROR" => answer = current
                    /\ served.Name = n => answer = current
  BY Zenon DEF AnswersAreCurrent
<1> DEFINE answer == HandleQuery(name)
<1> DEFINE matching == {i \in DOMAIN Parents : Matches(Parents[i], name)}
<1>1. matching # {} /\ \A k \in NetworkNames : \A e \in DeviceNames :
          AsksFor(Parents[Min(matching)], name, k, e) <=> k = n /\ e = d
  BY DEF NamesAreClear
<1>2. /\ served # NotServed
      /\ served.Name = n => served = view[n]
  BY DEF Done, ServedInv, ControlInv
<1>3. answer = HandleParent(Parents[Min(matching)], name)
  BY <1>1, Zenon DEF HandleQuery
<1> HIDE DEF matching
<1>4. answer = IF n # served.Name \/ d \notin DOMAIN served.Devices THEN NameError
               ELSE Success(Range(served.Devices[d].Addresses))
  <2> DEFINE parent == Parents[Min(matching)]
             devices == {e \in DOMAIN served.Devices : AsksFor(parent, name, served.Name, e)}
  <2>1. served.Name \in NetworkNames /\ DOMAIN served.Devices \subseteq DeviceNames
    BY <1>2, ViewsAreViews DEF ControlInv, IsNetworkCensored
  <2>2. devices = IF n # served.Name \/ d \notin DOMAIN served.Devices THEN {} ELSE {d}
    BY <1>1, <2>1
  <2>3. answer = IF devices = {} THEN NameError
                 ELSE Success(UNION {Range(served.Devices[e].Addresses) : e \in devices})
    BY <1>2, <1>3, Zenon DEF HandleParent
  <2> HIDE DEF devices
  <2>4. UNION {Range(served.Devices[e].Addresses) : e \in {d}} = Range(served.Devices[d].Addresses)
    OBVIOUS
  <2> QED
    BY <2>2, <2>3, <2>4
<1>5. NameError.rcode # "NOERROR"
  BY DEF NameError
<1> QED
  BY <1>2, <1>4, <1>5

(* No name of a device is answered with outdated addresses once the client *)
(* of its network is done, whichever client handed its view to the one DNS *)
(* server last.                                                            *)
THEOREM NothingOutdatedAnswered ==
    ASSUME NamesAreClear
    PROVE  HostSpec => []AnswersAreCurrent
<1>1. HostInit => ServedInv
  BY DEF HostInit, ServedInv
<1>2. ControlInv /\ ServedInv /\ [HostNext]_vars => ServedInv'
  BY ServedKept
<1>3. ControlInv /\ ServedInv => AnswersAreCurrent
  BY DoneAnswers
<1> QED
  BY <1>1, <1>2, <1>3, ControlAlways, PTL DEF HostSpec

-----------------------------------------------------------------------------
(* What a client has to set up is well-formed, and its routes are those to *)
(* the devices that are routed.                                            *)
LEMMA GoalTyped ==
    ASSUME NEW v \in AllViews
    PROVE  /\ Goal[v].Addresses \in Seq(Nat)
           /\ Goal[v].Settings \in Nat
           /\ DOMAIN Goal[v].Peers \subseteq DeviceNames \ {Me}
<1>1. PICK n \in Networks : v \in HeldViews(n)
  BY DEF AllViews
<1>2. /\ v.CensoredFor = Me /\ Me \in DOMAIN v.Devices
      /\ DOMAIN v.Devices \subseteq DeviceNames
      /\ v.Devices \in [DOMAIN v.Devices -> NetworkDeviceCensored]
  BY <1>1, ViewsAreViews DEF IsNetworkCensored
<1>3. v.Devices[Me].Addresses \in Seq(Nat) /\ v.Devices[Me].Settings \in Nat
  BY <1>2, HostAssumption DEF NetworkDeviceCensored
<1>4. Goal[v] = CompileMachine(v.Devices, [p \in DOMAIN v.Devices |-> p], Me)
  BY <1>2 DEF Goal
<1>5. /\ Goal[v].Addresses = v.Devices[Me].Addresses
      /\ Goal[v].Settings = v.Devices[Me].Settings
      /\ DOMAIN Goal[v].Peers = InterfacePeers(v.Devices, [p \in DOMAIN v.Devices |-> p], Me)
  BY <1>4 DEF CompileMachine
<1> QED
  BY <1>2, <1>3, <1>5 DEF InterfacePeers, KeyedPeers

(* The addresses of the devices that have a route.                         *)
RoutedAddresses(v) ==
    UNION {Range(v.Devices[q].Addresses) : q \in {q \in DOMAIN v.Devices : Routed(Goal[v], q)}}

(* The list of routes has the addresses of exactly the devices that are     *)
(* routed.                                                                  *)
LEMMA RouteGoalTyped ==
    ASSUME NEW v \in AllViews
    PROVE  RouteGoal[v] \in Seq(Nat) /\ Range(RouteGoal[v]) = RoutedAddresses(v)
<1>1. PICK n \in Networks : v \in HeldViews(n)
  BY DEF AllViews
<1>2. /\ DOMAIN v.Devices \subseteq DeviceNames
      /\ v.Devices \in [DOMAIN v.Devices -> NetworkDeviceCensored]
  BY <1>1, ViewsAreViews DEF IsNetworkCensored
<1>3. \A q \in DOMAIN v.Devices : v.Devices[q].Addresses \in Seq(Nat)
  BY <1>2, HostAssumption DEF NetworkDeviceCensored
<1> DEFINE lists == [i \in DOMAIN DeviceOrder |->
                        IF DeviceOrder[i] \in DOMAIN v.Devices /\ Routed(Goal[v], DeviceOrder[i])
                        THEN v.Devices[DeviceOrder[i]].Addresses
                        ELSE <<>>]
           routed == {q \in DOMAIN v.Devices : Routed(Goal[v], q)}
<1>4. RouteGoal[v] = FlattenSeq(lists)
  BY DEF RouteGoal
<1>5. DOMAIN DeviceOrder = 1..Len(DeviceOrder) /\ Len(DeviceOrder) \in Nat
  BY RoutesAssumption
<1>6. lists \in Seq(Seq(Nat)) /\ DOMAIN lists = 1..Len(DeviceOrder)
  <2>1. <<>> \in Seq(Nat)
    OBVIOUS
  <2>2. lists \in [1..Len(DeviceOrder) -> Seq(Nat)]
    <3> HIDE DEF Goal
    <3> QED
      BY <1>3, <1>5, <2>1
  <2> HIDE DEF lists
  <2> QED
    BY <1>5, <2>2
<1>7. FlattenSeq(lists) \in Seq(Nat)
      /\ Range(FlattenSeq(lists)) = UNION {Range(lists[i]) : i \in DOMAIN lists}
  <2> HIDE DEF lists
  <2> QED
    BY <1>6, FlattenCollects
<1>8. ASSUME NEW i \in 1..Len(DeviceOrder), NEW x \in Range(lists[i])
      PROVE  x \in RoutedAddresses(v)
  <2>1. Range(<<>>) = {}
    BY DEF Range
  <2>2. DeviceOrder[i] \in routed /\ lists[i] = v.Devices[DeviceOrder[i]].Addresses
    BY <1>5, <1>8, <2>1
  <2> HIDE DEF lists
  <2>3. x \in Range(v.Devices[DeviceOrder[i]].Addresses)
    BY <1>8, <2>2
  <2> QED
    BY <2>2, <2>3 DEF RoutedAddresses
<1>9. ASSUME NEW q \in routed
      PROVE  \E i \in 1..Len(DeviceOrder) : lists[i] = v.Devices[q].Addresses
  <2>1. PICK i \in 1..Len(DeviceOrder) : DeviceOrder[i] = q
    BY <1>2, <1>9, RoutesAssumption
  <2>2. lists[i] = v.Devices[q].Addresses
    BY <1>5, <1>9, <2>1
  <2> HIDE DEF lists
  <2> QED
    BY <2>2
<1> HIDE DEF lists
<1>10. RoutedAddresses(v) = UNION {Range(v.Devices[q].Addresses) : q \in routed}
  BY DEF RoutedAddresses
<1> HIDE DEF routed
<1>11. UNION {Range(lists[i]) : i \in DOMAIN lists} = RoutedAddresses(v)
  <2>1. ASSUME NEW x \in UNION {Range(lists[i]) : i \in DOMAIN lists} PROVE x \in RoutedAddresses(v)
    BY <1>6, <1>8
  <2>2. ASSUME NEW x \in RoutedAddresses(v) PROVE x \in UNION {Range(lists[i]) : i \in DOMAIN lists}
    <3>1. PICK q \in routed : x \in Range(v.Devices[q].Addresses)
      BY <1>10, <2>2
    <3>2. PICK i \in 1..Len(DeviceOrder) : lists[i] = v.Devices[q].Addresses
      BY <1>9
    <3> QED
      BY <1>6, <3>1, <3>2
  <2> QED
    BY <2>1, <2>2
<1> QED
  BY <1>4, <1>7, <1>11

-----------------------------------------------------------------------------
(* The tasks of ApplyMachine, and what a list of them is to add and to      *)
(* remove.                                                                  *)
AllTasks == [op : {"add", "del"}, ip : Nat]

Adds(ts) == {x \in Nat : Task("add", x) \in Range(ts)}
Dels(ts) == {x \in Nat : Task("del", x) \in Range(ts)}

(* Of the addresses that are there the tasks leave those that are wanted:  *)
(* none is to be both removed and added, in whatever order they come.      *)
Pending(there, ts, wanted) ==
    Adds(ts) \cap Dels(ts) = {} /\ (there \ Dels(ts)) \cup Adds(ts) = wanted

(* The tasks made of a list of addresses are one for each of them.          *)
LEMMA TaskLists ==
    ASSUME NEW op \in {"add", "del"}, NEW ips \in Seq(Nat),
           NEW ts, ts = [i \in DOMAIN ips |-> Task(op, ips[i])]
    PROVE  ts \in Seq(AllTasks) /\ Range(ts) = {Task(op, x) : x \in Range(ips)}
<1>1. DOMAIN ips = 1..Len(ips) /\ Len(ips) \in Nat /\ \A i \in DOMAIN ips : ips[i] \in Nat
  OBVIOUS
<1>2. ts \in [1..Len(ips) -> AllTasks]
  BY <1>1 DEF Task, AllTasks
<1>3. ts \in Seq(AllTasks)
  BY <1>1, <1>2
<1>4. Range(ts) = {Task(op, x) : x \in Range(ips)}
  BY DEF Range
<1> QED
  BY <1>3, <1>4

(* The tasks computed by the two calls of setDifference lead from what is   *)
(* there to what is wanted.                                                 *)
LEMMA TasksArePending ==
    ASSUME NEW there \in SUBSET Nat, IsFiniteSet(there), NEW wanted \in Seq(Nat)
    PROVE  /\ Tasks(there, wanted) \in Seq(AllTasks)
           /\ Pending(there, Tasks(there, wanted), Range(wanted))
<1> DEFINE listed == SetToSeq(there)
           removed == SetDifference(listed, wanted)
           added == SetDifference(wanted, listed)
           dels == [i \in DOMAIN removed |-> Task("del", removed[i])]
           adds == [i \in DOMAIN added |-> Task("add", added[i])]
           ts == Tasks(there, wanted)
<1>1. listed \in Seq(Nat) /\ Range(listed) = there
  <2>1. listed \in Seq(there) /\ Range(listed) = there
    BY SetToSeqLists
  <2> QED
    BY <2>1, SeqOfSubset
<1>2. ts = dels \o adds
  BY Zenon DEF Tasks
<1> HIDE DEF listed, ts
<1>3. removed \in Seq(Nat) /\ Range(removed) = there \ Range(wanted)
  BY <1>1, DifferenceFound
<1>4. added \in Seq(Nat) /\ Range(added) = Range(wanted) \ there
  BY <1>1, DifferenceFound
<1> HIDE DEF removed, added
<1>5. dels \in Seq(AllTasks) /\ Range(dels) = {Task("del", x) : x \in Range(removed)}
  BY <1>3, TaskLists
<1>6. adds \in Seq(AllTasks) /\ Range(adds) = {Task("add", x) : x \in Range(added)}
  BY <1>4, TaskLists
<1> HIDE DEF dels, adds
<1>7. ts \in Seq(AllTasks) /\ Range(ts) = Range(dels) \cup Range(adds)
  BY <1>2, <1>5, <1>6, RangeOfConcat
<1>8. Range(wanted) \in SUBSET Nat
  BY DEF Range
<1>9. Adds(ts) = Range(added)
  <2>1. \A x \in Nat : Task("add", x) \in Range(ts) <=> x \in Range(added)
    BY <1>5, <1>6, <1>7 DEF Task
  <2> QED
    BY <1>4, <1>8, <2>1 DEF Adds
<1>10. Dels(ts) = Range(removed)
  <2>1. \A x \in Nat : Task("del", x) \in Range(ts) <=> x \in Range(removed)
    BY <1>5, <1>6, <1>7 DEF Task
  <2> QED
    BY <1>3, <2>1 DEF Dels
<1>11. Pending(there, ts, Range(wanted))
  BY <1>3, <1>4, <1>8, <1>9, <1>10 DEF Pending
<1> QED
  BY <1>7, <1>11 DEF ts

(* Without tasks what is wanted is there.                                  *)
LEMMA NothingPending ==
    ASSUME NEW there, NEW wanted, Pending(there, <<>>, wanted)
    PROVE  there = wanted
<1>1. Range(<<>>) = {}
  BY DEF Range
<1> QED
  BY <1>1 DEF Pending, Adds, Dels

(* What task t makes of the addresses.                                     *)
Do(t, there) == IF t.op = "del" THEN there \ {t.ip} ELSE there \cup {t.ip}

(* Doing the first task leaves the others.                                 *)
LEMMA TaskDone ==
    ASSUME NEW there \in SUBSET Nat, IsFiniteSet(there), NEW wanted,
           NEW ts \in Seq(AllTasks), ts # <<>>, Pending(there, ts, wanted)
    PROVE  /\ Tail(ts) \in Seq(AllTasks)
           /\ Do(Head(ts), there) \in SUBSET Nat /\ IsFiniteSet(Do(Head(ts), there))
           /\ Pending(Do(Head(ts), there), Tail(ts), wanted)
<1> DEFINE t == Head(ts)
           after == Do(t, there)
<1>1. /\ ts = <<t>> \o Tail(ts) /\ t \in AllTasks
      /\ <<t>> \in Seq(AllTasks) /\ Tail(ts) \in Seq(AllTasks)
  OBVIOUS
<1> HIDE DEF t, after
<1>2. Range(ts) = Range(<<t>>) \cup Range(Tail(ts))
  <2>1. ASSUME NEW u \in Seq(AllTasks), NEW v \in Seq(AllTasks)
        PROVE  Range(u \o v) = Range(u) \cup Range(v)
    BY RangeOfConcat
  <2> QED
    BY <1>1, <2>1, Zenon
<1>3. Range(<<t>>) = {t}
  BY DEF Range
<1>4. t.op \in {"add", "del"} /\ t.ip \in Nat /\ t = Task(t.op, t.ip)
  BY <1>1 DEF AllTasks, Task
<1>5. after \in SUBSET Nat /\ IsFiniteSet(after)
  BY <1>4, FS_AddElement, FS_RemoveElement DEF after, Do
<1>6. Pending(after, Tail(ts), wanted)
  <2>1. CASE t.op = "del"
    <3>1. /\ Dels(ts) = {t.ip} \cup Dels(Tail(ts))
          /\ Adds(ts) = Adds(Tail(ts))
      BY <1>2, <1>3, <1>4, <2>1 DEF Adds, Dels, Task
    <3> QED
      BY <2>1, <3>1 DEF Pending, after, Do
  <2>2. CASE t.op = "add"
    <3>1. /\ Adds(ts) = {t.ip} \cup Adds(Tail(ts))
          /\ Dels(ts) = Dels(Tail(ts))
      BY <1>2, <1>3, <1>4, <2>2 DEF Adds, Dels, Task
    <3> QED
      BY <2>2, <3>1 DEF Pending, after, Do
  <2> QED
    BY <1>4, <2>1, <2>2
<1> QED
  BY <1>1, <1>5, <1>6 DEF after, t

-----------------------------------------------------------------------------
(* What an interface can be set to.                                         *)
PeerMaps == {NewLink.peers} \cup {Goal[v].Peers : v \in AllViews}

AddressSets == {s \in SUBSET Nat : IsFiniteSet(s)}

Links == [peers : PeerMaps, port : Nat, addresses : AddressSets, up : BOOLEAN, routes : AddressSets]

(* The places of a client that has created its interface, has configured    *)
(* it, has all its addresses there, and all its routes.                     *)
Created    == PCs \ {"fetch", "dns", "create", "dead"}
Configured == Created \ {"configure"}
Addressed  == Configured \ {"list addresses", "addresses"}
AllRouted  == Addressed \ {"list routes", "routes"}

(* How far a client that is at a place, with a view, has come with its     *)
(* interface: what it has set is as the view says, and of what it is about *)
(* to change the tasks that are left lead there.                           *)
OnItsWay(at, v, ts, l) ==
    /\ at \in Created => l \in Links
    /\ at \in Configured =>
         /\ l.peers = Goal[v].Peers
         /\ Goal[v].Settings # 0 => l.port = Goal[v].Settings
    /\ at = "addresses" => Pending(l.addresses, ts, Range(Goal[v].Addresses))
    /\ at \in Addressed => l.up /\ l.addresses = Range(Goal[v].Addresses)
    /\ at = "routes" => Pending(l.routes, ts, Range(RouteGoal[v]))
    /\ at \in AllRouted => l.routes = Range(RouteGoal[v])

(* Every client is on its way, whatever the others do.                      *)
AppliedInv ==
    /\ link \in [Networks -> Links \cup {NoLink}]
    /\ tasks \in [Networks -> Seq(AllTasks)]
    /\ \A n \in Networks : OnItsWay(pc[n], running[n], tasks[n], link[n])

(* A step that concerns one client alone.                                  *)
LEMMA OneClientMoves ==
    ASSUME ControlInv, AppliedInv, NEW n \in Networks,
           NEW at \in PCs, NEW ts \in Seq(AllTasks), NEW l \in Links \cup {NoLink},
           pc' = [pc EXCEPT ![n] = at], tasks' = [tasks EXCEPT ![n] = ts],
           link' = [link EXCEPT ![n] = l],
           \A k \in Networks \ {n} : running'[k] = running[k],
           OnItsWay(at, running'[n], ts, l)
    PROVE  AppliedInv'
<1>1. /\ link' \in [Networks -> Links \cup {NoLink}] /\ link'[n] = l
      /\ \A k \in Networks \ {n} : link'[k] = link[k]
  BY DEF AppliedInv
<1>2. /\ tasks' \in [Networks -> Seq(AllTasks)] /\ tasks'[n] = ts
      /\ \A k \in Networks \ {n} : tasks'[k] = tasks[k]
  BY DEF AppliedInv
<1>3. pc'[n] = at /\ \A k \in Networks \ {n} : pc'[k] = pc[k]
  BY DEF ControlInv
<1>4. ASSUME NEW k \in Networks PROVE OnItsWay(pc'[k], running'[k], tasks'[k], link'[k])
  <2>1. CASE k = n
    BY <1>1, <1>2, <1>3, <2>1
  <2>2. CASE k # n
    <3>1. OnItsWay(pc[k], running[k], tasks[k], link[k])
      BY DEF AppliedInv
    <3> QED
      BY <1>1, <1>2, <1>3, <2>2, <3>1
  <2> QED
    BY <2>1, <2>2
<1>5. (\A k \in Networks : OnItsWay(pc[k], running[k], tasks[k], link[k]))'
  BY <1>4 DEF OnItsWay, Pending
<1> QED
  BY <1>1, <1>2, <1>5 DEF AppliedInv, Links, AddressSets, PeerMaps, NewLink, Created

(* A client that begins anew.                                              *)
LEMMA ClientBailsOut ==
    ASSUME ControlInv, AppliedInv, NEW n \in Networks, BailOut(n), link' = link
    PROVE  AppliedInv'
<1>1. link' = [link EXCEPT ![n] = link[n]] /\ link[n] \in Links \cup {NoLink}
  BY DEF AppliedInv
<1>2. <<>> \in Seq(AllTasks) /\ "fetch" \in PCs
  BY DEF PCs
<1>3. OnItsWay("fetch", running'[n], <<>>, link[n])
  BY DEF OnItsWay, Created, Configured, Addressed, AllRouted
<1>4. \A k \in Networks \ {n} : running'[k] = running[k]
  BY DEF BailOut, ControlInv
<1> QED
  BY <1>1, <1>2, <1>3, <1>4, OneClientMoves DEF BailOut, Goto

(* All clients begin anew, or are gone, and so may the interfaces be.      *)
LEMMA ClientsStartAgain ==
    ASSUME ControlInv, AppliedInv, NEW label \in {"fetch", "dead"}, NewProcess(label),
           link' \in {link, [n \in Networks |-> NoLink]}
    PROVE  AppliedInv'
<1>1. link' \in [Networks -> Links \cup {NoLink}]
  BY DEF AppliedInv
<1>2. tasks' \in [Networks -> Seq(AllTasks)]
  <2>1. <<>> \in Seq(AllTasks)
    OBVIOUS
  <2> QED
    BY <2>1 DEF NewProcess
<1>3. \A n \in Networks : OnItsWay(label, running'[n], tasks'[n], link'[n])
  BY DEF OnItsWay, Created, Configured, Addressed, AllRouted
<1>4. (\A n \in Networks : OnItsWay(pc[n], running[n], tasks[n], link[n]))'
  BY <1>3 DEF NewProcess, OnItsWay
<1> QED
  BY <1>1, <1>2, <1>4 DEF AppliedInv

(* An interface whose addresses, or routes, are set.                       *)
LEMMA LinkChanged ==
    ASSUME NEW l \in Links, NEW s \in AddressSets
    PROVE  /\ [l EXCEPT !.addresses = s] \in Links
           /\ [l EXCEPT !.routes = s] \in Links
           /\ [l EXCEPT !.up = TRUE] \in Links
BY DEF Links, AddressSets

(* A new interface is an interface.                                         *)
LEMMA NewLinkIsOne == NewLink \in Links /\ NoLink \notin Links
<1>1. {} \in AddressSets
  BY FS_EmptySet DEF AddressSets
<1>2. NewLink.peers \in PeerMaps
  BY DEF PeerMaps
<1>3. NewLink = [peers |-> NewLink.peers, port |-> 0, addresses |-> {}, up |-> FALSE, routes |-> {}]
  BY DEF NewLink
<1> HIDE DEF NewLink
<1>4. NewLink \in Links
  <2>1. ASSUME NEW ps \in PeerMaps, NEW s \in AddressSets
        PROVE  [peers |-> ps, port |-> 0, addresses |-> s, up |-> FALSE, routes |-> s] \in Links
    BY DEF Links
  <2> QED
    BY <1>1, <1>2, <1>3, <2>1
<1>5. ASSUME NEW l \in Links PROVE l # NoLink
  <2>1. DOMAIN l = {"peers", "port", "addresses", "up", "routes"}
    BY DEF Links
  <2>2. DOMAIN NoLink = {"None"}
    BY DEF NoLink
  <2> QED
    BY <2>1, <2>2
<1> QED
  BY <1>4, <1>5

(* The steps of a client that change its interface or its tasks.           *)
LEMMA AppliedSteps ==
    ASSUME ControlInv, AppliedInv, NEW n \in Networks,
           \/ CreateInterface(n) \/ ConfigureWireguard(n)
           \/ ListAddresses(n) \/ ChangeAddress(n) \/ SetUp(n)
           \/ ListRoutes(n) \/ ChangeRoute(n)
    PROVE  AppliedInv'
<1> DEFINE v == running[n]
           l == link[n]
           ts == tasks[n]
<1>1. /\ pc[n] \in PCs /\ ts \in Seq(AllTasks) /\ l \in Links \cup {NoLink}
      /\ OnItsWay(pc[n], v, ts, l)
  BY DEF ControlInv, AppliedInv
<1>2. pc[n] \notin {"fetch", "dead"} => v \in AllViews
  BY ViewsAreViews DEF ControlInv
<1>3. tasks = [tasks EXCEPT ![n] = ts] /\ pc = [pc EXCEPT ![n] = pc[n]]
  BY DEF ControlInv, AppliedInv
<1> HIDE DEF Goal, RouteGoal
<1>4. CASE CreateInterface(n)
  <2> DEFINE m == IF l = NoLink THEN NewLink ELSE l
  <2>1. m \in Links
    BY <1>1, NewLinkIsOne
  <2>2. /\ link' = [link EXCEPT ![n] = m] /\ pc' = [pc EXCEPT ![n] = "configure"]
        /\ running' = running /\ tasks' = [tasks EXCEPT ![n] = ts]
    BY <1>3, <1>4 DEF CreateInterface, Goto, AppliedInv
  <2> HIDE DEF m
  <2>3. OnItsWay("configure", running'[n], ts, m) /\ "configure" \in PCs
    BY <2>1 DEF OnItsWay, Created, Configured, Addressed, AllRouted, PCs
  <2> QED
    BY <1>1, <2>1, <2>2, <2>3, OneClientMoves
<1>5. CASE ConfigureWireguard(n)
  <2> DEFINE port == PortAfter(l.port, Goal[v].Settings)
             m == [l EXCEPT !.peers = Goal[v].Peers, !.port = port]
  <2>1. l \in Links /\ v \in AllViews
    BY <1>1, <1>2, <1>5 DEF ConfigureWireguard, OnItsWay, Created, PCs
  <2>2. port \in Nat /\ (Goal[v].Settings # 0 => port = Goal[v].Settings)
    BY <2>1, GoalTyped DEF PortAfter, Links
  <2>3. /\ link' = [link EXCEPT ![n] = m] /\ pc' = [pc EXCEPT ![n] = "list addresses"]
        /\ running' = running /\ tasks' = [tasks EXCEPT ![n] = ts]
    BY <1>1, <1>3, <1>5 DEF ConfigureWireguard, Goto, AppliedInv
  <2> HIDE DEF port
  <2>4. m \in Links /\ m.peers = Goal[v].Peers /\ m.port = port
    BY <2>1, <2>2 DEF Links, PeerMaps
  <2> HIDE DEF m
  <2>5. OnItsWay("list addresses", v, ts, m) /\ "list addresses" \in PCs
    BY <2>2, <2>4 DEF OnItsWay, Created, Configured, Addressed, AllRouted, PCs
  <2> QED
    BY <1>1, <2>3, <2>4, <2>5, OneClientMoves
<1>6. CASE ListAddresses(n)
  <2> DEFINE new == Tasks(l.addresses, Goal[v].Addresses)
  <2>1. l \in Links /\ v \in AllViews
    BY <1>1, <1>2, <1>6 DEF ListAddresses, OnItsWay, Created, PCs
  <2>2. new \in Seq(AllTasks) /\ Pending(l.addresses, new, Range(Goal[v].Addresses))
    BY <2>1, GoalTyped, TasksArePending DEF Links, AddressSets
  <2>3. /\ pc' = [pc EXCEPT ![n] = "addresses"]
        /\ running' = [running EXCEPT ![n] = OwnSorted(v)] /\ tasks' = [tasks EXCEPT ![n] = new]
    BY <1>6, Zenon DEF ListAddresses, Goto
  <2>4. link' = [link EXCEPT ![n] = l]
    BY <1>6 DEF ListAddresses, kernel, AppliedInv
  <2>5. running'[n] = OwnSorted(v) /\ \A k \in Networks \ {n} : running'[k] = running[k]
    BY <2>3 DEF ControlInv
  <2>6. v \in HeldViews(n)
    BY <1>6 DEF ListAddresses, ControlInv
  <2> HIDE DEF new
  <2>7. /\ l.peers = Goal[OwnSorted(v)].Peers
        /\ Goal[OwnSorted(v)].Settings # 0 => l.port = Goal[OwnSorted(v)].Settings
        /\ Pending(l.addresses, new, Range(Goal[OwnSorted(v)].Addresses))
    BY <1>1, <1>6, <2>2, <2>6, SortedGoal DEF ListAddresses, OnItsWay, Created, Configured, PCs
  <2>8. OnItsWay("addresses", OwnSorted(v), new, l) /\ "addresses" \in PCs
    BY <2>1, <2>7 DEF OnItsWay, Created, Configured, Addressed, AllRouted, PCs
  <2> QED
    BY <1>1, <2>2, <2>3, <2>4, <2>5, <2>8, OneClientMoves
<1>7. CASE ChangeAddress(n)
  <2> DEFINE t == Head(ts)
             new == Do(t, l.addresses)
             routes == IF t.op = "del" THEN l.routes \ OwnRoutes({t.ip})
                       ELSE IF l.up THEN l.routes \cup OwnRoutes({t.ip}) ELSE l.routes
             m == [l EXCEPT !.addresses = new, !.routes = routes]
  <2>1. /\ l \in Links /\ ts # <<>> /\ pc[n] = "addresses"
        /\ Pending(l.addresses, ts, Range(Goal[v].Addresses))
    BY <1>1, <1>7 DEF ChangeAddress, OnItsWay, Created, PCs
  <2>2. /\ Tail(ts) \in Seq(AllTasks)
        /\ new \in SUBSET Nat /\ IsFiniteSet(new)
        /\ Pending(new, Tail(ts), Range(Goal[v].Addresses))
    <3> DEFINE there == l.addresses
               wanted == Range(Goal[v].Addresses)
    <3>1. there \in SUBSET Nat /\ IsFiniteSet(there)
      BY <2>1 DEF Links, AddressSets
    <3>2. ts \in Seq(AllTasks) /\ ts # <<>> /\ Pending(there, ts, wanted)
      BY <1>1, <2>1
    <3> HIDE DEF l, ts, v, there, wanted
    <3>3. /\ Tail(ts) \in Seq(AllTasks)
          /\ Do(Head(ts), there) \in SUBSET Nat /\ IsFiniteSet(Do(Head(ts), there))
          /\ Pending(Do(Head(ts), there), Tail(ts), wanted)
      BY <3>1, <3>2, TaskDone
    <3> QED
      BY <3>3 DEF there, wanted
  <2>3. /\ pc' = [pc EXCEPT ![n] = "addresses"]
        /\ running' = running /\ tasks' = [tasks EXCEPT ![n] = Tail(ts)]
    BY <1>3, <1>7, <2>1 DEF ChangeAddress
  <2>4. t.op \in {"add", "del"} /\ {t.ip} \in AddressSets
    <3>1. t \in AllTasks
      BY <1>1, <2>1
    <3> HIDE DEF t
    <3> QED
      BY <3>1, FS_Singleton DEF AllTasks, AddressSets
  <2>5. link' = [link EXCEPT ![n] = m]
    <3> HIDE DEF t, OwnRoutes
    <3>1. CASE t.op = "del"
      BY <1>7, <3>1 DEF ChangeAddress, Do, AppliedInv, t
    <3>2. CASE t.op = "add"
      BY <1>7, <3>2 DEF ChangeAddress, Do, AppliedInv, t
    <3> QED
      BY <2>4, <3>1, <3>2
  <2>6. routes \in AddressSets
    <3> HIDE DEF t
    <3>1. OwnRoutes({t.ip}) \in AddressSets /\ l.routes \in AddressSets
      BY <2>1, <2>4, FS_Subset DEF OwnRoutes, AddressSets, Links
    <3> QED
      BY <3>1, FS_Union, FS_Subset DEF AddressSets
  <2> HIDE DEF new, routes
  <2>7. m \in Links /\ m.peers = l.peers /\ m.port = l.port /\ m.addresses = new
    BY <2>1, <2>2, <2>6 DEF AddressSets, Links
  <2> HIDE DEF m
  <2>8. OnItsWay("addresses", v, Tail(ts), m) /\ "addresses" \in PCs
    BY <1>1, <2>1, <2>2, <2>7 DEF OnItsWay, Created, Configured, Addressed, AllRouted, PCs
  <2> QED
    BY <1>1, <2>2, <2>3, <2>5, <2>7, <2>8, OneClientMoves
<1>8. CASE SetUp(n)
  <2> DEFINE routes == IF l.up THEN l.routes ELSE l.routes \cup OwnRoutes(l.addresses)
             m == [l EXCEPT !.up = TRUE, !.routes = routes]
  <2>1. /\ l \in Links /\ ts = <<>> /\ pc[n] = "addresses"
        /\ l.addresses = Range(Goal[v].Addresses)
    BY <1>1, <1>8, NothingPending DEF SetUp, OnItsWay, Created, PCs
  <2>2. /\ link' = [link EXCEPT ![n] = m] /\ pc' = [pc EXCEPT ![n] = "list routes"]
        /\ running' = running /\ tasks' = [tasks EXCEPT ![n] = ts]
    <3> HIDE DEF OwnRoutes
    <3> QED
      BY <1>3, <1>8 DEF SetUp, Goto, AppliedInv
  <2>5. routes \in AddressSets
    <3>1. OwnRoutes(l.addresses) \in AddressSets /\ l.routes \in AddressSets
      BY <2>1, FS_Subset DEF OwnRoutes, AddressSets, Links
    <3> QED
      BY <3>1, FS_Union DEF AddressSets
  <2> HIDE DEF routes
  <2>3. /\ m \in Links /\ m.peers = l.peers /\ m.port = l.port
        /\ m.addresses = l.addresses /\ m.up
    BY <2>1, <2>5 DEF Links
  <2> HIDE DEF m
  <2>4. OnItsWay("list routes", v, ts, m) /\ "list routes" \in PCs
    BY <1>1, <2>1, <2>3 DEF OnItsWay, Created, Configured, Addressed, AllRouted, PCs
  <2> QED
    BY <1>1, <2>2, <2>3, <2>4, OneClientMoves
<1>9. CASE ListRoutes(n)
  <2> DEFINE new == Tasks(l.routes, RouteGoal[v])
  <2>1. l \in Links /\ v \in AllViews
    BY <1>1, <1>2, <1>9 DEF ListRoutes, OnItsWay, Created, PCs
  <2>2. new \in Seq(AllTasks) /\ Pending(l.routes, new, Range(RouteGoal[v]))
    BY <2>1, RouteGoalTyped, TasksArePending DEF Links, AddressSets
  <2>3. /\ link' = [link EXCEPT ![n] = l] /\ pc' = [pc EXCEPT ![n] = "routes"]
        /\ running' = running /\ tasks' = [tasks EXCEPT ![n] = new]
    BY <1>9 DEF ListRoutes, Goto, kernel, AppliedInv
  <2> HIDE DEF new
  <2>4. OnItsWay("routes", v, new, l) /\ "routes" \in PCs
    BY <1>1, <1>9, <2>1, <2>2
       DEF ListRoutes, OnItsWay, Created, Configured, Addressed, AllRouted, PCs
  <2> QED
    BY <1>1, <2>2, <2>3, <2>4, OneClientMoves
<1>10. CASE ChangeRoute(n)
  <2> DEFINE t == Head(ts)
             new == Do(t, l.routes)
             m == [l EXCEPT !.routes = new]
  <2>1. /\ l \in Links /\ ts # <<>> /\ pc[n] = "routes"
        /\ Pending(l.routes, ts, Range(RouteGoal[v]))
    BY <1>1, <1>10 DEF ChangeRoute, OnItsWay, Created, PCs
  <2>2. /\ Tail(ts) \in Seq(AllTasks)
        /\ new \in SUBSET Nat /\ IsFiniteSet(new)
        /\ Pending(new, Tail(ts), Range(RouteGoal[v]))
    <3> DEFINE there == l.routes
               wanted == Range(RouteGoal[v])
    <3>1. there \in SUBSET Nat /\ IsFiniteSet(there)
      BY <2>1 DEF Links, AddressSets
    <3>2. ts \in Seq(AllTasks) /\ ts # <<>> /\ Pending(there, ts, wanted)
      BY <1>1, <2>1
    <3> HIDE DEF l, ts, v, there, wanted
    <3>3. /\ Tail(ts) \in Seq(AllTasks)
          /\ Do(Head(ts), there) \in SUBSET Nat /\ IsFiniteSet(Do(Head(ts), there))
          /\ Pending(Do(Head(ts), there), Tail(ts), wanted)
      BY <3>1, <3>2, TaskDone
    <3> QED
      BY <3>3 DEF there, wanted
  <2>3. /\ link' = [link EXCEPT ![n] = m] /\ pc' = [pc EXCEPT ![n] = "routes"]
        /\ running' = running /\ tasks' = [tasks EXCEPT ![n] = Tail(ts)]
    BY <1>3, <1>10, <2>1 DEF ChangeRoute, Do, AppliedInv
  <2> HIDE DEF new
  <2>4. /\ m \in Links /\ m.peers = l.peers /\ m.port = l.port
        /\ m.addresses = l.addresses /\ m.up = l.up /\ m.routes = new
    BY <2>1, <2>2, LinkChanged DEF AddressSets, Links
  <2> HIDE DEF m
  <2>5. OnItsWay("routes", v, Tail(ts), m) /\ "routes" \in PCs
    BY <1>1, <2>1, <2>2, <2>4 DEF OnItsWay, Created, Configured, Addressed, AllRouted, PCs
  <2> QED
    BY <1>1, <2>2, <2>3, <2>4, <2>5, OneClientMoves
<1> QED
  BY <1>4, <1>5, <1>6, <1>7, <1>8, <1>9, <1>10

(* The steps of a client that leave its interface and its tasks alone.     *)
LEMMA AppliedMoves ==
    ASSUME ControlInv, AppliedInv, NEW n \in Networks,
           \/ Fetch(n) \/ UpdateDNS(n) \/ RoutesDone(n)
           \/ ReadForward(n) \/ WriteForward(n)
           \/ Applied(n) \/ PostStatus(n) \/ GetLatest(n)
    PROVE  AppliedInv'
<1> DEFINE ts == tasks[n]
           l == link[n]
<1>1. /\ pc[n] \in PCs /\ ts \in Seq(AllTasks) /\ l \in Links \cup {NoLink}
      /\ OnItsWay(pc[n], running[n], ts, l)
  BY DEF ControlInv, AppliedInv
<1>2. link' = [link EXCEPT ![n] = l] /\ tasks' = [tasks EXCEPT ![n] = ts]
  BY DEF AppliedInv, Fetch, UpdateDNS, RoutesDone, ReadForward, WriteForward, Applied, PostStatus,
     GetLatest, kernel
<1> HIDE DEF Goal, RouteGoal
<1> SUFFICES \E at \in PCs : /\ pc' = [pc EXCEPT ![n] = at]
                             /\ \A k \in Networks \ {n} : running'[k] = running[k]
                             /\ OnItsWay(at, running'[n], ts, l)
  BY <1>1, <1>2, OneClientMoves
<1>3. CASE Fetch(n)
  <2>1. OnItsWay("dns", running'[n], ts, l) /\ "dns" \in PCs
    BY DEF OnItsWay, Created, Configured, Addressed, AllRouted, PCs
  <2> QED
    BY <1>3, <2>1 DEF Fetch, Goto, ControlInv
<1>4. CASE UpdateDNS(n)
  <2>1. OnItsWay("create", running'[n], ts, l) /\ "create" \in PCs
    BY DEF OnItsWay, Created, Configured, Addressed, AllRouted, PCs
  <2> QED
    BY <1>4, <2>1 DEF UpdateDNS, Goto
<1>5. CASE RoutesDone(n)
  <2>1. /\ ts = <<>> /\ pc[n] = "routes" /\ running' = running
        /\ l.routes = Range(RouteGoal[running[n]])
    BY <1>1, <1>5, NothingPending DEF RoutesDone, OnItsWay
  <2>2. ASSUME NEW at \in {"ipv6", "read"} PROVE OnItsWay(at, running'[n], ts, l) /\ at \in PCs
    BY <1>1, <2>1 DEF OnItsWay, Created, Configured, Addressed, AllRouted, PCs
  <2>3. pc' = [pc EXCEPT ![n] = IF AssumeProc THEN "ipv6" ELSE "read"]
    BY <1>5 DEF RoutesDone, Goto
  <2> QED
    BY <2>1, <2>2, <2>3
<1>6. CASE ReadForward(n) \/ WriteForward(n) \/ Applied(n) \/ PostStatus(n) \/ GetLatest(n)
  <2>1. pc[n] \in AllRouted /\ running' = running
    BY <1>6 DEF ReadForward, WriteForward, Applied, PostStatus, GetLatest,
       AllRouted, Addressed, Configured, Created, PCs
  <2>2. PICK at \in AllRouted \cup {"fetch"} : pc' = [pc EXCEPT ![n] = at]
    BY <1>6 DEF ReadForward, WriteForward, Applied, PostStatus, GetLatest, Goto,
       AllRouted, Addressed, Configured, Created, PCs
  <2>3. OnItsWay(at, running'[n], ts, l) /\ at \in PCs
    BY <1>1, <2>1 DEF OnItsWay, Created, Configured, Addressed, AllRouted, PCs
  <2> QED
    BY <2>1, <2>2, <2>3
<1> QED
  BY <1>3, <1>4, <1>5, <1>6

(* At the start nothing is set up and nobody claims it is.                  *)
LEMMA AppliedStarts == HostInit => AppliedInv
<1> SUFFICES ASSUME HostInit PROVE AppliedInv
  OBVIOUS
<1>1. link \in [Networks -> Links \cup {NoLink}]
  BY DEF HostInit
<1>2. tasks \in [Networks -> Seq(AllTasks)]
  <2>1. <<>> \in Seq(AllTasks)
    OBVIOUS
  <2> QED
    BY <2>1 DEF HostInit
<1>3. \A n \in Networks : OnItsWay(pc[n], running[n], tasks[n], link[n])
  BY DEF HostInit, OnItsWay, Created, Configured, Addressed, AllRouted
<1> QED
  BY <1>1, <1>2, <1>3 DEF AppliedInv

(* Every step keeps every client on its way.                                *)
LEMMA AppliedKept ==
    ASSUME ControlInv, AppliedInv, [HostNext]_vars
    PROVE  AppliedInv'
<1>1. ASSUME NEW n \in Networks, ClientStep(n) PROVE AppliedInv'
  <2>1. CASE AddTwice(n)
    BY <2>1, ClientBailsOut DEF AddTwice, kernel
  <2>2. CASE PanicIPv6(n)
    BY <2>2, ClientsStartAgain DEF PanicIPv6, kernel
  <2> QED
    BY <1>1, <2>1, <2>2, AppliedSteps, AppliedMoves DEF ClientStep
<1>2. ASSUME NEW n \in Networks, CallFails(n) PROVE AppliedInv'
  BY <1>2, ClientBailsOut DEF CallFails, kernel
<1>3. CASE Crash
  BY <1>3, ClientsStartAgain DEF Crash, kernel
<1>4. CASE Reboot
  BY <1>4, ClientsStartAgain DEF Reboot
<1>5. ASSUME UNCHANGED <<client, kernel>> PROVE AppliedInv'
  <2>1. /\ pc' = pc /\ running' = running /\ tasks' = tasks /\ link' = link
    BY <1>5 DEF client, kernel
  <2> QED
    BY <2>1 DEF AppliedInv, OnItsWay
<1>6. ASSUME NEW n \in Networks, NewView(n) PROVE AppliedInv'
  BY <1>5, <1>6 DEF NewView
<1>7. CASE UNCHANGED vars
  BY <1>5, <1>7 DEF vars
<1> QED
  BY <1>1, <1>2, <1>3, <1>4, <1>6, <1>7 DEF HostNext

(* Every client is always on its way.                                       *)
LEMMA AppliedAlways == HostSpec => []AppliedInv
BY AppliedStarts, AppliedKept, ControlAlways, PTL DEF HostSpec

-----------------------------------------------------------------------------
(* What a machine runs and what its kernel has stay well-formed: every     *)
(* address a client adds or removes is one, and no machine peers itself.   *)
THEOREM HostTypeCorrect == HostSpec => []HostTypeOK
<1>1. ControlInv /\ AppliedInv => HostTypeOK
  <2> SUFFICES ASSUME ControlInv, AppliedInv PROVE HostTypeOK
    OBVIOUS
  <2> USE DEF ControlInv, AppliedInv
  <2>1. DOMAIN tasks = Networks /\ \A n \in Networks : \A i \in DOMAIN tasks[n] : IsTask(tasks[n][i])
    <3> SUFFICES ASSUME NEW n \in Networks, NEW i \in DOMAIN tasks[n] PROVE IsTask(tasks[n][i])
      OBVIOUS
    <3>1. tasks[n] \in Seq(AllTasks)
      OBVIOUS
    <3>2. tasks[n][i] \in AllTasks
      BY <3>1
    <3> QED
      BY <3>2 DEF AllTasks, IsTask
  <2>2. DOMAIN link = Networks /\ \A n \in Networks : link[n] = NoLink \/ IsLink(link[n])
    <3> SUFFICES ASSUME NEW l \in Links PROVE IsLink(l)
      OBVIOUS
    <3>1. DOMAIN l.peers \subseteq DeviceNames \ {Me}
      <4>1. CASE l.peers = NewLink.peers
        BY <4>1 DEF NewLink
      <4>2. ASSUME NEW v \in AllViews, l.peers = Goal[v].Peers PROVE DOMAIN l.peers \subseteq DeviceNames \ {Me}
        <5> HIDE DEF Goal
        <5> QED
          BY <4>2, GoalTyped
      <4> HIDE DEF Goal
      <4> QED
        BY <4>1, <4>2 DEF Links, PeerMaps
    <3>2. l = [peers |-> l.peers, port |-> l.port, addresses |-> l.addresses, up |-> l.up, routes |-> l.routes]
      BY DEF Links
    <3>3. l.port \in Nat /\ l.up \in BOOLEAN /\ l.addresses \subseteq Nat /\ l.routes \subseteq Nat
      BY DEF Links, AddressSets
    <3> QED
      BY <3>1, <3>2, <3>3 DEF IsLink
  <2>3. DOMAIN view = Networks /\ DOMAIN running = Networks
    OBVIOUS
  <2> QED
    BY <2>1, <2>2, <2>3 DEF HostTypeOK
<1> QED
  BY <1>1, AppliedAlways, ControlAlways, PTL

(* "Assuming the error is temporary, you can just rerun this function to   *)
(* get to your goal state": whatever a run that failed, a crash, a reboot  *)
(* or an older view has left behind, a client that has applied its machine *)
(* has an interface that is exactly what the machine says.                 *)
THEOREM GoalsAreApplied == HostSpec => []AppliedReachesGoal
<1>1. ControlInv /\ AppliedInv => AppliedReachesGoal
  <2> SUFFICES ASSUME ControlInv, AppliedInv, NEW n \in Networks, pc[n] \in {"ipv6", "post", "idle"}
               PROVE  HasGoal(n, running[n])
    BY Zenon DEF AppliedReachesGoal
  <2> HIDE DEF Goal, RouteGoal
  <2>1. running[n] \in AllViews
    BY ViewsAreViews DEF ControlInv
  <2>2. /\ OnItsWay(pc[n], running[n], tasks[n], link[n])
        /\ pc[n] \in Created /\ pc[n] \in Configured /\ pc[n] \in Addressed /\ pc[n] \in AllRouted
    BY DEF AppliedInv, Created, Configured, Addressed, AllRouted, PCs
  <2>3. link[n].routes = RoutedAddresses(running[n])
    BY <2>1, <2>2, RouteGoalTyped DEF OnItsWay
  <2>4. link[n] # NoLink
    BY <2>2, NewLinkIsOne DEF OnItsWay
  <2> QED
    BY <2>2, <2>3, <2>4 DEF OnItsWay, RoutedAddresses, HasGoal
<1> QED
  BY <1>1, AppliedAlways, ControlAlways, PTL
=============================================================================
