------------------------------ MODULE DeviceHost ------------------------------
(***************************************************************************)
(* One machine and the device-client process on it: a client for each of   *)
(* its networks, all with the same DNS server (-dns-self) and the same     *)
(* kernel.  Each repeats ReifySpec, of which this module has what happens  *)
(* on the machine: the view goes to the DNS server, is compiled, and       *)
(* ApplyMachine (goal/apply_linux.go) makes the kernel's state what the    *)
(* machine says, one call after the other, any of which may fail.  The     *)
(* client's calls to the coordination server are ReifyProtocol's matter.   *)
(*                                                                         *)
(* The interface of a network has its name, so every client's Applier      *)
(* manages one interface.  Addresses are numbers, each for one host: the   *)
(* kernel adds a route of its own for a /128, and none for a /32.          *)
(***************************************************************************)
EXTENDS DNSServer, Routes, Slices

CONSTANTS
    Me,              \* the name of this machine in its networks
    Views,           \* per network, the views the server may have for it
    InitView,        \* the one it has at the start
    IPv6Addresses,   \* the addresses that are of IPv6
    AssumeProc,      \* configuration: do not touch ip_forward
    MaxDisturbances  \* failing calls, crashes, reboots and new views, together

Networks == DOMAIN Views

(* A view after its own addresses have been sorted where they are.         *)
OwnSorted(v) == [v EXCEPT !.Devices[Me].Addresses = Sorted[@]]

HeldViews(n) == Views[n] \cup {OwnSorted(v) : v \in Views[n]}
AllViews     == UNION {HeldViews(n) : n \in Networks}

ASSUME HostAssumption ==
    /\ AddressLists \subseteq Seq(Nat)
    /\ \A as \in AddressLists : Sorted[as] \in AddressLists
    /\ IPv6Addresses \subseteq Nat
    /\ IPv6Lists = {as \in AddressLists : Range(as) \cap IPv6Addresses # {}}
    /\ IPv4Lists = {as \in AddressLists : ~(Range(as) \subseteq IPv6Addresses)}
    /\ SettingsValues \subseteq Nat   \* ListenPort
    /\ \A n \in Networks : \A v \in Views[n] :
         IsNetworkCensored(v) /\ v.Name = n /\ v.CensoredFor = Me /\ Me \in DOMAIN v.Devices
    /\ InitView \in [Networks -> AllViews]
    /\ \A n \in Networks : InitView[n] \in Views[n]
    /\ AssumeProc \in BOOLEAN
    /\ MaxDisturbances \in Nat

VARIABLES
    view,       \* what the server would send each client
    pc,         \* where each client is
    running,    \* the view a client is applying, or has applied
    tasks,      \* addresses or routes a client has still to remove or add
    oldForward, \* ip_forward as a client read it
    link,       \* the kernel: the interface of each network
    ipForward,  \* the kernel: /proc/sys/net/ipv4/ip_forward
    left        \* disturbances still to come

kernel == <<link, ipForward>>
client == <<pc, running, tasks, oldForward>>
vars   == <<view, client, kernel, served, left>>

NoView == [None |-> TRUE]
NoLink == [None |-> TRUE]

(* An interface as LinkAdd makes it.                                       *)
NewLink == [peers |-> [p \in {} |-> NoName], port |-> 0, addresses |-> {}, up |-> FALSE, routes |-> {}]

PCs == {"fetch", "dns", "create", "configure", "list addresses", "addresses",
        "list routes", "routes", "read", "write", "ipv6", "post", "idle", "dead"}

HostInit ==
    /\ view = InitView
    /\ pc = [n \in Networks |-> "fetch"]
    /\ running = [n \in Networks |-> NoView]
    /\ tasks = [n \in Networks |-> <<>>]
    /\ oldForward = [n \in Networks |-> FALSE]
    /\ link = [n \in Networks |-> NoLink]
    /\ ipForward = FALSE
    /\ DNSInit
    /\ left = MaxDisturbances

-----------------------------------------------------------------------------
(* What the client of each view has to set up.  Ways through forwarders    *)
(* make no difference here: every other device is its own peer.            *)
Goal == [v \in AllViews |->
    CompileMachine(v.Devices, [p \in DOMAIN v.Devices |-> p], v.CensoredFor)]

(* The AllowedIPs of all peers of each view, one after the other.          *)
RouteGoal == [v \in AllViews |->
    FlattenSeq([i \in DOMAIN DeviceOrder |->
        IF DeviceOrder[i] \in DOMAIN v.Devices /\ Routed(Goal[v], DeviceOrder[i])
        THEN v.Devices[DeviceOrder[i]].Addresses
        ELSE <<>>])]

Task(op, ip) == [op |-> op, ip |-> ip]

(* Faulty variant of Tasks: what is there and not wanted is left there.    *)
TasksAddOnly(there, wanted) ==
    LET added == SetDifference(wanted, SetToSeq(there))
    IN [i \in DOMAIN added |-> Task("add", added[i])]

(* The address tasks, for addresses and for routes: removals come first.   *)
(* A wanted address that is listed twice is added twice.                   *)
Tasks(there, wanted) ==
    LET removed == SetDifference(SetToSeq(there), wanted)
        added   == SetDifference(wanted, SetToSeq(there))
    IN [i \in DOMAIN removed |-> Task("del", removed[i])]
         \o [i \in DOMAIN added |-> Task("add", added[i])]

Goto(n, label) == pc' = [pc EXCEPT ![n] = label]

Disturb == left > 0 /\ left' = left - 1

(* ApplyMachine bails out; Step will run ReifySpec again.                  *)
BailOut(n) ==
    /\ Goto(n, "fetch")
    /\ running' = [running EXCEPT ![n] = NoView]
    /\ tasks' = [tasks EXCEPT ![n] = <<>>]
    /\ oldForward' = [oldForward EXCEPT ![n] = FALSE]

-----------------------------------------------------------------------------
(* ReifySpec begins: the view that is used to the end.                     *)
Fetch(n) ==
    /\ pc[n] = "fetch"
    /\ running' = [running EXCEPT ![n] = view[n]]
    /\ Goto(n, "dns")
    /\ UNCHANGED <<view, tasks, oldForward, kernel, served, left>>

(* Faulty variant of UpdateDNS: a server that has a view keeps it.         *)
UpdateDNSOnce(n) ==
    /\ pc[n] = "dns"
    /\ IF served = NotServed THEN UpdateSpec(running[n]) ELSE UNCHANGED served
    /\ Goto(n, "create")
    /\ UNCHANGED <<view, running, tasks, oldForward, kernel, left>>

(* updateDNS through a DirectClient: whatever the DNS server had from the  *)
(* other clients is replaced.                                              *)
UpdateDNS(n) ==
    /\ pc[n] = "dns"
    /\ UpdateSpec(running[n])
    /\ Goto(n, "create")
    /\ UNCHANGED <<view, running, tasks, oldForward, kernel, left>>

(* Faulty variant of CreateInterface: the listed devices are not consulted *)
(* and adding one that exists is an error.                                 *)
CreateAlways(n) ==
    /\ pc[n] = "create"
    /\ IF link[n] = NoLink
       THEN /\ link' = [link EXCEPT ![n] = NewLink]
            /\ Goto(n, "configure")
            /\ UNCHANGED <<running, tasks, oldForward>>
       ELSE BailOut(n) /\ UNCHANGED link
    /\ UNCHANGED <<view, ipForward, served, left>>

(* Interfaces of the machine that are not among the devices are created;   *)
(* there is never one to delete, as the machine always has the one         *)
(* interface its Applier manages.                                          *)
CreateInterface(n) ==
    /\ pc[n] = "create"
    /\ link' = IF link[n] = NoLink THEN [link EXCEPT ![n] = NewLink] ELSE link
    /\ Goto(n, "configure")
    /\ UNCHANGED <<view, running, tasks, oldForward, ipForward, served, left>>

(* Faulty variant of PortAfter: "set to -1 for nothing".                   *)
PortUnset(old, listenPort) == IF listenPort = 0 THEN -1 ELSE listenPort

(* cfg.ListenPort is nil without a ListenPort: the port stays what it was. *)
PortAfter(old, listenPort) == IF listenPort = 0 THEN old ELSE listenPort

(* configureWireguard: all peers are replaced.                             *)
ConfigureWireguard(n) ==
    /\ pc[n] = "configure"
    /\ LET m == Goal[running[n]] IN
       link' = [link EXCEPT ![n].peers = m.Peers,
                            ![n].port = PortAfter(@, m.Settings)]
    /\ Goto(n, "list addresses")
    /\ UNCHANGED <<view, running, tasks, oldForward, ipForward, served, left>>

(* updateInterfaceAddresses: AddrList.  setDifference sorts the addresses  *)
(* of the interface, and they are those of the view, in one array with the *)
(* DNS server's if that was handed this view last.                         *)
ListAddresses(n) ==
    /\ pc[n] = "list addresses"
    /\ running' = [running EXCEPT ![n] = OwnSorted(@)]
    /\ served' = IF served.Name = n THEN OwnSorted(served) ELSE served
    /\ tasks' = [tasks EXCEPT ![n] = Tasks(link[n].addresses, Goal[running[n]].Addresses)]
    /\ Goto(n, "addresses")
    /\ UNCHANGED <<view, oldForward, kernel, left>>

(* The kernel's own routes to addresses of an interface that is up.        *)
OwnRoutes(ips) == ips \cap IPv6Addresses

(* The head of the tasks is done: AddrDel, or AddrAdd when the interface   *)
(* does not have the address yet.                                          *)
ChangeAddress(n) ==
    /\ pc[n] = "addresses" /\ tasks[n] # <<>>
    /\ LET t == Head(tasks[n]) IN
       \/ /\ t.op = "del"
          /\ link' = [link EXCEPT ![n].addresses = @ \ {t.ip},
                                  ![n].routes = @ \ OwnRoutes({t.ip})]
       \/ /\ t.op = "add" /\ t.ip \notin link[n].addresses
          /\ link' = [link EXCEPT
                ![n].addresses = @ \cup {t.ip},
                ![n].routes = IF link[n].up THEN @ \cup OwnRoutes({t.ip}) ELSE @]
    /\ tasks' = [tasks EXCEPT ![n] = Tail(@)]
    /\ UNCHANGED <<view, pc, running, oldForward, ipForward, served, left>>

(* LinkSetUp.                                                              *)
SetUp(n) ==
    /\ pc[n] = "addresses" /\ tasks[n] = <<>>
    /\ link' = [link EXCEPT
          ![n].up = TRUE,
          ![n].routes = IF link[n].up THEN @ ELSE @ \cup OwnRoutes(link[n].addresses)]
    /\ Goto(n, "list routes")
    /\ UNCHANGED <<view, running, tasks, oldForward, ipForward, served, left>>

(* applyInterfaceRoutes: RouteList.                                        *)
ListRoutes(n) ==
    /\ pc[n] = "list routes"
    /\ tasks' = [tasks EXCEPT ![n] = Tasks(link[n].routes, RouteGoal[running[n]])]
    /\ Goto(n, "routes")
    /\ UNCHANGED <<view, running, oldForward, kernel, served, left>>

(* A route exists, on whatever interface: the kernel has one table, where  *)
(* its own routes have another metric and do not count.                    *)
RouteExists(ip) ==
    \E k \in Networks :
        link[k] # NoLink /\ ip \in link[k].routes \ OwnRoutes(link[k].addresses)

ChangeRoute(n) ==
    /\ pc[n] = "routes" /\ tasks[n] # <<>>
    /\ LET t == Head(tasks[n]) IN
       \/ t.op = "del" /\ link' = [link EXCEPT ![n].routes = @ \ {t.ip}]
       \/ /\ t.op = "add" /\ ~RouteExists(t.ip)
          /\ link' = [link EXCEPT ![n].routes = @ \cup {t.ip}]
    /\ tasks' = [tasks EXCEPT ![n] = Tail(@)]
    /\ UNCHANGED <<view, pc, running, oldForward, ipForward, served, left>>

(* Adding what exists (EEXIST): an address that is listed twice.           *)
AddTwice(n) ==
    /\ tasks[n] # <<>> /\ Head(tasks[n]).op = "add"
    /\ \/ pc[n] = "addresses" /\ Head(tasks[n]).ip \in link[n].addresses
       \/ pc[n] = "routes" /\ RouteExists(Head(tasks[n]).ip)
    /\ BailOut(n)
    /\ UNCHANGED <<view, kernel, served, left>>

RoutesDone(n) ==
    /\ pc[n] = "routes" /\ tasks[n] = <<>>
    /\ Goto(n, IF AssumeProc THEN "ipv6" ELSE "read")
    /\ UNCHANGED <<view, running, tasks, oldForward, kernel, served, left>>

(* ip_forward is read, and written in a step of its own if it has to be.   *)
ReadForward(n) ==
    /\ pc[n] = "read"
    /\ oldForward' = [oldForward EXCEPT ![n] = ipForward]
    /\ Goto(n, "write")
    /\ UNCHANGED <<view, running, tasks, kernel, served, left>>

(* Faulty variant of WriteForward: it is only ever switched on.            *)
WriteForwardOn(n) ==
    /\ pc[n] = "write"
    /\ ipForward' = (ipForward \/ Goal[running[n]].ForwardsIPv4)
    /\ oldForward' = [oldForward EXCEPT ![n] = FALSE]
    /\ Goto(n, "ipv6")
    /\ UNCHANGED <<view, running, tasks, link, served, left>>

(* What was read is not used again.                                        *)
WriteForward(n) ==
    /\ pc[n] = "write"
    /\ LET wanted == Goal[running[n]].ForwardsIPv4
       IN ipForward' = IF oldForward[n] # wanted THEN wanted ELSE ipForward
    /\ oldForward' = [oldForward EXCEPT ![n] = FALSE]
    /\ Goto(n, "ipv6")
    /\ UNCHANGED <<view, running, tasks, link, served, left>>

Applied(n) ==
    /\ pc[n] = "ipv6" /\ ~Goal[running[n]].ForwardsIPv6
    /\ Goto(n, "post")
    /\ UNCHANGED <<view, running, tasks, oldForward, kernel, served, left>>

(* postReifyStatus: the view is still the server's, or ReifySpec runs      *)
(* again.                                                                  *)
PostStatus(n) ==
    /\ pc[n] = "post"
    /\ Goto(n, IF running[n] = view[n] THEN "idle" ELSE "fetch")
    /\ UNCHANGED <<view, running, tasks, oldForward, kernel, served, left>>

(* getLatest, again and again: still latest, or not any more.              *)
GetLatest(n) ==
    /\ pc[n] = "idle"
    /\ Goto(n, IF running[n] = view[n] THEN "idle" ELSE "fetch")
    /\ UNCHANGED <<view, running, tasks, oldForward, kernel, served, left>>

-----------------------------------------------------------------------------
(* A call of ApplyMachine returns an error, and has changed nothing.       *)
CallFails(n) ==
    /\ pc[n] \in PCs \ {"fetch", "dns", "ipv6", "post", "idle", "dead"}
    /\ Disturb
    /\ BailOut(n)
    /\ UNCHANGED <<view, kernel, served>>

(* The process goes, with all its clients and the DNS server in it; every  *)
(* client of the next one, if there is one, begins at label.               *)
NewProcess(label) ==
    /\ pc' = [n \in Networks |-> label]
    /\ running' = [n \in Networks |-> NoView]
    /\ tasks' = [n \in Networks |-> <<>>]
    /\ oldForward' = [n \in Networks |-> FALSE]
    /\ served' = NotServed

(* A goal with forwarding of IPv6: panic("not implemented yet").  Nothing  *)
(* starts the process again: its unit has no Restart=.                     *)
PanicIPv6(n) ==
    /\ pc[n] = "ipv6" /\ Goal[running[n]].ForwardsIPv6
    /\ NewProcess("dead")
    /\ UNCHANGED <<view, kernel, left>>

(* The process ends, or has ended, and is started by hand.                 *)
Crash ==
    /\ Disturb /\ NewProcess("fetch")
    /\ UNCHANGED <<view, kernel>>

Reboot ==
    /\ Disturb /\ NewProcess("fetch")
    /\ link' = [n \in Networks |-> NoLink]
    /\ ipForward' = FALSE
    /\ UNCHANGED view

(* The specification changes.                                              *)
NewView(n) ==
    /\ Disturb
    /\ view' \in {[view EXCEPT ![n] = v] : v \in Views[n] \ {view[n]}}
    /\ UNCHANGED <<client, kernel, served>>

ClientStep(n) ==
    \/ Fetch(n) \/ UpdateDNS(n)
    \/ CreateInterface(n) \/ ConfigureWireguard(n)
    \/ ListAddresses(n) \/ ChangeAddress(n) \/ SetUp(n)
    \/ ListRoutes(n) \/ ChangeRoute(n) \/ AddTwice(n) \/ RoutesDone(n)
    \/ ReadForward(n) \/ WriteForward(n)
    \/ Applied(n) \/ PanicIPv6(n)
    \/ PostStatus(n) \/ GetLatest(n)

HostNext ==
    \/ \E n \in Networks : ClientStep(n) \/ CallFails(n) \/ NewView(n)
    \/ Crash \/ Reboot

HostSpec == HostInit /\ [][HostNext]_vars

(* Every client has a goroutine of its own, that tries for ever.           *)
FairHost == HostSpec /\ \A n \in Networks : WF_vars(ClientStep(n))

-----------------------------------------------------------------------------
IsTask(t) == t.op \in {"add", "del"} /\ t.ip \in Nat

IsLink(l) ==
    /\ l = [peers |-> l.peers, port |-> l.port, addresses |-> l.addresses, up |-> l.up, routes |-> l.routes]
    /\ DOMAIN l.peers \subseteq DeviceNames \ {Me}
    /\ l.port \in Nat /\ l.up \in BOOLEAN
    /\ l.addresses \subseteq Nat /\ l.routes \subseteq Nat

HostTypeOK ==
    /\ DOMAIN view = Networks /\ \A n \in Networks : view[n] \in Views[n]
    /\ pc \in [Networks -> PCs]
    /\ DOMAIN running = Networks
    /\ \A n \in Networks : running[n] = NoView \/ running[n] \in HeldViews(n)
    /\ DOMAIN tasks = Networks
    /\ \A n \in Networks : \A i \in DOMAIN tasks[n] : IsTask(tasks[n][i])
    /\ oldForward \in [Networks -> BOOLEAN]
    /\ DOMAIN link = Networks
    /\ \A n \in Networks : link[n] = NoLink \/ IsLink(link[n])
    /\ ipForward \in BOOLEAN
    /\ served = NotServed \/ \E n \in Networks : served \in HeldViews(n)
    /\ left \in 0..MaxDisturbances

Done(n) == pc[n] = "idle" /\ running[n] = view[n]

(* The interface of network n is what a view of it asks for.               *)
HasGoal(n, v) ==
    LET m == Goal[v] IN
    /\ link[n] # NoLink /\ link[n].up
    /\ link[n].peers = m.Peers
    /\ m.Settings # 0 => link[n].port = m.Settings
    /\ link[n].addresses = Range(m.Addresses)
    /\ link[n].routes = UNION {Range(v.Devices[q].Addresses) :
          q \in {q \in DOMAIN v.Devices : Routed(m, q)}}

(* "Assuming the error is temporary, you can just rerun this function to   *)
(* get to your goal state": when ApplyMachine succeeds at last, the        *)
(* interface is what its machine says and nothing else, whatever earlier   *)
(* runs, for whatever views, left half-done.                               *)
AppliedReachesGoal ==
    \A n \in Networks : pc[n] \in {"ipv6", "post", "idle"} => HasGoal(n, running[n])

(* ip_forward is one switch read and written by every client, each for its *)
(* own network.  Once all are done and want the same they have it,         *)
(* whichever of them still acted on an older view in between.              *)
ForwardingAgrees ==
    \A f \in BOOLEAN :
        ~AssumeProc /\ (\A n \in Networks : Done(n) /\ Goal[view[n]].ForwardsIPv4 = f)
            => ipForward = f

(* A device's own name, under a parent that is no alias.                   *)
OwnName(parent, n, d) == Text[d] \o <<Dot>> \o Text[n] \o parent.Suffix

(* The names of a device under all parents, and its aliases.               *)
NamesOf(n, d) ==
    {OwnName(Parents[i], n, d) : i \in {i \in DOMAIN Parents : ~IsAlias(Parents[i])}}
      \cup {Parents[i].Suffix : i \in {i \in DOMAIN Parents :
                Parents[i].Network = n /\ Parents[i].Device = d}}

(* The parents are told apart: the first one that matches a device's name  *)
(* reads it as that device of that network, and as no other.               *)
NamesAreClear ==
    \A n \in Networks : \A d \in DeviceNames : \A name \in NamesOf(n, d) :
        LET matching == {i \in DOMAIN Parents : Matches(Parents[i], name)}
        IN /\ matching # {}
           /\ \A k \in NetworkNames : \A e \in DeviceNames :
                 AsksFor(Parents[Min(matching)], name, k, e) <=> k = n /\ e = d

(* The names that a parent is there for.                                   *)
NamesUnder(parent) ==
    IF IsAlias(parent) THEN {parent.Suffix}
    ELSE {OwnName(parent, n, d) : n \in Networks, d \in DeviceNames}

(* Parents whose text ends the names of others, were it in the middle of a *)
(* label, are listed after these.                                          *)
SpecificFirst ==
    \A i, j \in DOMAIN Parents : j < i =>
        \A name \in NamesUnder(Parents[i]) : ~IsSuffix(Parents[j].Suffix, name)

(* Nothing outdated is answered: of a network whose client is done, names  *)
(* have the addresses of the current view or none; and the network that    *)
(* was handed over last does have its names answered.                      *)
AnswersAreCurrent ==
    \A n \in Networks : Done(n) =>
        \A d \in DeviceNames : \A name \in NamesOf(n, d) :
            LET answer == HandleQuery(name)
                current == IF d \in DOMAIN view[n].Devices
                           THEN Success(Range(view[n].Devices[d].Addresses))
                           ELSE NameError IN
            /\ answer.rcode = "NOERROR" => answer = current
            /\ served.Name = n => answer = current

(* "List of DNS names to respond to": once every client is done, each      *)
(* device's name in each of the networks has its addresses.                *)
NamesAnswered ==
    (\A n \in Networks : Done(n)) =>
        \A n \in Networks : \A d \in DOMAIN view[n].Devices : \A name \in NamesOf(n, d) :
            HandleQuery(name) = Success(Range(view[n].Devices[d].Addresses))

(* Once disturbances stop, every network's current goal is reached for     *)
(* good, and its client stops applying it, unless the machine's own        *)
(* addresses are out of order and it starts over again and again; or the   *)
(* process is gone, after a view that asks for forwarding of IPv6.         *)
HostReachesGoals ==
    <>[](\/ \E n \in Networks : pc[n] = "dead"
         \/ \A n \in Networks : HasGoal(n, view[n]) /\ (Done(n) \/ OwnSorted(view[n]) # view[n]))
=============================================================================
