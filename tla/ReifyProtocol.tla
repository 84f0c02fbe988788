---------------------------- MODULE ReifyProtocol ----------------------------
(***************************************************************************)
(* Package device (client.go, continuous.go) and the loop of               *)
(* cmd/device-client: the clients of one network around one coordination   *)
(* server.  A client fetches its view, makes its key and its reachability  *)
(* known, hands the view to the DNS server, applies it to WireGuard and    *)
(* reports what it applied, all while other clients do the same.           *)
(*                                                                         *)
(* A call to the server is one step of the server and the client when the  *)
(* answer arrives in time.  Otherwise it is a disturbance: the request may *)
(* be lost, its answer may be lost, or it may reach the server after the   *)
(* client gave up (five seconds) and went on.                              *)
(***************************************************************************)
EXTENDS CoordServer, Routes

CONSTANTS
    Net,              \* the network
    Clients,          \* its devices that run device-client
    Forwarders,       \* clients configured with CanForward
    DNSClients,       \* clients with a DNS server to keep up to date
    PrivateKey,       \* the key of a client's k-th process, named by its public half
    SortAddresses,    \* what sorting makes of a list of addresses
    InitReach,        \* <<d, p>>: one of p's endpoints answers d's ping
    Disturbances,     \* the kinds of disturbance that may happen
    MaxDisturbances   \* how many of them

KindsOfDisturbance ==
    {"lost", "late", "apply", "crash", "reboot", "restart", "reach", "dns"}

ASSUME ReifyAssumption ==
    /\ Net \in DOMAIN InitSpec
    /\ Clients \subseteq DOMAIN InitSpec[Net]
    /\ \A d \in Clients : <<Net, d>> \in Identities
    /\ Forwarders \subseteq Clients
    /\ DNSClients \subseteq Clients
    /\ MaxDisturbances \in Nat
    /\ PrivateKey \in [Clients -> [0..MaxDisturbances -> Keys \ {ZeroKey}]]
    /\ SortAddresses \in [AddressLists -> AddressLists]
    /\ InitReach \subseteq Clients \X DeviceNames
    /\ Disturbances \subseteq KindsOfDisturbance
    /\ IPv6Lists = {}   \* a client that forwards to one ends in a panic: see DeviceHost

VARIABLES
    pc,        \* the call of ReifySpec a client is about to make; "step": Step
    believes,  \* ContinousClient.latest
    nc,        \* the view a running ReifySpec works on
    via,       \* its choices: a device itself, a forwarder, or NoRoute
    boots,     \* how often the client was started again
    applied,   \* what the device's WireGuard interface was last set to
    dns,       \* the view in the device's DNS server
    linked,    \* the clients whose connection to their DNS server is up
    reach,     \* which pings are answered
    late,      \* requests that will reach the server after their client gave up
    left       \* disturbances still to come

clientVars == <<pc, believes, nc, via, boots>>
hostVars   == <<applied, dns, linked>>
vars       == <<serverVars, clientVars, hostVars, reach, late, left>>

NoChoice == [p \in {} |-> NoRoute]
Nothing == [None |-> TRUE]      \* no view, or an interface that is not there
Partial == [Partly |-> TRUE]    \* ApplyMachine gave up half-way

PCs == {"step", "keys", "choose", "forward", "dns", "apply", "post", "dead"}
-----------------------------------------------------------------------------
ProtocolInit ==
    /\ Init
    /\ pc = [d \in Clients |-> "step"]
    /\ believes = [d \in Clients |-> FALSE]
    /\ nc = [d \in Clients |-> Nothing]
    /\ via = [d \in Clients |-> NoChoice]
    /\ boots = [d \in Clients |-> 0]
    /\ applied = [d \in Clients |-> Nothing]
    /\ dns = [d \in Clients |-> Nothing]
    /\ linked = DNSClients
    /\ reach = InitReach
    /\ late = {}
    /\ left = MaxDisturbances

View(d) == CensorForDevice(spec, Net, d)

MyKey(d) == PrivateKey[d][boots[d]]

(* What the own record of device d says in view v.                         *)
Own(v, d) == v.Devices[d]

Disturb(kind) == kind \in Disturbances /\ left > 0 /\ left' = left - 1

(* ReifySpec returns an error: Step leaves c.latest as it was, and c.spec  *)
(* is not read before it is set again.                                     *)
GiveUp(d) ==
    /\ pc' = [pc EXCEPT ![d] = "step"]
    /\ nc' = [nc EXCEPT ![d] = Nothing]
    /\ via' = [via EXCEPT ![d] = NoChoice]
    /\ UNCHANGED <<believes, boots>>

(* A request of kind "patch" or "post" the server has still to handle.     *)
ServerHandles(m) ==
    \/ m.kind = "patch" /\ PatchReifySpec(Net, m.from, m.body)
    \/ m.kind = "post" /\ PostReifyStatus(Net, m.from, m.body)

Goto(d, label) == pc' = [pc EXCEPT ![d] = label]

(* The three ways a call can fail that reached, or will reach, or never    *)
(* reaches the server.                                                     *)
CallFails(m) ==
    /\ GiveUp(m.from)
    /\ UNCHANGED <<hostVars, reach>>
    /\ \/ Disturb("lost") /\ UNCHANGED <<serverVars, late>>
       \/ Disturb("lost") /\ ServerHandles(m) /\ UNCHANGED late
       \/ Disturb("late") /\ late' = late \cup {m} /\ UNCHANGED serverVars

-----------------------------------------------------------------------------
(* Faulty variant of GetLatest: the answer is logged and forgotten.        *)
GetLatestIgnored(d) ==
    /\ pc[d] = "step" /\ believes[d]
    /\ Admitted(Net, d)
    /\ UNCHANGED vars

(* getLatest, polled while the client believes it is up to date.           *)
GetLatest(d) ==
    /\ pc[d] = "step" /\ believes[d]
    /\ Admitted(Net, d)
    /\ believes' = [believes EXCEPT ![d] = Latest(Net, d)]
    /\ UNCHANGED <<serverVars, pc, nc, via, boots, hostVars, reach, late, left>>

(* getSpec: without a believed status, Step runs ReifySpec.                *)
GetSpec(d) ==
    /\ pc[d] = "step" /\ ~believes[d]
    /\ Admitted(Net, d)
    /\ nc' = [nc EXCEPT ![d] = View(d)]
    /\ Goto(d, "keys")
    /\ UNCHANGED <<serverVars, believes, via, boots, hostVars, reach, late, left>>

SeesItself(d) == d \in DOMAIN nc[d].Devices

(* updateMyKeys on a view without the device itself: panic("unreachable"). *)
PanicUnseen(d) ==
    /\ pc[d] = "keys" /\ ~SeesItself(d)
    /\ Goto(d, "dead")
    /\ UNCHANGED <<serverVars, believes, nc, via, boots, hostVars, reach, late, left>>

(* Faulty variant of KeyUpToDate: any key that is set will do.             *)
KeyIsSet(d) ==
    /\ pc[d] = "keys" /\ SeesItself(d)
    /\ Own(nc[d], d).PublicKey # ZeroKey
    /\ Goto(d, "choose")
    /\ UNCHANGED <<serverVars, believes, nc, via, boots, hostVars, reach, late, left>>

(* updateMyKeys when the server has the client's key already.              *)
KeyUpToDate(d) ==
    /\ pc[d] = "keys" /\ SeesItself(d)
    /\ Own(nc[d], d).PublicKey = MyKey(d)
    /\ Goto(d, "choose")
    /\ UNCHANGED <<serverVars, believes, nc, via, boots, hostVars, reach, late, left>>

Patch(d, keySet, key, accessibleSet, accessible) ==
    [kind |-> "patch", from |-> d,
     body |-> [SettingsSet   |-> FALSE, Settings |-> CHOOSE v \in SettingsValues : TRUE,
               PublicKeySet  |-> keySet, PublicKey |-> key,
               AccessibleSet |-> accessibleSet, Accessible |-> accessible]]

KeyPatch(d) == Patch(d, TRUE, MyKey(d), FALSE, {})

(* updateMyKeys otherwise: the patched key goes into the local view too,   *)
(* but only when the patch succeeded.                                      *)
PatchKey(d) ==
    /\ pc[d] = "keys" /\ SeesItself(d)
    /\ Own(nc[d], d).PublicKey # MyKey(d)
    /\ \/ /\ ServerHandles(KeyPatch(d))
          /\ nc' = [nc EXCEPT ![d].Devices[d].PublicKey = MyKey(d)]
          /\ Goto(d, "choose")
          /\ UNCHANGED <<believes, via, boots, hostVars, reach, late, left>>
       \/ CallFails(KeyPatch(d))

(* The devices one of whose endpoints answers d's ping.                    *)
Answering(d) == {p \in DeviceNames : <<d, p>> \in reach}

ChooseEndpoints(d) ==
    /\ pc[d] = "choose"
    /\ LET others == DOMAIN nc[d].Devices \ {d}
       IN \E v \in [others -> others \cup {NoRoute}] :
            ValidChoice(nc[d].Devices, v, Answering(d)) /\ via' = [via EXCEPT ![d] = v]
    /\ Goto(d, "forward")
    /\ UNCHANGED <<serverVars, believes, nc, boots, hostVars, reach, late, left>>

(* Faulty variant of AccessibleOf: every device seen is advertised.        *)
AllSeen(d) == IF d \in Forwarders THEN DOMAIN via[d] ELSE {}

(* patchAccessible: the devices with a chosen endpoint or forwarder, for a *)
(* client that may forward.                                                *)
AccessibleOf(d) ==
    IF d \in Forwarders THEN {p \in DOMAIN via[d] : via[d][p] # NoRoute} ELSE {}

AccessibleUpToDate(d) ==
    /\ pc[d] = "forward"
    /\ Own(nc[d], d).Accessible = AccessibleOf(d)
    /\ Goto(d, "dns")
    /\ UNCHANGED <<serverVars, believes, nc, via, boots, hostVars, reach, late, left>>

AccessiblePatch(d) == Patch(d, FALSE, ZeroKey, TRUE, AccessibleOf(d))

PatchAccessible(d) ==
    /\ pc[d] = "forward"
    /\ Own(nc[d], d).Accessible # AccessibleOf(d)
    /\ \/ /\ ServerHandles(AccessiblePatch(d))
          /\ nc' = [nc EXCEPT ![d].Devices[d].Accessible = AccessibleOf(d)]
          /\ Goto(d, "dns")
          /\ UNCHANGED <<believes, via, boots, hostVars, reach, late, left>>
       \/ CallFails(AccessiblePatch(d))

(* Faulty variant of UpdateDNS: a server that has a view keeps it.         *)
UpdateDNSOnce(d) ==
    /\ pc[d] = "dns"
    /\ d \in DNSClients => d \in linked
    /\ dns' = IF d \in DNSClients /\ dns[d] = Nothing THEN [dns EXCEPT ![d] = nc[d]] ELSE dns
    /\ Goto(d, "apply")
    /\ UNCHANGED <<serverVars, believes, nc, via, boots, applied, linked, reach, late, left>>

(* updateDNS, before anything is applied.                                  *)
UpdateDNS(d) ==
    /\ pc[d] = "dns"
    /\ d \in DNSClients => d \in linked
    /\ dns' = IF d \in DNSClients THEN [dns EXCEPT ![d] = nc[d]] ELSE dns
    /\ Goto(d, "apply")
    /\ UNCHANGED <<serverVars, believes, nc, via, boots, applied, linked, reach, late, left>>

(* The connection is dialled once, in main: after it was lost every call   *)
(* on it fails.                                                            *)
UpdateDNSFails(d) ==
    /\ pc[d] = "dns"
    /\ d \in DNSClients \ linked
    /\ GiveUp(d)
    /\ UNCHANGED <<serverVars, hostVars, reach, late, left>>

(* ApplyMachine sorts the addresses of the interface it sets up, and the   *)
(* array it sorts is the one the view still holds.                         *)
ViewAfterApply(d) ==
    [nc[d] EXCEPT !.Devices[d].Addresses = SortAddresses[@]]

(* CompileMachine and ApplyMachine.                                        *)
ApplyMachine(d) ==
    /\ pc[d] = "apply"
    /\ applied' = [applied EXCEPT ![d] = [nc |-> ViewAfterApply(d), via |-> via[d], key |-> MyKey(d)]]
    /\ nc' = [nc EXCEPT ![d] = ViewAfterApply(d)]
    /\ Goto(d, "post")
    /\ UNCHANGED <<serverVars, believes, via, boots, dns, linked, reach, late, left>>

(* Faulty variant of ApplyFails: the error is logged and the view posted.  *)
ApplyFailsUnnoticed(d) ==
    /\ pc[d] = "apply"
    /\ Disturb("apply")
    /\ applied' = [applied EXCEPT ![d] = Partial]
    /\ Goto(d, "post")
    /\ UNCHANGED <<serverVars, believes, nc, via, boots, dns, linked, reach, late>>

ApplyFails(d) ==
    /\ pc[d] = "apply"
    /\ Disturb("apply")
    /\ applied' = [applied EXCEPT ![d] = Partial]
    /\ GiveUp(d)
    /\ UNCHANGED <<serverVars, dns, linked, reach, late>>

StatusPost(d) == [kind |-> "post", from |-> d, body |-> nc[d]]

(* postReifyStatus: its answer is what Step remembers.                     *)
PostStatus(d) ==
    /\ pc[d] = "post"
    /\ \/ /\ ServerHandles(StatusPost(d))
          /\ believes' = [believes EXCEPT ![d] = (nc[d] = View(d))]
          /\ Goto(d, "step")
          /\ nc' = [nc EXCEPT ![d] = Nothing]
          /\ via' = [via EXCEPT ![d] = NoChoice]
          /\ UNCHANGED <<boots, hostVars, reach, late, left>>
       \/ CallFails(StatusPost(d))

-----------------------------------------------------------------------------
(* A request whose client has given up reaches the server.                 *)
LateDelivery(m) ==
    /\ ServerHandles(m)
    /\ late' = late \ {m}
    /\ UNCHANGED <<clientVars, hostVars, reach, left>>

ServerRestarts ==
    /\ Disturb("restart")
    /\ Restart
    /\ UNCHANGED <<clientVars, hostVars, reach, late>>

(* A new process knows nothing; a key it has to generate is a new one.     *)
StartAgain(d) ==
    /\ pc' = [pc EXCEPT ![d] = "step"]
    /\ believes' = [believes EXCEPT ![d] = FALSE]
    /\ nc' = [nc EXCEPT ![d] = Nothing]
    /\ via' = [via EXCEPT ![d] = NoChoice]
    /\ boots' = [boots EXCEPT ![d] = @ + 1]
    /\ linked' = linked \cup (DNSClients \cap {d})

(* device-client stops and is started again: the interface stays up.       *)
ClientCrashes(d) ==
    /\ Disturb("crash")
    /\ StartAgain(d)
    /\ UNCHANGED <<serverVars, applied, dns, reach, late>>

(* The machine restarts: interface and DNS server start empty.             *)
Reboots(d) ==
    /\ Disturb("reboot")
    /\ StartAgain(d)
    /\ applied' = [applied EXCEPT ![d] = Nothing]
    /\ dns' = [dns EXCEPT ![d] = Nothing]
    /\ UNCHANGED <<serverVars, reach, late>>

(* The DNS server of a device is started again, and knows nothing.         *)
DNSRestarts(d) ==
    /\ Disturb("dns")
    /\ dns' = [dns EXCEPT ![d] = Nothing]
    /\ linked' = linked \ {d}
    /\ UNCHANGED <<serverVars, clientVars, applied, reach, late>>

(* A path between two devices appears or disappears.                       *)
ReachChanges(d, p) ==
    /\ Disturb("reach")
    /\ reach' = IF <<d, p>> \in reach THEN reach \ {<<d, p>>} ELSE reach \cup {<<d, p>>}
    /\ UNCHANGED <<serverVars, clientVars, hostVars, late>>

-----------------------------------------------------------------------------
ClientStep(d) ==
    \/ GetLatest(d) \/ GetSpec(d)
    \/ PanicUnseen(d) \/ KeyUpToDate(d) \/ PatchKey(d)
    \/ ChooseEndpoints(d)
    \/ AccessibleUpToDate(d) \/ PatchAccessible(d)
    \/ UpdateDNS(d) \/ UpdateDNSFails(d)
    \/ ApplyMachine(d) \/ ApplyFails(d)
    \/ PostStatus(d)

ProtocolNext ==
    \/ \E d \in Clients : ClientStep(d) \/ ClientCrashes(d) \/ Reboots(d)
    \/ \E m \in late : LateDelivery(m)
    \/ ServerRestarts
    \/ \E d \in DNSClients : DNSRestarts(d)
    \/ \E d \in Clients : \E p \in DOMAIN InitSpec[Net] \ {d} : ReachChanges(d, p)

Protocol == ProtocolInit /\ [][ProtocolNext]_vars

-----------------------------------------------------------------------------
(* createGoroutines runs every client's loop for ever: a client that can   *)
(* take a step takes one.  Nothing is fair about disturbances.             *)
FairProtocol == Protocol /\ \A d \in Clients : WF_vars(ClientStep(d))

-----------------------------------------------------------------------------
IsApplied(x) ==
    /\ x = [nc |-> x.nc, via |-> x.via, key |-> x.key]
    /\ IsNetworkCensored(x.nc) /\ IsChoice(x.via) /\ x.key \in Keys

IsRequest(m) ==
    /\ m = [kind |-> m.kind, from |-> m.from, body |-> m.body]
    /\ m.from \in Clients
    /\ \/ m.kind = "patch" /\ m.body \in PatchReifySpecRequest
       \/ m.kind = "post" /\ IsNetworkCensored(m.body)

ProtocolTypeOK ==
    /\ TypeOK
    /\ pc \in [Clients -> PCs]
    /\ believes \in [Clients -> BOOLEAN]
    /\ DOMAIN nc = Clients
    /\ \A d \in Clients : nc[d] = Nothing \/ IsNetworkCensored(nc[d])
    /\ DOMAIN via = Clients
    /\ \A d \in Clients : IsChoice(via[d])
    /\ boots \in [Clients -> 0..MaxDisturbances]
    /\ DOMAIN applied = Clients
    /\ \A d \in Clients : applied[d] \in {Nothing, Partial} \/ IsApplied(applied[d])
    /\ DOMAIN dns = Clients
    /\ \A d \in Clients : dns[d] = Nothing \/ IsNetworkCensored(dns[d])
    /\ linked \subseteq DNSClients
    /\ reach \subseteq Clients \X DeviceNames
    /\ \A m \in late : IsRequest(m)
    /\ left \in 0..MaxDisturbances

(* A client is settled when it believes it is up to date and the server    *)
(* would tell it so again.                                                 *)
Settled(d) == believes[d] /\ Latest(Net, d)

(* GET latest "returns whether the device has applied the latest spec":    *)
(* the interface of a settled client was set up, completely, from exactly  *)
(* the view the server would send it now and with the key it published.    *)
SettledIsApplied ==
    \A d \in Clients : Settled(d) =>
        /\ applied[d] \notin {Nothing, Partial}
        /\ applied[d].nc = View(d)
        /\ applied[d].key = spec[Net][d].PublicKey

(* Two settled clients that see each other agree on the tunnel between     *)
(* them: each has the public half of the key the other's interface uses.   *)
TunnelKeysAgree ==
    \A d, e \in Clients :
        Settled(d) /\ Settled(e) /\ e \in Visible(spec[Net], d) =>
            applied[d].nc.Devices[e].PublicKey = applied[e].key

(* A settled client with a DNS server it can talk to has given it the view *)
(* its interface was set up from.                                          *)
NamesMatchTunnels ==
    \A d \in linked : Settled(d) => dns[d] = applied[d].nc

(* The interface a device was last set up with.                            *)
Machine(d) == CompileMachine(applied[d].nc.Devices, applied[d].via, d)

(* What a settled client sends to a forwarder that is settled too arrives: *)
(* the forwarder's interface has a route to that device and an endpoint to *)
(* send to, a route back to a client it knows, and the forwarder lets      *)
(* packets of that kind through.  Its advertisement was not an old one.    *)
ForwardersServe ==
    \A d, f \in Clients :
        Settled(d) /\ Settled(f) /\ f \in DOMAIN Machine(d).Peers =>
            \A p \in Machine(d).Peers[f].AllowedIPs \ {f} :
                /\ Reached(Machine(f), p)
                /\ d \in Visible(spec[Net], f) => Routed(Machine(f), d)
                /\ spec[Net][p].Addresses \in IPv4Lists => Machine(f).ForwardsIPv4

(* The comment on POST status: it "returns whether the applied spec is     *)
(* up-to-date".  A client about to report the view that is current, up to  *)
(* the order of a list of addresses, is about to be told that it is.       *)
CurrentIsRecognised ==
    \A d \in Clients : pc[d] = "post" =>
        LET shown == View(d) IN
        nc[d] = [shown EXCEPT !.Devices[d].Addresses = SortAddresses[@]] => nc[d] = shown

(* Once disturbances stop every client settles for good; one whose DNS     *)
(* server went away or that panicked does not, and does not keep the       *)
(* others from it.                                                         *)
Converges ==
    <>[](\A d \in Clients : Settled(d) \/ d \in DNSClients \ linked \/ pc[d] = "dead")

(* A client that keeps polling becomes up to date.                         *)
EveryClientSettles == \A d \in Clients : []<>Settled(d)
=============================================================================
