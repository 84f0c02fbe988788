------------------------------ MODULE ReifyProofs ------------------------------
(***************************************************************************)
(* For any number of clients, views and disturbances: what a client that   *)
(* is settled has applied, which keys the two ends of a tunnel use, which  *)
(* names are served, and what a forwarder does for those behind it.        *)
(*                                                                         *)
(* What relates a settled client to the server needs that no request       *)
(* reaches it after its client gave up ("late"): the run reify_late_post   *)
(* shows why.  Types and names do not.                                     *)
(***************************************************************************)
EXTENDS ReifyProtocol, CoordServerProofs

(* The calls of ReifySpec before which the client holds a view.            *)
Working == {"keys", "choose", "forward", "dns", "apply", "post"}

(* The types of what one client has; past updateMyKeys its view has the    *)
(* device itself with the key of this process.                             *)
ClientTypeOK(d) ==
    /\ nc[d] = Nothing \/ IsNetworkCensored(nc[d])
    /\ IsChoice(via[d])
    /\ applied[d] \in {Nothing, Partial} \/ IsApplied(applied[d])
    /\ dns[d] = Nothing \/ IsNetworkCensored(dns[d])
    /\ boots[d] + left <= MaxDisturbances
    /\ pc[d] \in Working => IsNetworkCensored(nc[d])
    /\ pc[d] \in Working \ {"keys"} =>
        d \in DOMAIN nc[d].Devices /\ nc[d].Devices[d].PublicKey = MyKey(d)

TypeInv ==
    /\ TypeOK
    /\ pc \in [Clients -> PCs] /\ believes \in [Clients -> BOOLEAN]
    /\ DOMAIN nc = Clients /\ DOMAIN via = Clients
    /\ boots \in [Clients -> 0..MaxDisturbances]
    /\ DOMAIN applied = Clients /\ DOMAIN dns = Clients
    /\ linked \subseteq DNSClients
    /\ reach \subseteq Clients \X DeviceNames
    /\ \A m \in late : IsRequest(m)
    /\ left \in 0..MaxDisturbances
    /\ \A d \in Clients : ClientTypeOK(d)

-----------------------------------------------------------------------------
(* The invariant of the types says what ProtocolTypeOK says.               *)
LEMMA TypeInvIsType == TypeInv => ProtocolTypeOK
  BY DEF TypeInv, ClientTypeOK, ProtocolTypeOK

(* The device of a client is known at the start, and some setting and key  *)
(* exist.                                                                  *)
LEMMA ClientsAreDevices ==
    ASSUME NEW d \in Clients
    PROVE  /\ d \in DeviceNames /\ Net \in NetworkNames /\ <<Net, d>> \in Identities
           /\ (CHOOSE v \in SettingsValues : TRUE) \in SettingsValues
<1>1. InitSpec[Net][d].Settings \in SettingsValues /\ d \in DeviceNames /\ Net \in NetworkNames
  BY ReifyAssumption, CoordAssumption DEF IsSpec, IsNetwork, NetworkDevice
<1> QED
  BY <1>1, ReifyAssumption

(* A client has a key.                                                     *)
LEMMA HasKey ==
    ASSUME NEW d \in Clients, boots[d] \in 0..MaxDisturbances
    PROVE  MyKey(d) \in Keys \ {ZeroKey}
  BY ReifyAssumption DEF MyKey

(* Setting the record of one device in a view.                             *)
LEMMA SetDevice ==
    ASSUME NEW v, IsNetworkCensored(v), NEW d \in DOMAIN v.Devices,
           NEW r \in NetworkDeviceCensored,
           NEW w, w = [v EXCEPT !.Devices = [v.Devices EXCEPT ![d] = r]]
    PROVE  /\ IsNetworkCensored(w) /\ w.Name = v.Name /\ w.CensoredFor = v.CensoredFor
           /\ DOMAIN w.Devices = DOMAIN v.Devices /\ w.Devices[d] = r
           /\ \A p \in DOMAIN v.Devices \ {d} : w.Devices[p] = v.Devices[p]
<1> DEFINE ds == [v.Devices EXCEPT ![d] = r]
<1>1. w = [Name |-> v.Name, CensoredFor |-> v.CensoredFor, Devices |-> ds]
  BY DEF IsNetworkCensored
<1>2. /\ ds \in [DOMAIN v.Devices -> NetworkDeviceCensored]
      /\ ds[d] = r /\ \A p \in DOMAIN v.Devices \ {d} : ds[p] = v.Devices[p]
  BY DEF IsNetworkCensored
<1> HIDE DEF ds
<1> QED
  BY <1>1, <1>2 DEF IsNetworkCensored

(* What a request does to the server keeps its type, and its latest lists  *)
(* confirmed.                                                              *)
LEMMA ServerKept ==
    ASSUME TypeOK, NEW m, IsRequest(m), ServerHandles(m)
    PROVE  TypeOK' /\ (LatestConfirmed => LatestConfirmed')
<1>1. CASE PatchReifySpec(Net, m.from, m.body) /\ m.body \in PatchReifySpecRequest
  <2>1. IsSpec(PatchedSpec(Net, m.from, m.body))
    BY <1>1, PatchedIsSpec DEF TypeOK, PatchReifySpec, PatchAccepted, Admitted
  <2> QED
    BY <1>1, <2>1, TypeUpdate, ConfirmedUpdate DEF PatchReifySpec
<1>2. CASE PostMatching(Net, m.from, m.body)
  <2> DEFINE i == <<Net, m.from>>
  <2>1. i \in Identities /\ m.body \in Report(i[1], i[2]) /\ i[1] = Net /\ i[2] = m.from
    BY <1>2 DEF PostMatching, Admitted, Report
  <2>2. SomePost
    BY <1>2, <2>1 DEF SomePost, PostReifyStatus
  <2> QED
    BY <1>2, <2>2, TypeStep, ConfirmedPost DEF Next
<1>3. CASE PostDiffering(Net, m.from, m.body)
  BY <1>3 DEF PostDiffering, serverVars, TypeOK, LatestConfirmed, Latest
<1> QED
  BY <1>1, <1>2, <1>3 DEF ServerHandles, IsRequest, PostReifyStatus

(* The requests of a client are requests.                                  *)
LEMMA RequestsAreRequests ==
    ASSUME TypeInv, NEW d \in Clients
    PROVE  /\ pc[d] \in Working => IsRequest(KeyPatch(d)) /\ IsRequest(AccessiblePatch(d))
           /\ pc[d] \in Working => IsRequest(StatusPost(d))
           /\ AccessibleOf(d) \subseteq DeviceNames
           /\ KeyPatch(d).from = d /\ AccessiblePatch(d).from = d /\ StatusPost(d).from = d
<1>1. AccessibleOf(d) \subseteq DeviceNames
  BY DEF TypeInv, ClientTypeOK, IsChoice, AccessibleOf
<1>2. MyKey(d) \in Keys /\ ZeroKey \in Keys
  BY HasKey, ZeroKeyAssumption DEF TypeInv
<1>3. IsRequest(KeyPatch(d)) /\ IsRequest(AccessiblePatch(d))
  BY <1>1, <1>2, ClientsAreDevices
     DEF IsRequest, KeyPatch, AccessiblePatch, Patch, PatchReifySpecRequest
<1>4. pc[d] \in Working => IsRequest(StatusPost(d))
  BY DEF IsRequest, StatusPost, TypeInv, ClientTypeOK
<1> QED
  BY <1>1, <1>3, <1>4 DEF KeyPatch, AccessiblePatch, StatusPost, Patch

(* The views updateMyKeys, patchAccessible and ApplyMachine leave behind.  *)
LEMMA OwnRecordSet ==
    ASSUME TypeInv, NEW d \in Clients, pc[d] \in Working, SeesItself(d)
    PROVE  /\ LET w == [nc[d] EXCEPT !.Devices[d].PublicKey = MyKey(d)]
              IN /\ IsNetworkCensored(w) /\ DOMAIN w.Devices = DOMAIN nc[d].Devices
                 /\ w.Name = nc[d].Name /\ w.CensoredFor = nc[d].CensoredFor
                 /\ w.Devices[d] = [nc[d].Devices[d] EXCEPT !.PublicKey = MyKey(d)]
                 /\ \A p \in DOMAIN nc[d].Devices \ {d} : w.Devices[p] = nc[d].Devices[p]
           /\ LET w == [nc[d] EXCEPT !.Devices[d].Accessible = AccessibleOf(d)]
              IN /\ IsNetworkCensored(w) /\ DOMAIN w.Devices = DOMAIN nc[d].Devices
                 /\ w.Name = nc[d].Name /\ w.CensoredFor = nc[d].CensoredFor
                 /\ w.Devices[d] = [nc[d].Devices[d] EXCEPT !.Accessible = AccessibleOf(d)]
                 /\ \A p \in DOMAIN nc[d].Devices \ {d} : w.Devices[p] = nc[d].Devices[p]
           /\ LET w == ViewAfterApply(d)
              IN /\ IsNetworkCensored(w) /\ DOMAIN w.Devices = DOMAIN nc[d].Devices
                 /\ w.Name = nc[d].Name /\ w.CensoredFor = nc[d].CensoredFor
                 /\ w.Devices[d] = [nc[d].Devices[d] EXCEPT !.Addresses = SortAddresses[@]]
                 /\ \A p \in DOMAIN nc[d].Devices \ {d} : w.Devices[p] = nc[d].Devices[p]
<1> DEFINE v == nc[d]
           o == v.Devices[d]
<1>1. IsNetworkCensored(v) /\ d \in DOMAIN v.Devices /\ o \in NetworkDeviceCensored
  BY DEF TypeInv, ClientTypeOK, SeesItself, IsNetworkCensored
<1>2. MyKey(d) \in Keys /\ AccessibleOf(d) \subseteq DeviceNames /\ SortAddresses \in [AddressLists -> AddressLists]
  BY HasKey, RequestsAreRequests, ReifyAssumption DEF TypeInv
<1> DEFINE r1 == [o EXCEPT !.PublicKey = MyKey(d)]
           r2 == [o EXCEPT !.Accessible = AccessibleOf(d)]
           r3 == [o EXCEPT !.Addresses = SortAddresses[@]]
<1>3. r1 \in NetworkDeviceCensored /\ r2 \in NetworkDeviceCensored /\ r3 \in NetworkDeviceCensored
  <2> HIDE DEF o
  <2> QED
    BY <1>1, <1>2 DEF NetworkDeviceCensored
<1>4. /\ [v EXCEPT !.Devices[d].PublicKey = MyKey(d)] = [v EXCEPT !.Devices = [v.Devices EXCEPT ![d] = r1]]
      /\ [v EXCEPT !.Devices[d].Accessible = AccessibleOf(d)] = [v EXCEPT !.Devices = [v.Devices EXCEPT ![d] = r2]]
      /\ ViewAfterApply(d) = [v EXCEPT !.Devices = [v.Devices EXCEPT ![d] = r3]]
  BY Zenon DEF ViewAfterApply
<1> HIDE DEF v, r1, r2, r3
<1>5. ASSUME NEW r \in {r1, r2, r3}
      PROVE  LET w == [v EXCEPT !.Devices = [v.Devices EXCEPT ![d] = r]]
             IN /\ IsNetworkCensored(w) /\ w.Name = v.Name /\ w.CensoredFor = v.CensoredFor
                /\ DOMAIN w.Devices = DOMAIN v.Devices /\ w.Devices[d] = r
                /\ \A p \in DOMAIN v.Devices \ {d} : w.Devices[p] = v.Devices[p]
  BY <1>1, <1>3, SetDevice
<1> QED
  BY <1>4, <1>5 DEF v, r1, r2, r3

-----------------------------------------------------------------------------
(* Nothing a client has changes.                                           *)
Idle(e) ==
    /\ pc'[e] = pc[e] /\ believes'[e] = believes[e] /\ nc'[e] = nc[e] /\ via'[e] = via[e]
    /\ boots'[e] = boots[e] /\ applied'[e] = applied[e] /\ dns'[e] = dns[e]

(* A step that touches what one client has, or none, keeps the types if it *)
(* keeps those of that client.                                             *)
LEMMA TypeMove ==
    ASSUME TypeInv, TypeOK', NEW d,
           pc' \in [Clients -> PCs] /\ believes' \in [Clients -> BOOLEAN],
           DOMAIN nc' = Clients /\ DOMAIN via' = Clients,
           boots' \in [Clients -> 0..MaxDisturbances],
           DOMAIN applied' = Clients /\ DOMAIN dns' = Clients,
           linked' \subseteq DNSClients, reach' \subseteq Clients \X DeviceNames,
           \A m \in late' : IsRequest(m),
           left' \in 0..MaxDisturbances, left' <= left,
           \A e \in Clients \ {d} : Idle(e),
           d \in Clients => ClientTypeOK(d)'
    PROVE  TypeInv'
<1>1. ASSUME NEW e \in Clients PROVE ClientTypeOK(e)'
  <2>1. CASE e # d
    <3>1. ClientTypeOK(e) /\ Idle(e)
      BY <2>1 DEF TypeInv
    <3>2. boots'[e] + left' <= MaxDisturbances
      BY <3>1, ReifyAssumption DEF TypeInv, ClientTypeOK, Idle
    <3> QED
      BY <3>1, <3>2 DEF ClientTypeOK, Idle, MyKey
  <2> QED
    BY <2>1
<1> QED
  BY <1>1 DEF TypeInv

(* A client changes only what it has, and no step raises the number of     *)
(* disturbances left.                                                      *)
Local(d) ==
    /\ pc' \in [Clients -> PCs] /\ believes' \in [Clients -> BOOLEAN]
    /\ DOMAIN nc' = Clients /\ DOMAIN via' = Clients
    /\ boots' \in [Clients -> 0..MaxDisturbances]
    /\ DOMAIN applied' = Clients /\ DOMAIN dns' = Clients
    /\ linked' \subseteq DNSClients
    /\ left' \in 0..MaxDisturbances /\ left' <= left
    /\ \A e \in Clients \ {d} : Idle(e) /\ (e \in linked' => e \in linked)

(* What a call that fails leaves.                                          *)
LEMMA FailedCall ==
    ASSUME TypeInv, NEW d \in Clients, NEW m, m.from = d, CallFails(m)
    PROVE  /\ Local(d) /\ reach' = reach /\ linked' = linked
           /\ pc'[d] = "step" /\ nc'[d] = Nothing /\ via'[d] = NoChoice
           /\ UNCHANGED <<believes, boots, applied, dns>>
           /\ UNCHANGED serverVars \/ ServerHandles(m)
           /\ late' = late \/ ("late" \in Disturbances /\ late' = late \cup {m})
<1>1. /\ GiveUp(d) /\ UNCHANGED <<hostVars, reach>> /\ left > 0 /\ left' = left - 1
      /\ UNCHANGED serverVars \/ ServerHandles(m)
      /\ late' = late \/ ("late" \in Disturbances /\ late' = late \cup {m})
  BY DEF CallFails, Disturb
<1>2. left' \in 0..MaxDisturbances /\ left' <= left
  BY <1>1, ReifyAssumption DEF TypeInv
<1> QED
  BY <1>1, <1>2 DEF GiveUp, hostVars, TypeInv, Local, Idle, PCs

(* What a request, however it ends, leaves.                                *)
LEMMA StepIsLocal ==
    ASSUME TypeInv, NEW d \in Clients, ClientStep(d) \/ ClientCrashes(d) \/ Reboots(d)
    PROVE  Local(d) /\ reach' = reach
<1> USE DEF TypeInv, Local, Idle, PCs
<1>1. CASE GetLatest(d) \/ GetSpec(d)
  <2>1. Latest(Net, d) \in BOOLEAN
    BY DEF Latest
  <2>2. CASE GetLatest(d)
    BY <2>1, <2>2 DEF GetLatest, hostVars
  <2>3. CASE GetSpec(d)
    BY <2>3 DEF GetSpec, Goto, hostVars
  <2> QED
    BY <1>1, <2>2, <2>3
<1>2. CASE PanicUnseen(d) \/ KeyUpToDate(d) \/ AccessibleUpToDate(d)
  BY <1>2 DEF PanicUnseen, KeyUpToDate, AccessibleUpToDate, Goto, hostVars
<1>3. CASE PatchKey(d)
  <2>1. CASE CallFails(KeyPatch(d))
    BY <2>1, FailedCall, RequestsAreRequests
  <2> QED
    BY <1>3, <2>1 DEF PatchKey, Goto, hostVars
<1>4. CASE ChooseEndpoints(d)
  <2>1. /\ pc' = [pc EXCEPT ![d] = "forward"] /\ \E v : via' = [via EXCEPT ![d] = v]
        /\ UNCHANGED <<serverVars, believes, nc, boots, hostVars, reach, late, left>>
    BY <1>4 DEF ChooseEndpoints, Goto
  <2> QED
    BY <2>1 DEF hostVars
<1>5. CASE PatchAccessible(d)
  <2>1. CASE CallFails(AccessiblePatch(d))
    BY <2>1, FailedCall, RequestsAreRequests
  <2> QED
    BY <1>5, <2>1 DEF PatchAccessible, Goto, hostVars
<1>6. CASE UpdateDNS(d) \/ UpdateDNSFails(d)
  BY <1>6 DEF UpdateDNS, UpdateDNSFails, GiveUp, Goto, hostVars
<1>7. CASE ApplyMachine(d)
  BY <1>7 DEF ApplyMachine, Goto
<1>8. CASE ApplyFails(d)
  <2>1. left > 0 /\ left' = left - 1
    BY <1>8 DEF ApplyFails, Disturb
  <2>2. left' \in 0..MaxDisturbances /\ left' <= left
    BY <2>1, ReifyAssumption
  <2> QED
    BY <1>8, <2>2 DEF ApplyFails, GiveUp
<1>9. CASE PostStatus(d)
  <2>1. CASE CallFails(StatusPost(d))
    BY <2>1, FailedCall, RequestsAreRequests
  <2>2. CASE ~CallFails(StatusPost(d))
    <3>1. \E b \in BOOLEAN : believes' = [believes EXCEPT ![d] = b]
      BY <1>9, <2>2 DEF PostStatus
    <3> QED
      BY <1>9, <2>2, <3>1 DEF PostStatus, Goto, hostVars
  <2> QED
    BY <2>1, <2>2
<1>10. CASE ClientCrashes(d) \/ Reboots(d)
  <2>1. left > 0 /\ left' = left - 1 /\ StartAgain(d) /\ reach' = reach
    BY <1>10 DEF ClientCrashes, Reboots, Disturb
  <2>2. left' \in 0..MaxDisturbances /\ left' <= left
    BY <2>1, ReifyAssumption
  <2>3. boots[d] + left <= MaxDisturbances
    BY DEF ClientTypeOK
  <2>4. boots[d] + 1 \in 0..MaxDisturbances
    BY <2>1, <2>3, ReifyAssumption
  <2>5. boots' \in [Clients -> 0..MaxDisturbances] /\ \A e \in Clients \ {d} : boots'[e] = boots[e]
    BY <2>1, <2>4 DEF StartAgain
  <2>6. linked' \subseteq DNSClients /\ \A e \in Clients \ {d} : e \in linked' => e \in linked
    BY <2>1 DEF StartAgain
  <2>7. DOMAIN applied' = Clients /\ DOMAIN dns' = Clients
        /\ \A e \in Clients \ {d} : applied'[e] = applied[e] /\ dns'[e] = dns[e]
    BY <1>10 DEF ClientCrashes, Reboots
  <2>8. /\ pc' \in [Clients -> PCs] /\ believes' \in [Clients -> BOOLEAN]
        /\ DOMAIN nc' = Clients /\ DOMAIN via' = Clients
        /\ \A e \in Clients \ {d} : /\ pc'[e] = pc[e] /\ believes'[e] = believes[e]
                                    /\ nc'[e] = nc[e] /\ via'[e] = via[e]
    BY <2>1 DEF StartAgain
  <2> QED
    BY <2>1, <2>2, <2>5, <2>6, <2>7, <2>8
<1> QED
  BY <1>1, <1>2, <1>3, <1>4, <1>5, <1>6, <1>7, <1>8, <1>9, <1>10 DEF ClientStep

(* Calls that change nothing at the server.                                *)
LEMMA TypeAlone ==
    ASSUME TypeInv, NEW d \in Clients,
           \/ GetLatest(d) \/ GetSpec(d) \/ PanicUnseen(d) \/ KeyUpToDate(d)
           \/ ChooseEndpoints(d) \/ AccessibleUpToDate(d)
           \/ UpdateDNS(d) \/ UpdateDNSFails(d) \/ ApplyMachine(d) \/ ApplyFails(d)
           \/ ClientCrashes(d) \/ Reboots(d)
    PROVE  TypeInv'
<1>1. /\ ClientTypeOK(d) /\ boots[d] \in 0..MaxDisturbances /\ left \in 0..MaxDisturbances
      /\ DOMAIN nc = Clients /\ DOMAIN via = Clients /\ DOMAIN applied = Clients /\ DOMAIN dns = Clients
      /\ pc \in [Clients -> PCs] /\ boots \in [Clients -> 0..MaxDisturbances]
      /\ MaxDisturbances \in Nat
  BY ReifyAssumption DEF TypeInv
<1>2. Local(d) /\ reach' = reach
  BY StepIsLocal DEF ClientStep
<1>3. UNCHANGED serverVars /\ late' = late
  BY DEF GetLatest, GetSpec, PanicUnseen, KeyUpToDate, ChooseEndpoints, AccessibleUpToDate,
         UpdateDNS, UpdateDNSFails, ApplyMachine, ApplyFails, ClientCrashes, Reboots
<1>4. TypeOK'
  BY <1>3 DEF TypeInv, TypeOK, serverVars
<1>5. ASSUME ClientTypeOK(d)' PROVE TypeInv'
  BY <1>2, <1>3, <1>4, <1>5, TypeMove DEF TypeInv, Local
<1> USE DEF ClientTypeOK, Working, MyKey
<1>6. boots' = boots /\ left' = left => boots'[d] + left' <= MaxDisturbances
  BY <1>1
<1>7. CASE GetLatest(d)
  BY <1>1, <1>5, <1>6, <1>7 DEF GetLatest, hostVars
<1>8. CASE GetSpec(d)
  <2>1. IsNetworkCensored(View(d))
    BY <1>8, ViewIsCensored DEF GetSpec, Admitted, View, TypeInv, TypeOK
  <2> QED
    BY <1>1, <1>5, <1>6, <1>8, <2>1 DEF GetSpec, Goto, hostVars
<1>9. CASE PanicUnseen(d)
  BY <1>1, <1>5, <1>6, <1>9 DEF PanicUnseen, Goto, hostVars
<1>10. CASE KeyUpToDate(d)
  BY <1>1, <1>5, <1>6, <1>10 DEF KeyUpToDate, SeesItself, Own, Goto, hostVars
<1>11. CASE ChooseEndpoints(d)
  <2> DEFINE others == DOMAIN nc[d].Devices \ {d}
  <2>1. PICK v \in [others -> others \cup {NoRoute}] : via' = [via EXCEPT ![d] = v]
    BY <1>11 DEF ChooseEndpoints
  <2>2. pc[d] = "choose" /\ pc' = [pc EXCEPT ![d] = "forward"]
        /\ UNCHANGED <<nc, boots, hostVars, left>>
    BY <1>11 DEF ChooseEndpoints, Goto
  <2>3. IsChoice(v)
    BY <1>1, <2>1, <2>2 DEF IsChoice, IsNetworkCensored
  <2> HIDE DEF others
  <2> QED
    BY <1>1, <1>5, <1>6, <2>1, <2>2, <2>3 DEF hostVars
<1>12. CASE AccessibleUpToDate(d)
  BY <1>1, <1>5, <1>6, <1>12 DEF AccessibleUpToDate, Goto, hostVars
<1>13. CASE UpdateDNS(d)
  BY <1>1, <1>5, <1>6, <1>13 DEF UpdateDNS, Goto
<1>14. IsChoice(NoChoice)
  BY DEF IsChoice, NoChoice
<1>15. CASE UpdateDNSFails(d)
  BY <1>1, <1>5, <1>6, <1>14, <1>15 DEF UpdateDNSFails, GiveUp, hostVars
<1>16. CASE ApplyMachine(d)
  <2> DEFINE w == ViewAfterApply(d)
  <2>1. /\ pc[d] = "apply" /\ pc' = [pc EXCEPT ![d] = "post"] /\ nc' = [nc EXCEPT ![d] = w]
        /\ applied' = [applied EXCEPT ![d] = [nc |-> w, via |-> via[d], key |-> MyKey(d)]]
        /\ UNCHANGED <<via, boots, dns, left>>
    BY <1>16 DEF ApplyMachine, Goto
  <2>2. pc[d] \in Working /\ SeesItself(d) /\ nc[d].Devices[d] \in NetworkDeviceCensored
    BY <1>1, <2>1 DEF SeesItself, IsNetworkCensored
  <2>3. /\ IsNetworkCensored(w) /\ d \in DOMAIN w.Devices
        /\ w.Devices[d] = [nc[d].Devices[d] EXCEPT !.Addresses = SortAddresses[@]]
    BY <2>2, OwnRecordSet DEF SeesItself
  <2>4. w.Devices[d].PublicKey = MyKey(d)
    BY <1>1, <2>1, <2>2, <2>3 DEF NetworkDeviceCensored
  <2>5. MyKey(d) \in Keys
    BY <1>1, HasKey
  <2> DEFINE x == [nc |-> w, via |-> via[d], key |-> MyKey(d)]
  <2>6. IsApplied(x)
    BY <1>1, <2>3, <2>5 DEF IsApplied
  <2> HIDE DEF w, x
  <2>7. nc'[d] = w /\ applied'[d] = x /\ via'[d] = via[d] /\ dns'[d] = dns[d]
    BY <1>1, <2>1 DEF x
  <2>8. boots'[d] + left' <= MaxDisturbances /\ pc'[d] = "post" /\ MyKey(d)' = MyKey(d)
    BY <1>1, <1>6, <2>1
  <2> QED
    BY <1>1, <1>5, <2>3, <2>4, <2>6, <2>7, <2>8
<1>17. CASE ApplyFails(d)
  <2>1. boots'[d] + left' <= MaxDisturbances
    BY <1>1, <1>17 DEF ApplyFails, GiveUp, Disturb
  <2> QED
    BY <1>1, <1>5, <1>14, <1>17, <2>1 DEF ApplyFails, GiveUp
<1>18. CASE ClientCrashes(d) \/ Reboots(d)
  <2>1. StartAgain(d) /\ left > 0 /\ left' = left - 1
    BY <1>18 DEF ClientCrashes, Reboots, Disturb
  <2>2. boots'[d] + left' <= MaxDisturbances
    BY <1>1, <2>1 DEF StartAgain
  <2>3. applied'[d] \in {applied[d], Nothing} /\ dns'[d] \in {dns[d], Nothing}
    BY <1>1, <1>18 DEF ClientCrashes, Reboots
  <2>4. pc'[d] = "step" /\ nc'[d] = Nothing /\ via'[d] = NoChoice
    BY <1>1, <2>1 DEF StartAgain
  <2> QED
    BY <1>1, <1>5, <1>14, <2>2, <2>3, <2>4
<1> QED
  BY <1>7, <1>8, <1>9, <1>10, <1>11, <1>12, <1>13, <1>15, <1>16, <1>17, <1>18

(* Calls that reach the server, or fail.                                   *)
LEMMA TypeCall ==
    ASSUME TypeInv, NEW d \in Clients, PatchKey(d) \/ PatchAccessible(d) \/ PostStatus(d)
    PROVE  TypeInv'
<1>1. /\ ClientTypeOK(d) /\ boots[d] \in 0..MaxDisturbances
      /\ DOMAIN nc = Clients /\ DOMAIN via = Clients /\ DOMAIN applied = Clients /\ DOMAIN dns = Clients
      /\ pc \in [Clients -> PCs]
  BY DEF TypeInv
<1>2. Local(d) /\ reach' = reach
  BY StepIsLocal DEF ClientStep
<1>3. pc[d] \in Working /\ (pc[d] # "keys" => SeesItself(d))
  BY <1>1 DEF PatchKey, PatchAccessible, PostStatus, Working, ClientTypeOK, SeesItself
<1>4. /\ IsRequest(KeyPatch(d)) /\ IsRequest(AccessiblePatch(d)) /\ IsRequest(StatusPost(d))
      /\ KeyPatch(d).from = d /\ AccessiblePatch(d).from = d /\ StatusPost(d).from = d
  BY <1>3, RequestsAreRequests
<1>5. IsChoice(NoChoice)
  BY DEF IsChoice, NoChoice
<1>6. ASSUME NEW m, m.from = d, IsRequest(m), CallFails(m) PROVE TypeInv'
  <2>1. /\ pc'[d] = "step" /\ nc'[d] = Nothing /\ via'[d] = NoChoice
        /\ UNCHANGED <<believes, boots, applied, dns>>
        /\ UNCHANGED serverVars \/ ServerHandles(m)
        /\ \A r \in late' : IsRequest(r)
    BY <1>6, FailedCall DEF TypeInv
  <2>2. TypeOK'
    BY <1>6, <2>1, ServerKept DEF TypeInv, TypeOK, serverVars
  <2>3. boots'[d] + left' <= MaxDisturbances
    BY <1>1, <1>2, <2>1, ReifyAssumption DEF ClientTypeOK, Local, TypeInv
  <2>4. ClientTypeOK(d)'
    BY <1>1, <1>5, <2>1, <2>3 DEF ClientTypeOK, Working
  <2> QED
    BY <1>2, <2>1, <2>2, <2>4, TypeMove DEF TypeInv, Local
<1>7. ASSUME NEW m, IsRequest(m), ServerHandles(m), UNCHANGED <<boots, hostVars, late, left>>,
             ClientTypeOK(d)'
      PROVE  TypeInv'
  <2>1. TypeOK'
    BY <1>7, ServerKept DEF TypeInv
  <2> QED
    BY <1>2, <1>7, <2>1, TypeMove DEF TypeInv, Local
<1>8. CASE PatchKey(d) /\ ~CallFails(KeyPatch(d))
  <2> DEFINE w == [nc[d] EXCEPT !.Devices[d].PublicKey = MyKey(d)]
  <2>1. /\ ServerHandles(KeyPatch(d)) /\ nc' = [nc EXCEPT ![d].Devices[d].PublicKey = MyKey(d)]
        /\ pc' = [pc EXCEPT ![d] = "choose"] /\ UNCHANGED <<via, boots, hostVars, late, left>>
        /\ SeesItself(d)
    BY <1>8 DEF PatchKey, Goto
  <2>2. nc'[d] = w
    BY <1>1, <2>1
  <2>3. /\ IsNetworkCensored(w) /\ d \in DOMAIN w.Devices /\ w.Devices[d].PublicKey = MyKey(d)
    <3>1. nc[d].Devices[d] \in NetworkDeviceCensored
      BY <1>1, <1>3, <2>1 DEF ClientTypeOK, SeesItself, IsNetworkCensored
    <3>2. [nc[d].Devices[d] EXCEPT !.PublicKey = MyKey(d)].PublicKey = MyKey(d)
      BY <3>1 DEF NetworkDeviceCensored
    <3> QED
      BY <1>3, <2>1, <3>2, OwnRecordSet DEF SeesItself
  <2> HIDE DEF w
  <2>4. ClientTypeOK(d)'
    BY <1>1, <2>1, <2>2, <2>3 DEF ClientTypeOK, MyKey, hostVars
  <2> QED
    BY <1>4, <1>7, <2>1, <2>4
<1>9. CASE PatchAccessible(d) /\ ~CallFails(AccessiblePatch(d))
  <2> DEFINE w == [nc[d] EXCEPT !.Devices[d].Accessible = AccessibleOf(d)]
  <2>1. /\ ServerHandles(AccessiblePatch(d)) /\ nc' = [nc EXCEPT ![d].Devices[d].Accessible = AccessibleOf(d)]
        /\ pc' = [pc EXCEPT ![d] = "dns"] /\ UNCHANGED <<via, boots, hostVars, late, left>>
        /\ pc[d] = "forward"
    BY <1>9 DEF PatchAccessible, Goto
  <2>2. nc'[d] = w
    BY <1>1, <2>1
  <2>3. /\ IsNetworkCensored(w) /\ d \in DOMAIN w.Devices /\ w.Devices[d].PublicKey = MyKey(d)
    <3>1. nc[d].Devices[d] \in NetworkDeviceCensored /\ nc[d].Devices[d].PublicKey = MyKey(d)
      BY <1>1, <1>3, <2>1 DEF ClientTypeOK, SeesItself, IsNetworkCensored, Working
    <3>2. [nc[d].Devices[d] EXCEPT !.Accessible = AccessibleOf(d)].PublicKey = MyKey(d)
      BY <3>1 DEF NetworkDeviceCensored
    <3> QED
      BY <1>3, <2>1, <3>2, OwnRecordSet DEF SeesItself
  <2> HIDE DEF w
  <2>4. ClientTypeOK(d)'
    BY <1>1, <2>1, <2>2, <2>3 DEF ClientTypeOK, MyKey, hostVars
  <2> QED
    BY <1>4, <1>7, <2>1, <2>4
<1>10. CASE PostStatus(d) /\ ~CallFails(StatusPost(d))
  <2>1. /\ ServerHandles(StatusPost(d)) /\ nc' = [nc EXCEPT ![d] = Nothing]
        /\ pc' = [pc EXCEPT ![d] = "step"] /\ via' = [via EXCEPT ![d] = NoChoice]
        /\ UNCHANGED <<boots, hostVars, late, left>>
    BY <1>10 DEF PostStatus, Goto
  <2>2. ClientTypeOK(d)'
    BY <1>1, <1>5, <2>1 DEF ClientTypeOK, Working, hostVars
  <2> QED
    BY <1>4, <1>7, <2>1, <2>2
<1> QED
  BY <1>4, <1>6, <1>8, <1>9, <1>10 DEF PatchKey, PatchAccessible, PostStatus

(* The steps of nobody's client.                                           *)
LEMMA TypeOthers ==
    ASSUME TypeInv,
           \/ \E m \in late : LateDelivery(m)
           \/ ServerRestarts
           \/ \E d \in DNSClients : DNSRestarts(d)
           \/ \E d \in Clients : \E p \in DOMAIN InitSpec[Net] \ {d} : ReachChanges(d, p)
    PROVE  TypeInv'
<1>1. CASE \E m \in late : LateDelivery(m)
  <2>1. PICK m \in late : LateDelivery(m)
    BY <1>1
  <2>2. ServerHandles(m) /\ late' \subseteq late /\ UNCHANGED <<clientVars, hostVars, reach, left>>
    BY <2>1 DEF LateDelivery
  <2>3. TypeOK'
    BY <2>1, <2>2, ServerKept DEF TypeInv
  <2> QED
    BY <2>2, <2>3 DEF TypeInv, ClientTypeOK, MyKey, clientVars, hostVars
<1>2. CASE ServerRestarts \/ (\E d \in DNSClients : DNSRestarts(d))
           \/ (\E d \in Clients : \E p \in DOMAIN InitSpec[Net] \ {d} : ReachChanges(d, p))
  <2>1. left > 0 /\ left' = left - 1 /\ UNCHANGED <<clientVars, late>>
    BY <1>2 DEF ServerRestarts, DNSRestarts, ReachChanges, Disturb
  <2>2. left' \in 0..MaxDisturbances /\ left' <= left
    BY <2>1, ReifyAssumption DEF TypeInv
  <2>3. TypeOK'
    <3>1. Restart \/ UNCHANGED serverVars
      BY <1>2 DEF ServerRestarts, DNSRestarts, ReachChanges
    <3> QED
      BY <3>1, TypeStep DEF TypeInv, Next
  <2>4. reach' \subseteq Clients \X DeviceNames
    <3>1. DOMAIN InitSpec[Net] \subseteq DeviceNames
      BY ReifyAssumption, CoordAssumption DEF IsSpec, IsNetwork
    <3>2. CASE \E d \in Clients : \E p \in DOMAIN InitSpec[Net] \ {d} : ReachChanges(d, p)
      <4>1. PICK d \in Clients, p \in DeviceNames : ReachChanges(d, p)
        BY <3>1, <3>2
      <4> QED
        BY <4>1 DEF ReachChanges, TypeInv
    <3> QED
      BY <1>2, <3>2 DEF ServerRestarts, DNSRestarts, TypeInv
  <2>5. /\ DOMAIN applied' = Clients /\ DOMAIN dns' = Clients /\ linked' \subseteq DNSClients
        /\ applied' = applied /\ \A d \in Clients : dns'[d] \in {dns[d], Nothing}
    BY <1>2 DEF ServerRestarts, DNSRestarts, ReachChanges, hostVars, TypeInv
  <2>6. ASSUME NEW d \in Clients PROVE ClientTypeOK(d)'
    <3>1. boots'[d] + left' <= MaxDisturbances
      BY <2>1, <2>2, ReifyAssumption DEF clientVars, TypeInv, ClientTypeOK
    <3> QED
      BY <2>1, <2>5, <3>1 DEF ClientTypeOK, MyKey, clientVars, TypeInv
  <2> QED
    BY <2>1, <2>2, <2>3, <2>4, <2>5, <2>6 DEF TypeInv, clientVars
<1> QED
  BY <1>1, <1>2

(* Everything starts with its type.                                        *)
LEMMA TypeInvInit == ProtocolInit => TypeInv
<1> SUFFICES ASSUME ProtocolInit PROVE TypeInv
  OBVIOUS
<1>1. TypeOK
  BY TypeInit DEF ProtocolInit
<1>2. IsChoice(NoChoice)
  BY DEF IsChoice, NoChoice
<1>3. 0 \in 0..MaxDisturbances /\ MaxDisturbances \in 0..MaxDisturbances /\ 0 + MaxDisturbances <= MaxDisturbances
  BY ReifyAssumption
<1>4. ASSUME NEW d \in Clients PROVE ClientTypeOK(d)
  BY <1>2, <1>3 DEF ProtocolInit, ClientTypeOK, Working
<1> QED
  BY <1>1, <1>3, <1>4, ReifyAssumption DEF ProtocolInit, TypeInv, PCs

(* Every step keeps the types.                                             *)
LEMMA TypeInvStep == TypeInv /\ [ProtocolNext]_vars => TypeInv'
<1> SUFFICES ASSUME TypeInv, [ProtocolNext]_vars PROVE TypeInv'
  OBVIOUS
<1>1. ASSUME NEW d \in Clients, ClientStep(d) \/ ClientCrashes(d) \/ Reboots(d) PROVE TypeInv'
  BY <1>1, TypeAlone, TypeCall DEF ClientStep
<1>2. CASE UNCHANGED vars
  <2>1. TypeOK'
    BY <1>2, TypeStep DEF vars, TypeInv
  <2> QED
    BY <1>2, <2>1 DEF vars, clientVars, hostVars, TypeInv, ClientTypeOK, MyKey
<1> QED
  BY <1>1, <1>2, TypeOthers DEF ProtocolNext

(* Clients, their machines and the requests under way keep their types,    *)
(* whatever is disturbed.                                                  *)
THEOREM ProtocolTypeCorrect == Protocol => []ProtocolTypeOK
  BY TypeInvInit, TypeInvStep, TypeInvIsType, PTL DEF Protocol

-----------------------------------------------------------------------------
(* No request changes which devices there are, or an address.              *)
SpecStays ==
    /\ Net \in DOMAIN spec /\ DOMAIN spec[Net] = DOMAIN InitSpec[Net]
    /\ \A p \in DOMAIN spec[Net] : spec[Net][p].Addresses = InitSpec[Net][p].Addresses

(* View v with the addresses of device d in order.                         *)
InOrder(v, d) == [v EXCEPT !.Devices[d].Addresses = SortAddresses[@]]

(* The choices v -> w of chooseEndpoints, with nothing said of the order:  *)
(* an endpoint, nothing, or a device that says it reaches p.               *)
Ways(v, w, d) ==
    /\ DOMAIN w = DOMAIN v.Devices \ {d}
    /\ \A p \in DOMAIN w :
        w[p] \in {p, NoRoute} \/ (w[p] \in DOMAIN w /\ p \in v.Devices[w[p]].Accessible)

Advertised(w, d) == IF d \in Forwarders THEN {p \in DOMAIN w : w[p] # NoRoute} ELSE {}

(* What an interface that is believed to be up to date was made from.      *)
Sourced(x, d) ==
    /\ d \in DOMAIN x.nc.Devices
    /\ x.key = x.nc.Devices[d].PublicKey /\ x.key # ZeroKey
    /\ Ways(x.nc, x.via, d)
    /\ x.nc.Devices[d].Accessible = Advertised(x.via, d)

(* A DNS server that answers has view v, as it was before addresses were   *)
(* sorted.                                                                 *)
NamesGiven(v, d) ==
    d \in linked =>
        /\ IsNetworkCensored(dns[d]) /\ d \in DOMAIN dns[d].Devices
        /\ dns[d].Devices[d].Addresses = InitSpec[Net][d].Addresses
        /\ v = InOrder(dns[d], d)

(* No request reaches the server after its client gave up.                 *)
Prompt == "late" \notin Disturbances

(* How far a client has got, and with what.  What the server was told last *)
(* is what was applied, if no request is late.                             *)
ClientInv(d) ==
    /\ pc[d] \in Working \ {"post"} /\ d \in DOMAIN nc[d].Devices =>
           nc[d].Devices[d].Addresses = InitSpec[Net][d].Addresses
    /\ pc[d] \in {"forward", "dns", "apply", "post"} => Ways(nc[d], via[d], d)
    /\ pc[d] \in {"dns", "apply", "post"} => nc[d].Devices[d].Accessible = Advertised(via[d], d)
    /\ pc[d] = "apply" /\ d \in linked => dns[d] = nc[d]
    /\ pc[d] = "post" =>
        /\ applied[d] = [nc |-> nc[d], via |-> via[d], key |-> MyKey(d)]
        /\ NamesGiven(nc[d], d)
    /\ believes[d] =>
        /\ pc[d] = "step" /\ applied[d] \notin {Nothing, Partial}
        /\ Sourced(applied[d], d) /\ NamesGiven(applied[d].nc, d)
        /\ applied[d].nc.Devices[d].Addresses = InitSpec[Net][d].Addresses
        /\ Prompt => confirmed[<<Net, d>>] \in {NoReport, applied[d].nc}

(* The inductive invariant.                                                *)
PromptInv ==
    /\ TypeInv /\ LatestConfirmed /\ SpecStays
    /\ Prompt => late = {}
    /\ \A d \in Clients : ClientInv(d)

-----------------------------------------------------------------------------
(* A patch leaves the devices and their addresses, and clears every list   *)
(* of accessible devices but the one it sets.                              *)
LEMMA PatchedFields ==
    ASSUME IsSpec(spec), NEW n, NEW d, Known(spec, n, d), NEW req \in PatchReifySpecRequest,
           NEW p, p = PatchedSpec(n, d, req)
    PROVE  /\ n \in DOMAIN p /\ DOMAIN p[n] = DOMAIN spec[n]
           /\ \A q \in DOMAIN spec[n] :
                /\ p[n][q].Addresses = spec[n][q].Addresses
                /\ p[n][q].Accessible = IF q = d /\ req.AccessibleSet THEN req.Accessible ELSE {}
<1> DEFINE c == Clone(spec)[n]
           r == PatchedDevice(c[d], req)
<1>1. c = [q \in DOMAIN spec[n] |-> CloneDevice(spec[n][q])] /\ n \in DOMAIN Clone(spec)
  BY DEF Clone, Known
<1>2. ASSUME NEW q \in DOMAIN spec[n]
      PROVE  /\ c[q] \in NetworkDevice
             /\ c[q].Addresses = spec[n][q].Addresses /\ c[q].Accessible = {}
  <2>1. spec[n][q] \in NetworkDevice /\ c[q] = [spec[n][q] EXCEPT !.Accessible = {}]
    BY <1>1 DEF Known, IsSpec, IsNetwork, CloneDevice
  <2> HIDE DEF c
  <2> QED
    BY <2>1 DEF NetworkDevice
<1>3. d \in DOMAIN spec[n]
  BY DEF Known
<1>4. r.Addresses = spec[n][d].Addresses
      /\ r.Accessible = IF req.AccessibleSet THEN req.Accessible ELSE {}
  <2>1. c[d] \in NetworkDevice /\ c[d].Addresses = spec[n][d].Addresses /\ c[d].Accessible = {}
    BY <1>2, <1>3
  <2> HIDE DEF c
  <2> QED
    BY <2>1 DEF PatchedDevice, NetworkDevice
<1>5. p = [Clone(spec) EXCEPT ![n] = [c EXCEPT ![d] = r]]
  BY Zenon DEF PatchedSpec
<1> HIDE DEF r
<1>6. n \in DOMAIN p /\ p[n] = [c EXCEPT ![d] = r]
  BY <1>1, <1>5
<1> HIDE DEF c
<1> QED
  BY <1>1, <1>2, <1>3, <1>4, <1>6

(* What a request does at the server, as far as clients can tell.          *)
LEMMA ServerStays ==
    ASSUME TypeOK, SpecStays, NEW m, IsRequest(m), ServerHandles(m)
    PROVE  /\ SpecStays'
           /\ \A e \in DeviceNames : e # m.from => confirmed'[<<Net, e>>] = confirmed[<<Net, e>>]
<1>1. CASE PatchReifySpec(Net, m.from, m.body) /\ m.body \in PatchReifySpecRequest
  <2>1. spec' = PatchedSpec(Net, m.from, m.body) /\ confirmed' = confirmed /\ Known(spec, Net, m.from)
    BY <1>1 DEF PatchReifySpec, PatchAccepted, Admitted, UpdateSpecNoLock
  <2>2. /\ Net \in DOMAIN spec' /\ DOMAIN spec'[Net] = DOMAIN spec[Net]
        /\ \A q \in DOMAIN spec[Net] : spec'[Net][q].Addresses = spec[Net][q].Addresses
    BY <1>1, <2>1, PatchedFields DEF TypeOK
  <2> QED
    BY <2>1, <2>2 DEF SpecStays
<1>2. CASE PostMatching(Net, m.from, m.body)
  <2>1. spec' = spec /\ confirmed' = [confirmed EXCEPT ![<<Net, m.from>>] = m.body]
    BY <1>2 DEF PostMatching
  <2>2. Net \in NetworkNames /\ m.from \in DeviceNames
    BY <1>2, CoordAssumption DEF PostMatching, Admitted
  <2> QED
    BY <2>1, <2>2 DEF SpecStays, TypeOK
<1>3. CASE PostDiffering(Net, m.from, m.body)
  BY <1>3 DEF PostDiffering, serverVars, SpecStays
<1> QED
  BY <1>1, <1>2, <1>3 DEF ServerHandles, IsRequest, PostReifyStatus

(* A client that does nothing stays as far as it has got.                  *)
LEMMA ClientKept ==
    ASSUME NEW e \in Clients, ClientInv(e), Idle(e), e \in linked' => e \in linked,
           Prompt => confirmed'[<<Net, e>>] \in {NoReport, confirmed[<<Net, e>>]}
    PROVE  ClientInv(e)'
<1>1. \A v : NamesGiven(v, e) => NamesGiven(v, e)'
  BY DEF NamesGiven, Idle, InOrder
<1>2. MyKey(e)' = MyKey(e)
  BY DEF Idle, MyKey
<1> QED
  BY <1>1, <1>2 DEF ClientInv, Idle

(* When one client moves, the others stay as far as they have got.         *)
LEMMA PromptMove ==
    ASSUME PromptInv, NEW d \in Clients, TypeInv', LatestConfirmed', SpecStays', Prompt => late' = {},
           Local(d), \A e \in DeviceNames \ {d} : confirmed'[<<Net, e>>] = confirmed[<<Net, e>>],
           ClientInv(d)'
    PROVE  PromptInv'
<1>1. ASSUME NEW e \in Clients \ {d} PROVE ClientInv(e)'
  <2>1. Idle(e) /\ (e \in linked' => e \in linked) /\ ClientInv(e)
    BY DEF Local, PromptInv
  <2>2. confirmed'[<<Net, e>>] = confirmed[<<Net, e>>]
    BY ClientsAreDevices
  <2> QED
    BY <2>1, <2>2, ClientKept
<1> QED
  BY <1>1 DEF PromptInv

(* A client that gives up, or starts again, has got nowhere.               *)
LEMMA BackAtStep ==
    ASSUME NEW d \in Clients, pc'[d] = "step", believes'[d] = FALSE
    PROVE  ClientInv(d)'
  BY DEF ClientInv, Working

(* A view that was fetched has the addresses there always were.            *)
LEMMA FetchedAddresses ==
    ASSUME SpecStays, NEW d \in Clients, d \in DOMAIN View(d).Devices
    PROVE  View(d).Devices[d].Addresses = InitSpec[Net][d].Addresses
  BY DEF SpecStays, View, CensorForDevice, Censored, Visible

(* What chooseEndpoints may choose are ways.                               *)
LEMMA ChoicesAreWays ==
    ASSUME NEW v, NEW d, NEW answered, NEW others, others = DOMAIN v.Devices \ {d},
           NEW w \in [others -> others \cup {NoRoute}], ValidChoice(v.Devices, w, answered)
    PROVE  Ways(v, w, d)
<1>1. \A p, q : ChosenBefore(w, answered, q) \subseteq DOMAIN w
  BY DEF ChosenBefore
<1> QED
  BY <1>1 DEF Ways, ValidChoice, GetForwardersFor

(* The client's own record is not a way.                                   *)
LEMMA WaysOfOthers ==
    ASSUME NEW v, NEW w, NEW d, NEW u, Ways(v, w, d), DOMAIN u.Devices = DOMAIN v.Devices,
           \A p \in DOMAIN v.Devices \ {d} : u.Devices[p] = v.Devices[p]
    PROVE  Ways(u, w, d)
  BY DEF Ways

(* How far a client gets by calls that change nothing at the server.       *)
LEMMA PromptAlone ==
    ASSUME PromptInv, NEW d \in Clients,
           \/ GetLatest(d) \/ GetSpec(d) \/ PanicUnseen(d) \/ KeyUpToDate(d)
           \/ ChooseEndpoints(d) \/ AccessibleUpToDate(d)
           \/ UpdateDNS(d) \/ UpdateDNSFails(d) \/ ApplyMachine(d) \/ ApplyFails(d)
           \/ ClientCrashes(d) \/ Reboots(d)
    PROVE  PromptInv'
<1>1. /\ ClientInv(d) /\ ClientTypeOK(d) /\ TypeInv /\ SpecStays
      /\ pc \in [Clients -> PCs] /\ believes \in [Clients -> BOOLEAN]
      /\ DOMAIN nc = Clients /\ DOMAIN via = Clients /\ DOMAIN applied = Clients /\ DOMAIN dns = Clients
      /\ linked \subseteq DNSClients
  BY DEF PromptInv, TypeInv
<1>2. Local(d) /\ TypeInv'
  BY StepIsLocal, TypeAlone DEF ClientStep, PromptInv
<1>3. UNCHANGED serverVars /\ late' = late
  BY DEF GetLatest, GetSpec, PanicUnseen, KeyUpToDate, ChooseEndpoints, AccessibleUpToDate,
         UpdateDNS, UpdateDNSFails, ApplyMachine, ApplyFails, ClientCrashes, Reboots
<1>4. LatestConfirmed' /\ SpecStays'
  BY <1>3 DEF PromptInv, LatestConfirmed, Latest, SpecStays, serverVars
<1>5. ASSUME ClientInv(d)' PROVE PromptInv'
  BY <1>2, <1>3, <1>4, <1>5, PromptMove DEF PromptInv, serverVars
<1>6. pc[d] # "step" => believes[d] = FALSE
  BY <1>1 DEF ClientInv
<1>7. CASE GetLatest(d)
  <2>1. believes[d] /\ pc' = pc /\ UNCHANGED <<nc, via, boots, hostVars>>
    BY <1>7 DEF GetLatest
  <2>2. NamesGiven(applied[d].nc, d)' <=> NamesGiven(applied[d].nc, d)
    BY <2>1 DEF NamesGiven, InOrder, hostVars
  <2>3. confirmed' = confirmed /\ MyKey(d)' = MyKey(d)
    BY <1>3, <2>1 DEF serverVars, MyKey
  <2> QED
    BY <1>1, <1>5, <2>1, <2>2, <2>3 DEF ClientInv, hostVars, Working
<1>8. CASE GetSpec(d)
  <2>1. /\ pc[d] = "step" /\ ~believes[d] /\ pc' = [pc EXCEPT ![d] = "keys"]
        /\ nc' = [nc EXCEPT ![d] = View(d)] /\ believes' = believes
    BY <1>8 DEF GetSpec, Goto
  <2> QED
    BY <1>1, <1>5, <2>1, FetchedAddresses DEF ClientInv, Working
<1>9. CASE PanicUnseen(d)
  BY <1>1, <1>5, <1>6, <1>9 DEF PanicUnseen, Goto, ClientInv, Working
<1>10. CASE KeyUpToDate(d)
  BY <1>1, <1>5, <1>6, <1>10 DEF KeyUpToDate, Goto, ClientInv, Working
<1>11. CASE ChooseEndpoints(d)
  <2> DEFINE others == DOMAIN nc[d].Devices \ {d}
  <2>1. /\ pc[d] = "choose" /\ pc' = [pc EXCEPT ![d] = "forward"]
        /\ UNCHANGED <<believes, nc>>
        /\ \E v \in [others -> others \cup {NoRoute}] :
             ValidChoice(nc[d].Devices, v, Answering(d)) /\ via' = [via EXCEPT ![d] = v]
    BY <1>11 DEF ChooseEndpoints, Goto
  <2>2. Ways(nc[d], via'[d], d)
    <3>1. PICK v \in [others -> others \cup {NoRoute}] :
            ValidChoice(nc[d].Devices, v, Answering(d)) /\ via' = [via EXCEPT ![d] = v]
      BY <2>1
    <3>2. via'[d] = v
      BY <1>1, <3>1
    <3>3. Ways(nc[d], v, d)
      BY <3>1, ChoicesAreWays
    <3> QED
      BY <3>2, <3>3
  <2> QED
    BY <1>1, <1>5, <1>6, <2>1, <2>2 DEF ClientInv, Working
<1>12. CASE AccessibleUpToDate(d)
  BY <1>1, <1>5, <1>6, <1>12
     DEF AccessibleUpToDate, Goto, ClientInv, Working, Own, AccessibleOf, Advertised
<1>13. CASE UpdateDNS(d)
  BY <1>1, <1>5, <1>6, <1>13 DEF UpdateDNS, Goto, ClientInv, Working
<1>14. CASE UpdateDNSFails(d) \/ ApplyFails(d)
  BY <1>1, <1>5, <1>6, <1>14, BackAtStep DEF UpdateDNSFails, ApplyFails, GiveUp
<1>15. CASE ApplyMachine(d)
  <2> DEFINE w == ViewAfterApply(d)
             x == [nc |-> w, via |-> via[d], key |-> MyKey(d)]
  <2>1. /\ pc[d] = "apply" /\ pc' = [pc EXCEPT ![d] = "post"] /\ nc' = [nc EXCEPT ![d] = w]
        /\ applied' = [applied EXCEPT ![d] = x]
        /\ UNCHANGED <<believes, via, boots, dns, linked>>
    BY <1>15 DEF ApplyMachine, Goto
  <2>2. pc[d] \in Working /\ SeesItself(d) /\ nc[d].Devices[d] \in NetworkDeviceCensored
        /\ IsNetworkCensored(nc[d])
    BY <1>1, <2>1 DEF SeesItself, ClientTypeOK, IsNetworkCensored, Working
  <2>3. /\ DOMAIN w.Devices = DOMAIN nc[d].Devices
        /\ w.Devices[d] = [nc[d].Devices[d] EXCEPT !.Addresses = SortAddresses[@]]
        /\ \A p \in DOMAIN nc[d].Devices \ {d} : w.Devices[p] = nc[d].Devices[p]
    BY <1>1, <2>2, OwnRecordSet
  <2>4. w.Devices[d].Accessible = nc[d].Devices[d].Accessible
    BY <2>2, <2>3 DEF NetworkDeviceCensored
  <2>5. Ways(nc[d], via[d], d) /\ nc[d].Devices[d].Accessible = Advertised(via[d], d)
        /\ (d \in linked => dns[d] = nc[d])
        /\ nc[d].Devices[d].Addresses = InitSpec[Net][d].Addresses
    BY <1>1, <2>1, <2>2 DEF ClientInv, Working, SeesItself
  <2>6. Ways(w, via[d], d)
    BY <2>3, <2>5, WaysOfOthers
  <2>7. w = InOrder(nc[d], d)
    BY DEF ViewAfterApply, InOrder
  <2> HIDE DEF w
  <2>8. /\ pc'[d] = "post" /\ nc'[d] = w /\ via'[d] = via[d] /\ applied'[d] = x
        /\ MyKey(d)' = MyKey(d) /\ believes'[d] = FALSE /\ dns'[d] = dns[d] /\ linked' = linked
    BY <1>1, <1>6, <2>1 DEF MyKey
  <2>9. NamesGiven(nc[d], d)'
    BY <2>2, <2>5, <2>7, <2>8 DEF NamesGiven, SeesItself, InOrder
  <2>10. Ways(nc[d], via[d], d)' /\ (nc[d].Devices[d].Accessible = Advertised(via[d], d))'
    BY <2>4, <2>5, <2>6, <2>8 DEF Ways, Advertised
  <2>11. (applied[d] = [nc |-> nc[d], via |-> via[d], key |-> MyKey(d)])'
    BY <2>8
  <2> QED
    BY <1>5, <2>8, <2>9, <2>10, <2>11 DEF ClientInv, Working
<1>16. CASE ClientCrashes(d) \/ Reboots(d)
  BY <1>1, <1>5, <1>16, BackAtStep DEF ClientCrashes, Reboots, StartAgain
<1> QED
  BY <1>7, <1>8, <1>9, <1>10, <1>11, <1>12, <1>13, <1>14, <1>15, <1>16

(* How far a client gets by calls that reach the server, or fail.          *)
LEMMA PromptCall ==
    ASSUME PromptInv, NEW d \in Clients,
           PatchKey(d) \/ PatchAccessible(d) \/ PostStatus(d)
    PROVE  PromptInv'
<1>1. /\ ClientInv(d) /\ ClientTypeOK(d) /\ TypeInv /\ TypeOK /\ SpecStays /\ LatestConfirmed
      /\ pc \in [Clients -> PCs] /\ believes \in [Clients -> BOOLEAN]
      /\ DOMAIN nc = Clients /\ DOMAIN via = Clients /\ boots[d] \in 0..MaxDisturbances
      /\ Prompt => late = {}
  BY DEF PromptInv, TypeInv
<1>2. Local(d) /\ TypeInv'
  BY <1>1, StepIsLocal, TypeCall DEF ClientStep
<1>3. pc[d] \in Working /\ (pc[d] # "keys" => SeesItself(d)) /\ believes[d] = FALSE
  BY <1>1 DEF PatchKey, PatchAccessible, PostStatus, Working, ClientTypeOK, SeesItself, ClientInv
<1>4. /\ IsRequest(KeyPatch(d)) /\ IsRequest(AccessiblePatch(d)) /\ IsRequest(StatusPost(d))
      /\ KeyPatch(d).from = d /\ AccessiblePatch(d).from = d /\ StatusPost(d).from = d
  BY <1>1, <1>3, RequestsAreRequests
<1>5. ASSUME NEW m, m.from = d, IsRequest(m), UNCHANGED serverVars \/ ServerHandles(m), Prompt => late' = {},
             ClientInv(d)'
      PROVE  PromptInv'
  <2>1. CASE UNCHANGED serverVars
    <3>1. LatestConfirmed' /\ SpecStays' /\ confirmed' = confirmed
      BY <1>1, <2>1 DEF LatestConfirmed, Latest, SpecStays, serverVars
    <3> QED
      BY <1>2, <1>5, <3>1, PromptMove
  <2>2. CASE ServerHandles(m)
    BY <1>1, <1>2, <1>5, <2>2, PromptMove, ServerStays, ServerKept
  <2> QED
    BY <1>5, <2>1, <2>2
<1>6. ASSUME NEW m, m.from = d, IsRequest(m), CallFails(m) PROVE PromptInv'
  BY <1>1, <1>3, <1>5, <1>6, FailedCall, BackAtStep DEF Prompt
<1>7. CASE PatchKey(d) /\ ~CallFails(KeyPatch(d))
  <2> DEFINE w == [nc[d] EXCEPT !.Devices[d].PublicKey = MyKey(d)]
  <2>1. /\ ServerHandles(KeyPatch(d)) /\ nc' = [nc EXCEPT ![d].Devices[d].PublicKey = MyKey(d)]
        /\ pc' = [pc EXCEPT ![d] = "choose"] /\ UNCHANGED <<believes, late>>
        /\ SeesItself(d) /\ pc[d] = "keys"
    BY <1>7 DEF PatchKey, Goto
  <2>2. nc'[d] = w
    BY <1>1, <2>1
  <2>3. nc[d].Devices[d] \in NetworkDeviceCensored
    BY <1>1, <1>3, <2>1 DEF ClientTypeOK, SeesItself, IsNetworkCensored
  <2>4. w.Devices[d] = [nc[d].Devices[d] EXCEPT !.PublicKey = MyKey(d)]
    BY <1>1, <1>3, <2>1, OwnRecordSet
  <2> HIDE DEF w
  <2>5. w.Devices[d].Addresses = nc[d].Devices[d].Addresses
    BY <2>3, <2>4 DEF NetworkDeviceCensored
  <2>6. ClientInv(d)'
    BY <1>1, <1>3, <2>1, <2>2, <2>5 DEF ClientInv, SeesItself, Working
  <2> QED
    BY <1>1, <1>4, <1>5, <2>1, <2>6
<1>8. CASE PatchAccessible(d) /\ ~CallFails(AccessiblePatch(d))
  <2> DEFINE w == [nc[d] EXCEPT !.Devices[d].Accessible = AccessibleOf(d)]
  <2>1. /\ ServerHandles(AccessiblePatch(d))
        /\ nc' = [nc EXCEPT ![d].Devices[d].Accessible = AccessibleOf(d)]
        /\ pc' = [pc EXCEPT ![d] = "dns"] /\ UNCHANGED <<believes, via, late>>
        /\ pc[d] = "forward" /\ SeesItself(d)
    BY <1>3, <1>8 DEF PatchAccessible, Goto
  <2>2. nc'[d] = w
    BY <1>1, <2>1
  <2>3. nc[d].Devices[d] \in NetworkDeviceCensored
    BY <1>1, <1>3, <2>1 DEF ClientTypeOK, SeesItself, IsNetworkCensored
  <2>4. /\ w.Devices[d] = [nc[d].Devices[d] EXCEPT !.Accessible = AccessibleOf(d)]
        /\ DOMAIN w.Devices = DOMAIN nc[d].Devices
        /\ \A p \in DOMAIN nc[d].Devices \ {d} : w.Devices[p] = nc[d].Devices[p]
    BY <1>1, <1>3, <2>1, OwnRecordSet
  <2> HIDE DEF w
  <2>5. /\ w.Devices[d].Addresses = nc[d].Devices[d].Addresses
        /\ w.Devices[d].Accessible = Advertised(via[d], d)
    <3>1. AccessibleOf(d) = Advertised(via[d], d)
      BY DEF AccessibleOf, Advertised
    <3>2. ASSUME NEW r \in NetworkDeviceCensored, NEW ps
          PROVE  /\ [r EXCEPT !.Accessible = ps].Addresses = r.Addresses
                 /\ [r EXCEPT !.Accessible = ps].Accessible = ps
      BY DEF NetworkDeviceCensored
    <3> QED
      BY <2>3, <2>4, <3>1, <3>2
  <2>6. Ways(w, via[d], d)
    <3>1. Ways(nc[d], via[d], d)
      BY <1>1, <2>1 DEF ClientInv
    <3> QED
      BY <2>4, <3>1, WaysOfOthers
  <2>7. ClientInv(d)'
    BY <1>1, <1>3, <2>1, <2>2, <2>5, <2>6 DEF ClientInv, SeesItself, Working
  <2> QED
    BY <1>1, <1>4, <1>5, <2>1, <2>7
<1>9. CASE PostStatus(d) /\ ~CallFails(StatusPost(d))
  <2>1. /\ PostReifyStatus(Net, d, nc[d]) /\ ServerHandles(StatusPost(d))
        /\ believes' = [believes EXCEPT ![d] = (nc[d] = View(d))]
        /\ pc' = [pc EXCEPT ![d] = "step"] /\ pc[d] = "post"
        /\ UNCHANGED <<hostVars, late>>
    BY <1>9 DEF PostStatus, Goto, ServerHandles, StatusPost
  <2>2. CASE nc[d] # View(d)
    <3>1. pc'[d] = "step" /\ believes'[d] = FALSE
      BY <1>1, <2>1, <2>2
    <3> QED
      BY <1>1, <1>4, <1>5, <2>1, <3>1, BackAtStep
  <2>3. CASE nc[d] = View(d)
    <3>1. confirmed' = [confirmed EXCEPT ![<<Net, d>>] = nc[d]]
      BY <2>1, <2>3 DEF PostReifyStatus, PostMatching, PostDiffering, View
    <3>2. confirmed'[<<Net, d>>] = nc[d]
      BY <1>1, <3>1, ClientsAreDevices DEF TypeOK
    <3>3. applied'[d] = [nc |-> nc[d], via |-> via[d], key |-> MyKey(d)] /\ applied' = applied
          /\ dns' = dns /\ linked' = linked
      BY <1>1, <2>1 DEF ClientInv, hostVars
    <3>4. Sourced(applied[d], d)
      BY <1>1, <1>3, <2>1, <3>3, HasKey DEF Sourced, ClientInv, ClientTypeOK, Working
    <3>5. NamesGiven(applied[d].nc, d)
      BY <1>1, <2>1, <3>3 DEF ClientInv
    <3>6. Sourced(applied[d], d)' /\ NamesGiven(applied[d].nc, d)'
      BY <3>3, <3>4, <3>5 DEF Sourced, Ways, Advertised, NamesGiven, InOrder
    <3>7. applied'[d] \notin {Nothing, Partial} /\ applied'[d].nc = nc[d]
      <4>1. "key" \in DOMAIN applied'[d]
        BY <3>3
      <4>2. "key" \notin DOMAIN Nothing /\ "key" \notin DOMAIN Partial
        BY DEF Nothing, Partial
      <4> QED
        BY <3>3, <4>1, <4>2
    <3>8. pc'[d] = "step"
      BY <1>1, <2>1
    <3>9. nc[d].Devices[d].Addresses = InitSpec[Net][d].Addresses
      BY <1>1, <1>3, <2>1, <2>3, FetchedAddresses DEF SeesItself
    <3>10. ClientInv(d)'
      BY <3>2, <3>6, <3>7, <3>8, <3>9 DEF ClientInv, Working
    <3> QED
      BY <1>1, <1>4, <1>5, <2>1, <3>10
  <2> QED
    BY <2>2, <2>3
<1> QED
  BY <1>4, <1>6, <1>7, <1>8, <1>9 DEF PatchKey, PatchAccessible, PostStatus

(* Nobody starts with a view.                                              *)
LEMMA PromptInit == ProtocolInit => PromptInv
<1> SUFFICES ASSUME ProtocolInit PROVE PromptInv
  OBVIOUS
<1>1. LatestConfirmed /\ SpecStays
  BY ConfirmedInit, ReifyAssumption DEF ProtocolInit, Init, Boot, SpecStays
<1> QED
  BY <1>1, TypeInvInit DEF ProtocolInit, PromptInv, ClientInv, Working

(* Every step keeps clients as far as they have got.                       *)
LEMMA PromptStep ==
    ASSUME PromptInv, [ProtocolNext]_vars
    PROVE  PromptInv'
<1>1. ASSUME NEW d \in Clients, ClientStep(d) \/ ClientCrashes(d) \/ Reboots(d) PROVE PromptInv'
  BY <1>1, PromptAlone, PromptCall DEF ClientStep
<1>2. ASSUME NEW m \in late, LateDelivery(m) PROVE PromptInv'
  <2>1. /\ TypeInv /\ TypeInv' /\ LatestConfirmed /\ SpecStays /\ ~Prompt /\ IsRequest(m)
    BY <1>2, TypeInvStep DEF PromptInv, TypeInv
  <2>2. ServerHandles(m) /\ UNCHANGED <<clientVars, hostVars>>
    BY <1>2 DEF LateDelivery
  <2>3. LatestConfirmed' /\ SpecStays'
    BY <2>1, <2>2, ServerKept, ServerStays DEF TypeInv
  <2>4. ASSUME NEW d \in Clients PROVE ClientInv(d)'
    BY <2>1, <2>2, ClientKept DEF PromptInv, Idle, clientVars, hostVars
  <2> QED
    BY <2>1, <2>3, <2>4 DEF PromptInv
<1>3. CASE /\ ~ \E d \in Clients : ClientStep(d) \/ ClientCrashes(d) \/ Reboots(d)
           /\ ~ \E m \in late : LateDelivery(m)
  <2>1. TypeInv'
    BY TypeInvStep DEF PromptInv
  <2>2. /\ UNCHANGED serverVars \/ Restart
        /\ UNCHANGED <<clientVars, applied>> /\ late' = late
        /\ \A d \in Clients : d \in linked' => d \in linked /\ dns'[d] = dns[d]
    <3>1. CASE ServerRestarts
      BY <3>1 DEF ServerRestarts, hostVars, PromptInv
    <3>2. CASE \E d \in DNSClients : DNSRestarts(d)
      BY <3>2 DEF DNSRestarts, PromptInv, TypeInv
    <3>3. CASE \E d \in Clients : \E p \in DOMAIN InitSpec[Net] \ {d} : ReachChanges(d, p)
      BY <3>3 DEF ReachChanges, hostVars, PromptInv
    <3>4. CASE UNCHANGED vars
      BY <3>4 DEF vars, hostVars, PromptInv
    <3> QED
      BY <1>3, <3>1, <3>2, <3>3, <3>4 DEF ProtocolNext, PromptInv
  <2>3. LatestConfirmed' /\ SpecStays' /\ \A d \in Clients : confirmed'[<<Net, d>>] \in {NoReport, confirmed[<<Net, d>>]}
    <3>1. CASE UNCHANGED serverVars
      BY <3>1 DEF LatestConfirmed, Latest, SpecStays, serverVars, PromptInv
    <3>2. CASE Restart
      <4>1. LatestConfirmed'
        BY <3>2, ConfirmedStep DEF PromptInv, TypeInv, Next
      <4> QED
        BY <3>2, <4>1, ReifyAssumption, ClientsAreDevices DEF Restart, Boot, SpecStays
    <3> QED
      BY <2>2, <3>1, <3>2
  <2>4. ASSUME NEW d \in Clients PROVE ClientInv(d)'
    <3>1. \A v : NamesGiven(v, d) => NamesGiven(v, d)'
      BY <2>2 DEF NamesGiven, InOrder
    <3>2. MyKey(d)' = MyKey(d)
      BY <2>2 DEF MyKey, clientVars
    <3> QED
      BY <2>2, <2>3, <3>1, <3>2 DEF ClientInv, PromptInv, clientVars
  <2> QED
    BY <2>1, <2>2, <2>3, <2>4 DEF PromptInv
<1> QED
  BY <1>1, <1>2, <1>3

(* Clients are as far as PromptInv says.                                   *)
LEMMA PromptAlways == Protocol => []PromptInv
  BY PromptInit, PromptStep, PTL DEF Protocol

-----------------------------------------------------------------------------
(* What a settled client has applied.                                      *)
LEMMA SettledHas ==
    ASSUME PromptInv, Prompt, NEW d \in Clients, Settled(d)
    PROVE  /\ applied[d] \notin {Nothing, Partial} /\ applied[d].nc = View(d)
           /\ Known(spec, Net, d) /\ d \in Visible(spec[Net], d)
           /\ applied[d].key = spec[Net][d].PublicKey /\ applied[d].key # ZeroKey
           /\ Ways(View(d), applied[d].via, d)
           /\ spec[Net][d].Accessible = Advertised(applied[d].via, d)
           /\ NamesGiven(View(d), d)
<1>1. /\ applied[d] \notin {Nothing, Partial} /\ Sourced(applied[d], d)
      /\ NamesGiven(applied[d].nc, d)
      /\ confirmed[<<Net, d>>] \in {NoReport, applied[d].nc}
  BY DEF PromptInv, ClientInv, Settled
<1>2. Known(spec, Net, d) /\ confirmed[<<Net, d>>] = View(d)
  BY ClientsAreDevices DEF PromptInv, LatestConfirmed, Settled, View
<1>3. applied[d].nc = View(d)
  BY <1>1, <1>2, ViewIsAReport DEF View
<1>4. d \in Visible(spec[Net], d)
  BY <1>1, <1>3 DEF Sourced, View, CensorForDevice
<1>5. View(d).Devices[d].PublicKey = spec[Net][d].PublicKey
      /\ View(d).Devices[d].Accessible = spec[Net][d].Accessible
  BY <1>4 DEF View, CensorForDevice, Censored
<1> QED
  BY <1>1, <1>2, <1>3, <1>4, <1>5 DEF Sourced

(* What one device is shown of another.                                    *)
LEMMA ShownDevice ==
    ASSUME NEW d, NEW p \in Visible(spec[Net], d)
    PROVE  /\ p \in DOMAIN View(d).Devices /\ p \in DOMAIN spec[Net]
           /\ View(d).Devices[p].PublicKey = spec[Net][p].PublicKey
           /\ View(d).Devices[p].Addresses = spec[Net][p].Addresses
           /\ View(d).Devices[p].Accessible = spec[Net][p].Accessible
  BY DEF View, CensorForDevice, Censored, Visible

(* A settled client has applied, completely, what the server would send it *)
(* now, with the key it published: whatever was patched, lost, posted      *)
(* twice or restarted in between.                                          *)
THEOREM SettledClientsApplied ==
    ASSUME "late" \notin Disturbances
    PROVE  Protocol => []SettledIsApplied
<1>1. PromptInv => SettledIsApplied
  BY SettledHas DEF SettledIsApplied, Prompt
<1> QED
  BY <1>1, PromptAlways, PTL

(* The two ends of a tunnel between settled clients use each other's keys, *)
(* though each made its key known and fetched the other's at its own time. *)
THEOREM SettledTunnelsAgree ==
    ASSUME "late" \notin Disturbances
    PROVE  Protocol => []TunnelKeysAgree
<1>1. PromptInv => TunnelKeysAgree
  <2> SUFFICES ASSUME PromptInv, NEW d \in Clients, NEW e \in Clients, Settled(d), Settled(e),
                      e \in Visible(spec[Net], d)
               PROVE  applied[d].nc.Devices[e].PublicKey = applied[e].key
    BY DEF TunnelKeysAgree
  <2> QED
    BY SettledHas, ShownDevice DEF Prompt
<1> QED
  BY <1>1, PromptAlways, PTL

(* The names a settled client's DNS server serves are those of the view    *)
(* the interface was set up from, though the DNS server was told before    *)
(* the addresses were sorted: a view that was found up to date had them in *)
(* order.  Requests that reach the server late do not change that.         *)
THEOREM SettledNamesMatch == Protocol => []NamesMatchTunnels
<1>1. PromptInv => NamesMatchTunnels
  <2> SUFFICES ASSUME PromptInv, NEW d \in linked, Settled(d) PROVE dns[d] = applied[d].nc
    BY DEF NamesMatchTunnels
  <2> DEFINE v == dns[d]
             o == v.Devices[d]
             A == InitSpec[Net][d].Addresses
             x == applied[d].nc
  <2>1. d \in Clients
    BY ReifyAssumption DEF PromptInv, TypeInv
  <2>2. /\ IsNetworkCensored(v) /\ d \in DOMAIN v.Devices
        /\ o.Addresses = A /\ x = InOrder(v, d)
    BY <2>1 DEF PromptInv, ClientInv, Settled, NamesGiven
  <2>3. x.Devices[d].Addresses = A
    BY <2>1 DEF PromptInv, ClientInv, Settled
  <2> DEFINE r == [o EXCEPT !.Addresses = SortAddresses[@]]
  <2>4. o \in NetworkDeviceCensored
    BY <2>2 DEF IsNetworkCensored
  <2>5. InOrder(v, d) = [v EXCEPT !.Devices = [v.Devices EXCEPT ![d] = r]]
    BY Zenon DEF InOrder
  <2>6. r.Addresses = SortAddresses[A] /\ r \in NetworkDeviceCensored
    <3> HIDE DEF v, o
    <3>1. o.Addresses = A
      BY <2>2 DEF o, v
    <3>2. SortAddresses \in [AddressLists -> AddressLists] /\ o \in NetworkDeviceCensored
      BY <2>4, ReifyAssumption
    <3> QED
      BY <3>1, <3>2 DEF NetworkDeviceCensored
  <2> HIDE DEF v, r
  <2>7. x.Devices[d] = r
    BY <2>2, <2>5, <2>6, SetDevice
  <2>8. SortAddresses[A] = A
    BY <2>3, <2>6, <2>7
  <2>9. r = o
    BY <2>2, <2>4, <2>8 DEF r, NetworkDeviceCensored
  <2>10. [v EXCEPT !.Devices = [v.Devices EXCEPT ![d] = o]] = v
    BY <2>2 DEF IsNetworkCensored
  <2> QED
    BY <2>2, <2>5, <2>9, <2>10 DEF v
<1> QED
  BY <1>1, PromptAlways, PTL

(* A step of the clients and their server handles one request, is a        *)
(* restart of the server, or leaves the server alone.                      *)
LEMMA StepIsOneRequest ==
    ASSUME TypeInv, [ProtocolNext]_vars
    PROVE  \/ UNCHANGED serverVars
           \/ Restart
           \/ \E m : IsRequest(m) /\ ServerHandles(m)
<1>1. ASSUME NEW d \in Clients, ClientStep(d)
      PROVE  UNCHANGED serverVars \/ \E m : IsRequest(m) /\ ServerHandles(m)
  <2>1. CASE PatchKey(d) \/ PatchAccessible(d) \/ PostStatus(d)
    <3>1. pc[d] \in Working
      BY <2>1 DEF PatchKey, PatchAccessible, PostStatus, Working
    <3>2. IsRequest(KeyPatch(d)) /\ IsRequest(AccessiblePatch(d)) /\ IsRequest(StatusPost(d))
      BY <3>1, RequestsAreRequests
    <3>3. \/ UNCHANGED serverVars
          \/ ServerHandles(KeyPatch(d)) \/ ServerHandles(AccessiblePatch(d)) \/ ServerHandles(StatusPost(d))
      BY <2>1 DEF PatchKey, PatchAccessible, PostStatus, CallFails
    <3> QED
      BY <3>2, <3>3
  <2>2. CASE ~(PatchKey(d) \/ PatchAccessible(d) \/ PostStatus(d))
    BY <1>1, <2>2 DEF ClientStep, GetLatest, GetSpec, PanicUnseen, KeyUpToDate, ChooseEndpoints,
                      AccessibleUpToDate, UpdateDNS, UpdateDNSFails, ApplyMachine, ApplyFails
  <2> QED
    BY <2>1, <2>2
<1>2. ASSUME NEW d \in Clients, ClientCrashes(d) \/ Reboots(d) PROVE UNCHANGED serverVars
  BY <1>2 DEF ClientCrashes, Reboots
<1>3. ASSUME NEW m \in late, LateDelivery(m) PROVE IsRequest(m) /\ ServerHandles(m)
  BY <1>3 DEF LateDelivery, TypeInv
<1>4. ASSUME ServerRestarts PROVE Restart
  BY <1>4 DEF ServerRestarts
<1>5. ASSUME \/ \E d \in DNSClients : DNSRestarts(d)
             \/ \E d \in Clients : \E p \in DOMAIN InitSpec[Net] \ {d} : ReachChanges(d, p)
             \/ UNCHANGED vars
      PROVE  UNCHANGED serverVars
  BY <1>5 DEF DNSRestarts, ReachChanges, vars
<1> QED
  BY <1>1, <1>2, <1>3, <1>4, <1>5 DEF ProtocolNext

-----------------------------------------------------------------------------
(* At most one device is said to reach others: every patch clears the      *)
(* lists of all other devices.                                             *)
OneAdvertises ==
    \A p, q \in DOMAIN spec[Net] :
        spec[Net][p].Accessible # {} /\ spec[Net][q].Accessible # {} => p = q

(* The specification file names such a list for one device at most.        *)
FileAdvertisesOne ==
    \A p, q \in DOMAIN InitSpec[Net] :
        InitSpec[Net][p].Accessible # {} /\ InitSpec[Net][q].Accessible # {} => p = q

(* No request adds a second one.                                           *)
LEMMA AdvertisersKept ==
    ASSUME TypeOK, OneAdvertises, NEW m, IsRequest(m), ServerHandles(m)
    PROVE  OneAdvertises'
<1>1. CASE m.kind = "patch" /\ PatchReifySpec(Net, m.from, m.body)
  <2>1. /\ spec' = PatchedSpec(Net, m.from, m.body) /\ Known(spec, Net, m.from)
        /\ m.body \in PatchReifySpecRequest
    BY <1>1 DEF PatchReifySpec, PatchAccepted, Admitted, UpdateSpecNoLock, IsRequest
  <2>2. /\ DOMAIN spec'[Net] = DOMAIN spec[Net]
        /\ \A q \in DOMAIN spec[Net] :
             spec'[Net][q].Accessible = IF q = m.from /\ m.body.AccessibleSet THEN m.body.Accessible ELSE {}
    BY <2>1, PatchedFields DEF TypeOK
  <2> QED
    BY <1>1, <2>2 DEF OneAdvertises
<1>2. CASE PostReifyStatus(Net, m.from, m.body)
  BY <1>2 DEF PostReifyStatus, PostMatching, PostDiffering, serverVars, OneAdvertises
<1> QED
  BY <1>1, <1>2 DEF ServerHandles

(* Every step keeps it so.                                                 *)
LEMMA AdvertisersStep ==
    ASSUME FileAdvertisesOne, TypeInv, OneAdvertises, [ProtocolNext]_vars
    PROVE  OneAdvertises'
<1>1. CASE UNCHANGED serverVars
  BY <1>1 DEF serverVars, OneAdvertises
<1>2. CASE Restart
  BY <1>2 DEF Restart, Boot, OneAdvertises, FileAdvertisesOne
<1>3. CASE \E m : IsRequest(m) /\ ServerHandles(m)
  BY <1>3, AdvertisersKept DEF TypeInv
<1> QED
  BY <1>1, <1>2, <1>3, StepIsOneRequest

(* A settled client's forwarder is a forwarder with a way of its own.      *)
LEMMA ForwarderServes ==
    ASSUME PromptInv, Prompt, OneAdvertises,
           NEW d \in Clients, NEW f \in Clients, Settled(d), Settled(f),
           f \in DOMAIN Machine(d).Peers, NEW p \in Machine(d).Peers[f].AllowedIPs \ {f}
    PROVE  /\ Reached(Machine(f), p)
           /\ d \in Visible(spec[Net], f) => Routed(Machine(f), d)
           /\ spec[Net][p].Addresses \in IPv4Lists => Machine(f).ForwardsIPv4
<1> DEFINE V == View(d).Devices
           W == View(f).Devices
           vd == applied[d].via
           vf == applied[f].via
<1>1. /\ applied[d].nc.Devices = V /\ applied[f].nc.Devices = W
      /\ Ways(View(d), vd, d) /\ Ways(View(f), vf, f)
      /\ spec[Net][f].Accessible = Advertised(vf, f)
      /\ spec[Net][d].PublicKey # ZeroKey
      /\ f \in Visible(spec[Net], f)
  BY SettledHas
<1>2. DOMAIN V = Visible(spec[Net], d) /\ DOMAIN W = Visible(spec[Net], f)
  BY DEF View, CensorForDevice
<1> HIDE DEF V, W, vd, vf
<1>3. /\ f \in KeyedPeers(V, d) /\ p \in KeyedPeers(V, d) /\ p # f /\ vd[p] = f
  BY <1>1 DEF Machine, CompileMachine, InterfacePeers, AllowedIPs, vd
<1>4. /\ f \in DOMAIN V /\ f # d /\ p \in DOMAIN V /\ p # d
      /\ spec[Net][p].PublicKey # ZeroKey
  BY <1>2, <1>3, ShownDevice DEF KeyedPeers, V
<1>5. p \in spec[Net][f].Accessible
  <2>1. f # NoRoute
    BY ClientsAreDevices, RoutesAssumption
  <2>2. p \in V[f].Accessible
    BY <1>1, <1>3, <1>4, <2>1 DEF Ways, V
  <2> QED
    BY <1>2, <1>4, <2>2, ShownDevice DEF V
<1>6. p \in DOMAIN vf /\ vf[p] # NoRoute
  BY <1>1, <1>5 DEF Advertised
<1>7. ASSUME NEW q \in DOMAIN vf PROVE vf[q] \in {q, NoRoute}
  <2> SUFFICES ASSUME vf[q] \notin {q, NoRoute} PROVE FALSE
    OBVIOUS
  <2> DEFINE g == vf[q]
  <2>1. g \in DOMAIN W \ {f} /\ q \in W[g].Accessible
    BY <1>1, <1>7 DEF Ways, W
  <2>2. g \in DOMAIN spec[Net] /\ q \in spec[Net][g].Accessible
    BY <1>2, <2>1, ShownDevice DEF W
  <2>3. f \in DOMAIN spec[Net]
    BY <1>1 DEF Visible
  <2> QED
    BY <1>5, <2>1, <2>2, <2>3 DEF OneAdvertises
<1>8. DOMAIN vf = DOMAIN W \ {f}
  BY <1>1 DEF Ways, W
<1>9. ASSUME NEW q \in DOMAIN vf, spec[Net][q].PublicKey # ZeroKey
      PROVE  /\ q \in DOMAIN Machine(f).Peers /\ q \in Machine(f).Peers[q].AllowedIPs
             /\ vf[q] = q => Machine(f).Peers[q].Endpoint
  <2>1. W[q].PublicKey # ZeroKey
    BY <1>2, <1>8, <1>9, ShownDevice DEF W
  <2>2. q \in InterfacePeers(W, vf, f)
    BY <1>7, <1>8, <1>9, <2>1 DEF InterfacePeers, KeyedPeers
  <2> QED
    BY <1>1, <2>2 DEF Machine, CompileMachine, AllowedIPs, vf
<1>10. Reached(Machine(f), p)
  BY <1>4, <1>6, <1>7, <1>9 DEF Reached
<1>11. d \in Visible(spec[Net], f) => Routed(Machine(f), d)
  BY <1>1, <1>2, <1>4, <1>8, <1>9 DEF Routed
<1>12. spec[Net][p].Addresses \in IPv4Lists => Machine(f).ForwardsIPv4
  <2>1. W[f].Accessible = spec[Net][f].Accessible
    BY <1>1, ShownDevice DEF W
  <2>2. W[p].Addresses = spec[Net][p].Addresses
    BY <1>2, <1>6, <1>8, ShownDevice DEF W
  <2>3. Machine(f).ForwardsIPv4 = \E q \in W[f].Accessible : W[q].Addresses \in IPv4Lists
    BY <1>1 DEF Machine, CompileMachine
  <2> QED
    BY <1>5, <2>1, <2>2, <2>3
<1> QED
  BY <1>10, <1>11, <1>12

(* Every packet a settled client sends to a settled forwarder for a device *)
(* behind it arrives there and is answered: what the forwarder advertised, *)
(* and nothing older, is what its own interface was set up for, and it     *)
(* does not lean on a forwarder itself.                                    *)
THEOREM SettledForwardersServe ==
    ASSUME "late" \notin Disturbances, FileAdvertisesOne
    PROVE  Protocol => []ForwardersServe
<1>1. ProtocolInit => PromptInv /\ OneAdvertises
  BY PromptInit DEF ProtocolInit, Init, Boot, FileAdvertisesOne, OneAdvertises
<1>2. PromptInv /\ OneAdvertises /\ [ProtocolNext]_vars => (PromptInv /\ OneAdvertises)'
  BY PromptStep, AdvertisersStep DEF PromptInv
<1>3. PromptInv /\ OneAdvertises => ForwardersServe
  BY ForwarderServes DEF ForwardersServe, Prompt
<1> QED
  BY <1>1, <1>2, <1>3, PTL DEF Protocol

-----------------------------------------------------------------------------
(* One request, whenever it arrives, is a step of the board.               *)
LEMMA RequestIsABoardStep ==
    ASSUME TypeOK, LatestConfirmed, NEW m, IsRequest(m), ServerHandles(m)
    PROVE  [Board!Next]_Board!boardVars
<1>1. CASE PatchReifySpec(Net, m.from, m.body)
  BY <1>1, UpdatePublishes DEF PatchReifySpec, Board!Next
<1>2. CASE PostMatching(Net, m.from, m.body)
  BY <1>2, PostConfirms DEF Board!Next, Ids
<1>3. CASE PostDiffering(Net, m.from, m.body)
  BY <1>3 DEF PostDiffering, serverVars, Board!boardVars, ShownTo, Latest
<1> QED
  BY <1>1, <1>2, <1>3 DEF ServerHandles, PostReifyStatus

(* Among its clients the server keeps its lists true and takes only steps  *)
(* of the board.                                                           *)
LEMMA ServedStep ==
    ASSUME TypeInv, LatestConfirmed, [ProtocolNext]_vars
    PROVE  LatestConfirmed' /\ [Board!Next]_Board!boardVars
<1>1. TypeOK
  BY DEF TypeInv
<1>2. CASE UNCHANGED serverVars \/ Restart
  BY <1>1, <1>2, ConfirmedStep, BoardStep DEF Next
<1>3. CASE \E m : IsRequest(m) /\ ServerHandles(m)
  BY <1>1, <1>3, ServerKept, RequestIsABoardStep
<1> QED
  BY <1>2, <1>3, StepIsOneRequest

(* The server among clients that crash, give up and send requests late is  *)
(* still a StatusBoard: it lists a client by an accepted report of what it *)
(* is shown and takes off exactly those shown something else.              *)
THEOREM ServedClientsSeeABoard == Protocol => ServerImplementsBoard
<1>1. ProtocolInit => LatestConfirmed /\ Board!Init
  BY ConfirmedInit, BoardInit DEF ProtocolInit
<1>2. TypeInv /\ LatestConfirmed /\ [ProtocolNext]_vars
        => LatestConfirmed' /\ [Board!Next]_Board!boardVars
  BY ServedStep
<1> QED
  BY <1>1, <1>2, TypeInvInit, TypeInvStep, PTL
     DEF Protocol, ServerImplementsBoard, Board!Spec
=============================================================================
