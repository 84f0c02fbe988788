----------------------------- MODULE CoordServer -----------------------------
(***************************************************************************)
(* Package coord: the coordination server (coord/server.go, update.go).    *)
(* Every handler that writes holds specLock for writing from its first     *)
(* look at the specification until it returns, so a request that gets past *)
(* its checks is one step.  The two GET handlers change nothing: what they *)
(* answer is CensorForDevice of NetSpec and Latest below.                  *)
(***************************************************************************)
EXTENDS NetSpec

CONSTANTS
    InitSpec,       \* the specification in the configuration file
    Identities,     \* <<network, device>> pairs some token stands for
    PatchRequests,  \* requests devices send
    StaleReports,   \* views fetched or made up earlier that a device may report
    NewSpecs,       \* specifications updateSpec may be called with
    MaxCopies       \* copies of a name in a latest list are counted up to here

PatchReifySpecRequest ==
    [SettingsSet   : BOOLEAN, Settings   : SettingsValues,
     PublicKeySet  : BOOLEAN, PublicKey  : Keys,
     AccessibleSet : BOOLEAN, Accessible : SUBSET DeviceNames]

ASSUME CoordAssumption ==
    /\ IsSpec(InitSpec)
    /\ Identities \subseteq NetworkNames \X DeviceNames
    /\ PatchRequests \subseteq PatchReifySpecRequest
    /\ \A r \in StaleReports : IsNetworkCensored(r)
    /\ \A s \in NewSpecs : IsSpec(s)
    /\ MaxCopies \in Nat \ {0}

VARIABLES
    spec,      \* Server.spec
    latest,    \* Server.latest: how often each list holds each name
    confirmed  \* not in the code: the last report answered Latest:true

(* No report was accepted yet, and what an unknown device is shown.        *)
NoReport == [None |-> TRUE]

serverVars == <<spec, latest, confirmed>>

Empty == [d \in DeviceNames |-> 0]

TypeOK ==
    /\ IsSpec(spec)
    /\ latest \in [NetworkNames -> [DeviceNames -> 0..MaxCopies]]
    /\ DOMAIN confirmed = NetworkNames \X DeviceNames
    /\ \A i \in DOMAIN confirmed : confirmed[i] = NoReport \/ IsNetworkCensored(confirmed[i])

(* NewServer, and what a restart comes back to: nothing is persisted.      *)
Boot == InitSpec

Init ==
    /\ spec = Boot
    /\ latest = [n \in NetworkNames |-> Empty]
    /\ confirmed = [i \in NetworkNames \X DeviceNames |-> NoReport]

-----------------------------------------------------------------------------
(* verifyIdentity and the lookups every handler starts with.               *)
Admitted(n, d) == <<n, d>> \in Identities /\ Known(spec, n, d)

(* The answer of getReifyLatest.                                           *)
Latest(n, d) == latest[n][d] > 0

(* updateSpecNoLock: the devices of network n whose view is the same       *)
(* before and after.                                                       *)
Keep(n, newSpec) ==
    {d \in DOMAIN spec[n] \cap DOMAIN newSpec[n] :
        CensorForDevice(spec, n, d) = CensorForDevice(newSpec, n, d)}

(* Faulty variants of SliceUnion: a union, as its name and comment say,    *)
(* and nothing kept.                                                       *)
UnionOf(keep, list) ==
    [d \in DeviceNames |-> IF d \in keep \/ list[d] > 0 THEN 1 ELSE 0]

NothingKept(keep, list) == [d \in DeviceNames |-> 0]

(* sliceUnion: keep has no name twice, so neither has the result, however  *)
(* often the list had it.                                                  *)
SliceUnion(keep, list) ==
    [d \in DeviceNames |-> IF d \in keep /\ list[d] > 0 THEN 1 ELSE 0]

(* The latest list of network n when newSpec replaces the specification:   *)
(* deleted with its network, cut down to keep, or left alone if the        *)
(* network is new.                                                         *)
LatestAfter(n, newSpec) ==
    CASE n \in DOMAIN spec \ DOMAIN newSpec      -> Empty
      [] n \in DOMAIN spec \cap DOMAIN newSpec   -> SliceUnion(Keep(n, newSpec), latest[n])
      [] n \notin DOMAIN spec                    -> latest[n]

UpdateSpecNoLock(newSpec) ==
    /\ spec' = newSpec
    /\ latest' = [n \in NetworkNames |-> LatestAfter(n, newSpec)]
    /\ UNCHANGED confirmed

UpdateSpec(newSpec) == UpdateSpecNoLock(newSpec)

PatchedDevice(nd, req) ==
    [nd EXCEPT !.Settings   = IF req.SettingsSet   THEN req.Settings   ELSE @,
               !.PublicKey  = IF req.PublicKeySet  THEN req.PublicKey  ELSE @,
               !.Accessible = IF req.AccessibleSet THEN req.Accessible ELSE @]

(* The specification a patch installs: a clone of the old one with the     *)
(* requested fields of one device set.                                     *)
PatchedSpec(n, d, req) == [Clone(spec) EXCEPT ![n][d] = PatchedDevice(@, req)]

PatchAccepted(n, d, req) ==
    /\ Admitted(n, d)
    /\ req.AccessibleSet => req.Accessible \subseteq DOMAIN spec[n]

PatchReifySpec(n, d, req) ==
    /\ PatchAccepted(n, d, req)
    /\ UpdateSpecNoLock(PatchedSpec(n, d, req))

(* postReifyStatus when the report is Equal to what the device would be    *)
(* sent now: the name is appended, whether or not the list has it already. *)
PostMatching(n, d, reified) ==
    /\ Admitted(n, d)
    /\ reified = CensorForDevice(spec, n, d)
    /\ latest' = [latest EXCEPT ![n][d] = IF @ < MaxCopies THEN @ + 1 ELSE @]
    /\ confirmed' = [confirmed EXCEPT ![<<n, d>>] = reified]
    /\ UNCHANGED spec

(* postReifyStatus otherwise: answered Latest:false, and a name already in *)
(* the list stays there.                                                   *)
PostDiffering(n, d, reified) ==
    /\ Admitted(n, d)
    /\ reified # CensorForDevice(spec, n, d)
    /\ UNCHANGED serverVars

PostReifyStatus(n, d, reified) ==
    PostMatching(n, d, reified) \/ PostDiffering(n, d, reified)

(* The process stops and is started again from its configuration.          *)
Restart ==
    /\ spec' = Boot
    /\ latest' = [n \in NetworkNames |-> Empty]
    /\ confirmed' = [i \in NetworkNames \X DeviceNames |-> NoReport]

-----------------------------------------------------------------------------
(* A report is the current view or one made from an earlier fetch.         *)
Report(n, d) ==
    IF Known(spec, n, d) THEN StaleReports \cup {CensorForDevice(spec, n, d)} ELSE {}

SomePatch  == \E i \in Identities, req \in PatchRequests : PatchReifySpec(i[1], i[2], req)
SomePost   == \E i \in Identities : \E r \in Report(i[1], i[2]) : PostReifyStatus(i[1], i[2], r)
SomeUpdate == \E s \in NewSpecs : UpdateSpec(s)

Next == SomePatch \/ SomePost \/ SomeUpdate \/ Restart

Spec == Init /\ [][Next]_serverVars

-----------------------------------------------------------------------------
(* What a device is shown, NoReport if the server does not know it.        *)
ShownTo(i) ==
    IF Known(spec, i[1], i[2]) THEN CensorForDevice(spec, i[1], i[2]) ELSE NoReport

(* Server.latest "lists which devices have applied the latest spec": a     *)
(* listed device exists, and the last report accepted from it is what it   *)
(* would be sent now, whatever was patched or replaced since.              *)
LatestConfirmed ==
    \A n \in NetworkNames, d \in DeviceNames :
        Latest(n, d) => Known(spec, n, d) /\ confirmed[<<n, d>>] = CensorForDevice(spec, n, d)

Board == INSTANCE StatusBoard WITH
    Ids <- NetworkNames \X DeviceNames,
    NoView <- NoReport,
    view <- [i \in NetworkNames \X DeviceNames |-> ShownTo(i)],
    current <- {i \in NetworkNames \X DeviceNames : Latest(i[1], i[2])},
    confirmed <- confirmed

(* The server is a status board: a patch or a new specification takes off  *)
(* the lists exactly the devices that will be shown something else.        *)
ServerImplementsBoard == Board!Spec
=============================================================================
