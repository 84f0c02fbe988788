# Qrystal in TLA+

Specifications of the coordination server and the device client of Qrystal
(Go, `src/`), checked with TLC and proved about with TLAPS.

Qrystal sets up WireGuard networks. A *coordination server* holds the
specification of all networks. Every device runs a *device client* that fetches
the part of the specification it may see (its *view*), publishes its key and
what it can reach, sets up its interface from the view, and reports the view it
set up. The server answers whether that view is still the current one and keeps
a list of the devices for which it is.

## Inventory

| Component | State | Operations | Talks to | Hard parts | Correct when |
|---|---|---|---|---|---|
| `spec/spec.go` | none (values) | Clone, Censor, Equal, GetForwardersFor | used by all | what a copy leaves out | a view is what access control allows |
| `coord` (server.go, update.go) | `spec`, `latest`, two RWMutexes, tokens | GET latest, GET spec, PATCH spec, POST status, updateSpec, restart | clients over HTTP | concurrent requests, views that change under devices that do not ask, nothing persisted | a device is listed exactly while the view it reported is the one it would get |
| `device` (client.go, continuous.go), `cmd/device-client` | `latest`, `privateKey`, last `spec` | Step: getLatest or ReifySpec (fetch, keys, endpoints, Accessible, DNS, apply, post) | server, DNS, applier | seven calls in a row, each may fail or be overtaken by other clients; timeouts after 5 s; crash between any two | what it believes applied is applied and current; it gets there in the end |
| `spec/resolve.go` | none | ChooseEndpoint | ping | reachability changes | an endpoint that answers is preferred to a forwarder |
| `spec/compile.go` | none | CompileMachine | applier | forwarders of forwarders, unset keys | every reachable device is in somebody's AllowedIPs, once |
| `goal` (apply_linux.go, util.go) | managed interfaces; kernel interfaces, addresses, routes, ip_forward | ApplyMachine, setDifference, setIntersection | kernel | failing half-way and running again; in-place sorting | a rerun reaches the goal from anywhere |
| `dns` (dns.go, rpc.go), `cmd/device-dns` | the last specification it was given | UpdateSpec, queries | device clients of one machine | one connection dialled once; several clients, one specification | a name resolves to what the interface was set up with |
| `util` | none | AssignAddress, Backoff, tokens | - | top of the address space | no used address is assigned, and no free one skipped |
| logging, sdnotify, profile, tools, Nix modules | - | - | - | - | not modelled |

The hazards this code is exposed to are listed, each with its line, in
`PROJECT.json`; every property below is there for one of them.

## Modules

| Module | Models |
|---|---|
| `NetSpec` | Package `spec`: specifications, censored views, `Clone` with the field it drops |
| `CoordServer` | Package `coord`: the four handlers, `updateSpec`, restart |
| `CoordHandlers` | The same handlers as concurrent goroutines: locks, lookups, body reads, stores one by one |
| `StatusBoard` | What the server promises about its latest lists, without saying how |
| `ReifyProtocol` | Package `device` and the loop of `cmd/device-client`: several clients around a `CoordServer` |
| `Routes` | `spec/compile.go`, and what `chooseEndpoints` may choose: operators |
| `RouteChoice` | The loops of `chooseEndpoints` and `ChooseEndpoint`, `patchAccessible` and the compiler, step by step |
| `DNSServer` | Package `dns`: configuration, the specification served, how a name is answered |
| `DeviceHost` | Package `goal` and the clients of several networks on one machine: one kernel, one DNS server |
| `Slices` | The sorted-slice loops of `goal/util.go` |
| `AddressAssignment` | `util/assign.go` |
| `MCCoordServer`, `MCCoordHandlers`, `MCReifyProtocol`, `MCRouteChoice`, `MCDeviceHost`, `MCAlgorithms` | Instances for TLC |
| `StatusBoardProofs`, `CoordServerProofs`, `CoordHandlersProofs`, `ReifyProofs`, `RouteChoiceProofs`, `DeviceHostProofs`, `AlgorithmsProofs` | Theorems about the module in the name (`ReifyProofs`: `ReifyProtocol`; `AlgorithmsProofs`: `Slices` and `AddressAssignment`), checked by TLAPS |
| `DataInduction` | Induction over numbers and the rounds of a loop, for the proofs |

`CoordServer` extends `NetSpec`; `CoordHandlers` extends it and instantiates it
again with a refinement mapping; `ReifyProtocol` extends `CoordServer` and uses
its actions as the server's half of a call. `CoordServer` instantiates
`StatusBoard` with a refinement mapping. `Routes` is shared: `ReifyProtocol`
takes any choice that is `ValidChoice` in one step, `RouteChoice` shows that this
is what the loops end with, and all three, `DeviceHost` included, compile with
the same `CompileMachine`. `DeviceHost` extends `DNSServer` and `Slices` as well.

### NetSpec

A `Spec` is a function from network names to networks, a network one from device
names to device records. Names are unique and no code in `src/` reorders the
slices, so lists of devices and of names (`Accessible`, `AccessOnly`) are sets.
`Addresses` is a value of its own because the order of that list matters (below);
`Endpoints` goes with it. `Settings` stands for `ListenPort`, `PresharedKey` and
`PersistentKeepalive`, which are copied, patched and compared alike. The fields
for the chosen endpoint and forwarder never cross the network with an effect
(`UnmarshalJSON` drops them, `Equal` ignores them) and are client state here.
`Equal` of the code is equality of the model. `CloneDevice` empties `Accessible`,
as `NetworkDeviceCensored.Clone` does.

### CoordServer

`spec` and `latest` are the fields of `Server`. A latest list is kept as the
number of copies of each name, counted up to `MaxCopies`: the code appends
without looking. `confirmed` is not in the code: it remembers the last report of
each device answered with `Latest: true`, for the properties.

A request that passes `verifyIdentity` and the lookups is one step
(`PatchReifySpec`, `PostReifyStatus`; `CoordHandlers` shows why); a request that does
not pass changes nothing and is no step. A report that fails to decode is
handled by the code like any other report after the answer 400; reports here are
well-formed. `UpdateSpec` has no caller in `src/`, but it is the documented way
to replace the specification and shares `updateSpecNoLock` with the patch.
`sliceUnion` computes an intersection; `SliceUnion` is what it does.
`Restart` returns to the configuration: nothing is persisted.

### CoordHandlers

The same server with one goroutine per request. `pc[h]` is where handler `h` is:

    idle -> specLock -> lookup -> view -> return                    GET spec
                               -> latestLock -> list -> return      GET latest
                               -> body -> latestLock -> install -> return   PATCH
                               -> body -> latestLock -> append -> return    POST

`updateSpec` goes from `specLock` to `latestLock` directly. `fresh` is the local
`newSpec`; `todo` holds the networks whose list the loop of `updateSpecNoLock` has
not set yet, in any order. `Mode` says which lock a handler takes how. A lock is
Go's `sync.RWMutex`: one announced writer, the readers that are in, and the readers
that came after the announcement and are let in by `Unlock`. Taking a lock is two
steps, to ask for it (`Asks`) and to go on once it is held (`EntersSpec`,
`EntersLatest`). The body is read with `specLock` held and may break off
(`BodyBreaks`). Deferred calls run at `return`, last one first. Requests refused by
`verifyIdentity` take no lock and are left out.

The refinement `Atomic` maps a server in the middle of `updateSpecNoLock` to what it
will be at the end: a patch takes effect when its handler holds both locks.

### ReifyProtocol

One client of each device in `Clients`, in one network. `pc[d]` names the next
call of `ReifySpec`:

    step -> keys -> choose -> forward -> dns -> apply -> post -> step

| Action | Code |
|---|---|
| `GetLatest` | `ContinousClient.getLatest`, polled while `c.latest` |
| `GetSpec` | `Client.getSpec` |
| `KeyUpToDate`, `PatchKey`, `PanicUnseen` | `updateMyKeys` |
| `ChooseEndpoints` | `chooseEndpoints`: any result its two loops and the random pick can give |
| `AccessibleUpToDate`, `PatchAccessible` | `patchAccessible` |
| `UpdateDNS`, `UpdateDNSFails` | `updateDNS`; the RPC connection is dialled once, in `main` |
| `ApplyMachine`, `ApplyFails` | `CompileMachine` and `ApplyMachine`, with the sort of the interface's addresses that reaches back into the view |
| `PostStatus` | `postReifyStatus` and the end of `Step` |
| `LateDelivery` | a handler that runs after its client gave up |
| `ServerRestarts`, `ClientCrashes`, `Reboots`, `DNSRestarts`, `ReachChanges` | the environment |

A call is one step of both sides when it succeeds. It fails in three ways
(`CallFails`): the request never arrives, it is handled and the answer is lost,
or it waits in `late` and is handled at any later time, or never. Failed reads
(`getSpec`, `getLatest`) change nothing and are not steps. `ReifySpec` starts
over after any failure. A private key is named by its public half;
`PrivateKey[d][k]` is the key of the k-th process of device d: always the same
one if it is configured, a new one each time if it is generated. What was applied
is kept as the view, the choices and the key `CompileMachine` and `ApplyMachine`
were given; `Machine(d)` is the interface that comes out. The pings of
`chooseEndpoints` see one state of the network, the state when the step is taken.
`ReifyAssumption` asks for networks without IPv6: forwarding to an IPv6 address
panics (`goal/apply_linux.go:129`), which `DeviceHost` has. Here the DNS server is
reached by RPC (`-dns-socket`), in `DeviceHost` it is in the process (`-dns-self`).

`Disturbances` names the kinds of failure a run allows, `MaxDisturbances` how
many in a behaviour. It is the only bound on the behaviours of this module.

### StatusBoard

Devices are shown views. `Confirm(i)` lists a known device, `Publish` shows new
views and takes off the list exactly the devices for which something changed,
`Forget` empties it. `CoordServer` implements it with `view` the censored network
of each known device and `current` the listed devices. "Exactly" is the point:
a server that dropped too many devices would send everybody through `ReifySpec`
at every patch, one that dropped too few would leave devices on old views.

### Routes, RouteChoice

A choice `via` maps every other device of a view to itself when one of its
endpoints answered (`ForwarderAndEndpointChosen`), to another device when that is
its forwarder (`UsesForwarder`), or to `NoRoute`. `ValidChoice` is what the two
loops of `chooseEndpoints` can end with. `CompileMachine` yields the one interface
of a client's one network; it is always called with `ignoreIncomplete`. A device
reached through a forwarder becomes no peer, its addresses go to the forwarder's
`AllowedIPs`, and if the forwarder is no peer either (it has no key, or has a
forwarder of its own) they go nowhere. `AllowedIPs` holds devices, for their
addresses.

In `RouteChoice` `pc` goes through the loops, `i` is the index of the running one:

    endpoints -> forwarders -> accessible -> compile -> done

`scores` is what pinging will find, per endpoint, fixed at the start; the scorers'
goroutines write to slots of their own and are waited for. `PickForwarder` takes
any of the forwarders (`rand.Intn`).

### DNSServer

`served` is `RPCServer.spec`: the view of one network, as a client hands over the
network it is for. Names and suffixes are texts: sequences of symbols, one of which is
the dot; `Text` has those of networks and devices. `Matches` is `strings.HasSuffix`: the
suffix of an alias has no dot in front, so it may match in the middle of a label, as
`er.internal` does in `printer.internal`. `HandleQuery` answers questions for
addresses as `handleQuery` and `handleParent` do: the first parent whose suffix
matches answers, whatever it says. `AsksFor` is how the text before the suffix is
split into a device and a network; a name with any other number of parts is
NXDOMAIN. `ValidParents` is what `NewServer` checks. A server that was given nothing
answers SERVFAIL.

### DeviceHost

A client per network in `Networks`, all in one process on the machine `Me`. `pc[n]`:

    fetch -> dns -> create -> configure -> list addresses -> addresses
          -> list routes -> routes -> read -> write -> ipv6 -> post -> idle
                                                         ipv6 -> dead

| Action | Code |
|---|---|
| `Fetch` | the view `ReifySpec` works with to the end |
| `UpdateDNS` | `updateDNS` through a `DirectClient` |
| `CreateInterface` | `ApplyMachine` up to the interfaces: listed and missing ones are added |
| `ConfigureWireguard` | `configureWireguard`: peers replaced, port left alone without a `ListenPort` |
| `ListAddresses` | the listing of `updateInterfaceAddresses`; its `setDifference` sorts the machine's own addresses in the array of the view that is posted later, and of the DNS server's if that has this view |
| `ChangeAddress`, `SetUp` | `updateInterface`, `updateInterfaceAddresses`: one `AddrDel` or `AddrAdd` at a time |
| `ListRoutes`, `ChangeRoute`, `RoutesDone` | `applyInterfaceRoutes` |
| `AddTwice` | adding what exists: an address that is listed twice, or in two networks |
| `ReadForward`, `WriteForward` | `ip_forward`, read and then written; neither with `AssumeProc` |
| `Applied`, `PanicIPv6` | the check for IPv6 forwarding, which ends the process with the clients of all networks in it |
| `PostStatus`, `GetLatest` | what the client learns from the server, in one step |
| `CallFails`, `Crash`, `Reboot`, `NewView` | the environment |

No unit of the client has a `Restart=` (`config/device-client.service`,
`modules.nix:259`), so nothing starts a process that panicked: `Crash` is a process that
ends, or has ended, and is started by hand, and like `Reboot` it is one of the bounded
disturbances.

`HeldViews(n)` are the views of a network and the same views with their own addresses
sorted, as `running` and `served` may have them. `tasks[n]` are the address tasks still to do; they are computed from one listing
and carried out later, as in the code. `view[n]` stands for the server. The
other devices have endpoints that answer: `RouteChoice` has the rest. A machine
always has the one interface its Applier manages, so none is ever deleted.
Addresses are single hosts. For a /128 the kernel makes a route of its own
once the interface is up (`OwnRoutes`), which goes with the address; `RouteList` lists
it, and `applyInterfaceRoutes` removes it as it is nobody's AllowedIPs. For a /32 it makes
none. The networks of a machine have different ports: with the same one the kernel
refuses to set up the second interface, in every run. `link.peers` is what was
configured; WireGuard itself sends an address that two peers share to the last one.
Private and pre-shared keys and keepalive are set with the peers and left out. `AssumeProc` is FALSE in the instance, where there is more to go wrong;
`modules.nix` turns it on.

### Slices, AddressAssignment

Recursive functions over indices and addresses. `Sorted` puts each element where its
rank says; `Skip` and `Differ` are the inner and outer loop of `setDifference`, `Meet`
is the one of `setIntersection` and `sliceUnion`. They are applied as functions so
that TLC evaluates their arguments once. `Copies` counts an element.
`DeviceHost` uses `SetDifference`. Nothing calls `AssignAddress` yet. An address is a
number, `exact` says that it is kept in as few bytes as its kind needs.
`MCAlgorithms` compares all of them with what they should return, as assumptions that
TLC evaluates in the runs of `MCDeviceHost`: all slices of up to four elements with
three values, in any order and with repetitions, and all networks in four bits
(`AddressWidth`) with all pairs of used ones.

## Runs

### Passing

| Run | Question |
|---|---|
| `coord_server` | Do the latest lists stay right under any order of patches, current and stale reports, replaced specifications and restarts? |
| `coord_handlers` | Does the server behave as if it handled one request after another? |
| `coord_answers` | Is every request answered? |
| `reify_safety` | Is what a settled client applied what the server would send, with the same keys as its peers, the same names in DNS, and forwarders that forward? |
| `reify_converges` | Does every client settle once disturbances stop? |
| `routes` | Do the loops of `chooseEndpoints` end with a valid choice, and is every device routed through one peer? |
| `host` | Does applying reach the goal from any half-done state, while clients share DNS server and `ip_forward`? |

`coord_server`: two networks with a device name in common; three devices in one,
of which `a` sees everybody, `b` itself and `a`, and `c` has no token; a patch of
the key, which `a` and `b` see, and one of `Accessible` to `{c}`, which is refused
after `c` was removed; a stale report that at times matches; two specifications
that `updateSpec` swaps, so networks and devices disappear and come back. Two
copies of a name show every effect of more: `sliceUnion` asks for unique values
(`coord/update.go:53`) and is given lists that may have duplicates, but yields each
name once. 42 240 states.

`coord_handlers`: three handlers at a time (a writer, and two others that meet it
in any phase), patches and reports of `a` and `b`, GETs of `b`, two networks, so
that the lists and the specification are seen half replaced; restarts in between.
Handlers are symmetric. 333 766 states.

`coord_answers`: three handlers (two readers that could keep a writer out), one
device, with accepted, refused and broken-off patches and reports, and an update
after which the device is answered 404. No symmetry, as this is liveness.

`reify_safety`: a client `a` that forwards and makes its keys, a client `b` with a
configured key, and a device `m` without client that only `a` reaches. Two
disturbances, of every kind but a late request: two are enough for a change while
a client restarts, or for a lost answer during a restart of the server. 839 041
states.

`reify_converges`: `m` runs a client too, that may see `a` but not itself and
panics; one disturbance, late requests included, and liveness. `NamesMatchTunnels` is
checked here again, as it holds with late requests too. 521 324 states.

`routes`: a device and three others, with every subset of the others advertised
by each (but not all three by one), each with or without a key, and each with no
endpoint, one that does not answer, or several of which some answer, with ties.
Three others are the fewest for a forwarder of a forwarder that is one more
device's forwarder. 175 616 initial states, 1 908 480 states.

`host`: two networks, three disturbances: enough for an apply that fails half-way,
for a changed view in between, and a failure of its rerun. The other views of the
first network renumber the machine, let two devices share an address and swap the
order of one's, unset the port, and in one of them the machine's own addresses are out
of order; those of the second stop forwarding, give the machine an address of IPv6, and
ask for forwarding to one. 518 922 states. Deadlock is not checked, as the system
really stops when the process has panicked and nobody starts it.

A client is *settled* when it believes it is up to date and the server lists it.
`SettledIsApplied`, `TunnelKeysAgree`, `NamesMatchTunnels` and `ForwardersServe`
say what that is worth; `ForwardersServe` speaks of compiled interfaces: what one
routes to a forwarder, the forwarder can send on. `Converges` excepts a client
whose DNS server went away after it connected (it fails for ever, `dns/rpc.go`)
and one that panicked; `NamesMatchTunnels` excepts the former, too, which may believe it
is up to date while its new DNS server has nothing. `HostReachesGoals` says that every
interface ends up as its current view asks, unless the process panicked, and that its
client stops applying it, unless its own addresses are out of order: that client starts
over for ever, as in `reify_unsorted_addresses`.

### Fairness

`FairProtocol` asks weak fairness of each client's next step: `createGoroutines`
gives each client a goroutine that loops for ever and sleeps between rounds, and
a call that neither succeeds nor is disturbed has nothing that could keep it from
succeeding. Nothing is fair about disturbances, late requests or the choice among
forwarders.

`FairHost` asks the same of each network's client in `DeviceHost`.

`FairHandlers` asks weak fairness of each handler's steps: goroutines run, and a
body arrives or breaks off, because the client gives up after 5 seconds
(`cmd/device-client/main.go`) and its connection with it. Without that, one PATCH
that never ends keeps `specLock` for ever: `coord-server` sets no read timeout.
It asks strong fairness of asking for a lock: the mutex among the writers of an
RWMutex is handed over in turn once somebody waits long. Nothing is fair about new
requests and restarts.

### Violations

Each of these runs checks one sentence of the repository and finds the code doing
something else.

| Run | What happens |
|---|---|
| `reify_two_forwarders` | `Clone` drops `Accessible` (`spec/spec.go:253`): a patch of one device empties it for all others. Two clients with `CanForward` undo each other's and can go on like that for ever; `modules.nix:193` turns the option on by default. |
| `reify_late_post` | `b` posts a view with `a`'s `Accessible` in it and gives up; it fetches, applies and posts the view after `Clone` wiped it; `a` sets `Accessible` again; the old POST arrives and matches. `b` is listed and believes it, and has no way to `m`. |
| `reify_unsorted_addresses` | The applier sorts the addresses inside the view that is posted next: a device with unsorted addresses is never told it is up to date (`coord/api.md:40`). |
| `routes_advertised` | A device advertises what it reaches through a forwarder of a forwarder, for which `CompileMachine` makes no route ("can fowrard packets to"). |
| `host_names` | `UpdateSpec` replaces the specification of all networks by that of one: only the names of the network handed over last are answered. |

More disagreements show in these and in the passing runs. Forwarders
advertise devices they reach through others ("accessible without forwarding",
`coord/server.go:162`). Without access control, as in `TUTORIAL.md`, no device
sees itself and its client panics at "unreachable" (`device/client.go:198`), which
`Converges` excepts. `ip_forward` is one switch for all networks of a machine; when
they disagree the last writer wins, which `ForwardingAgrees` excepts.

## Proofs

Every safety invariant of the passing runs, and both refinements, are theorems of
their specifications. All sets may be of any size, infinite included; only
`DeviceOrder` lists the devices of a network, once each. The assumptions are the
types of the constants (`CoordAssumption`, `RoutesAssumption`,
`RouteChoiceAssumption`, `ReifyAssumption`, `HostAssumption`, `ParentsAssumption`,
`TextsAssumption`), which TLC evaluates in the runs, and the hypotheses named below.

### The server: StatusBoardProofs, CoordServerProofs

- `TypeCorrect`: `Spec => []TypeOK`. `Clone` and a patch of one device keep a
  specification well-formed (`CloneIsSpec`, `PatchedIsSpec`), a view is
  well-formed (`ViewIsCensored`), counts stay in range (`LatestAfterType`).
- `LatestIsConfirmed`: `Spec => []LatestConfirmed`. With `TypeOK` the invariant is
  inductive: `LatestConfirmed` itself says that listed devices exist, without
  which a network that is new in an update, whose list `updateSpecNoLock` leaves
  alone, could bring back old entries. The central lemma is `ListedAfterUpdate`:
  after an update a device is listed exactly if it was, is known before and
  after, and is shown the same.
- `ServerIsABoard`: `Spec => Board!Spec`. Every step is `Confirm`, `Publish`,
  `Forget` or a stutter (`UpdatePublishes`, `PostConfirms`, `BoardStep`), from
  the two invariants above.
- `BoardConfirmed`: the promise of `StatusBoard` itself.

### Its goroutines: CoordHandlersProofs

The inductive invariant has two halves.

- `LockInv` goes with the control: a handler past `specLock` holds it in the mode its
  request takes it, one that is at work on a list holds `latestLock`, one that is
  idle is in no lock's queue, and locks are well-formed. None of these is inductive
  alone: `Unlock` lets in the readers that came after the writer, so the queues must
  agree with what the handlers ask for. `WritersExclude` follows: while a handler that
  writes is past the lookup, no other is past `specLock`.
- `DataInv` says what each handler relies on (`Relies`): that its device is
  still known, that `fresh` is the patched specification until the lists are
  set, that the report it compared still matches, that its answer is still
  true. Only a writer could change these, and `WritersExclude` keeps it out.

From these: `HandlersTypeCorrect`, `NoHandlersRace` (`NoDataRace`), `AnswersAreTrue`
(`AnswersHold`), and `HandlersAreAtomic`: `HandlersSpec => ServerIsAtomic`. A patch is
`CoordServer`'s when its handler enters `latestLock` (`EnteringUpdates`); setting the
lists one by one and publishing stutter under the mapping, because at most one
handler installs (`OneInstalls`), and all other steps leave the mapped state alone.

### The clients: ReifyProofs

- `ProtocolTypeCorrect`, and `ServedClientsSeeABoard`: `Protocol =>
  ServerImplementsBoard`. Clients that fail, crash and send requests late make no
  server steps other than those of `CoordServer` (`StepIsOneRequest`).
- `SettledNamesMatch`: what the DNS server of a settled client serves is what its
  interface was set up from, whatever is disturbed, late requests included.
- `SettledClientsApplied`, `SettledTunnelsAgree`: the view and the keys of a settled
  client are the current ones, if `"late" \notin Disturbances`. The hypothesis is
  needed: run `reify_late_post` refutes the first with one request handled after its
  client gave up. With four disturbances, late requests and crashes, TLC refutes the
  second in the same instance, too long a search for a run of its own.
- `SettledForwardersServe`, if also at most one device of the specification file
  has `Accessible` set (`FileAdvertisesOne`). Every patch clears all lists but
  its own, so there is never more than one again (`OneAdvertises`), and the
  forwarder somebody uses needs no forwarder itself.

`PromptInv` is the inductive invariant: besides types and `LatestConfirmed`, it
follows one round of `ReifySpec` (`ClientInv`): the fetched view has the
addresses of the file (`SpecStays`), choices come from that view (`Sourced`), the
DNS server was given it (`NamesGiven`), and what is at `post` is what was applied. A
client that believes applied a view whose addresses were in order from the start;
and if no request is late (`Prompt`) it has had nothing but this report accepted, or
none at all after the server restarted: from there `LatestConfirmed` relates it to the
server.

### Choosing and compiling: RouteChoiceProofs

- `ChoiceTypeCorrect`, `ChoicesAreValid`, `FirstBestChosen`, `ForwardersLead`: from
  `LoopInv`, which says what each loop has done up to its index. `ChooseEndpoint`
  keeps the first best so far (`BestOf`), by induction over the scored endpoints.
  `ForwardersLead` counts along the order of the second loop: a forwarder was
  chosen before the device it leads to, so the way back to an endpoint is no
  longer than there are devices.
- `DevicesRoutedOnce`: the compiler gives the addresses of a device to one peer at
  most, for any choice in which every way begins, that is, whose forwarders have
  a way themselves (`CompiledOnce`); `WaysBegin` is kept by both loops, as the
  second picks among devices chosen before (`WayGiven`, `ChoiceStep`).

### One machine: DeviceHostProofs

- `HostTypeCorrect` and `GoalsAreApplied` (`AppliedReachesGoal`). `AppliedInv` says how
  far each client has come (`OnItsWay`): once configured the peers are the goal's,
  and between a listing and the last of its tasks the tasks that are left turn
  what is there into what is wanted (`Pending`), in whatever order. That they do at
  first is `TasksArePending`, from `DifferenceFound` below; what the sort of the view
  changes is not among what is asked for (`SortedGoal`); interfaces belong to one
  client each, so no other step disturbs it.
- `ClientsShareForwarding` (`ForwardingAgrees`), if there is a network at all. Each client
  reads `ip_forward` and writes it later. `ForwardInv` says that when all have
  decided for the same value, by a write or by a read that found it, it has
  that value: the last to decide cannot have read the other one, and nobody who
  wants the other one is left. It speaks of clients in mid-step, without which
  a read before another client's write would break it.
- `NothingOutdatedAnswered` (`AnswersAreCurrent`), if the configured parents tell names
  apart (`NamesAreClear`). `ServedInv`: if the DNS server has a view of a network, it
  is the one that network's client went on with, sorted or not (`ServedKept`).
  The sort changes no answer, as an answer has the set of the addresses
  (`SortedView`, `SortedStays`). Parents that hide a name behind another suffix
  answer it wrongly by configuration. `SpecificParentsFirst` says which lists of parents
  satisfy the hypothesis: those in which a parent whose text ends the names of
  another, an alias included, and in the middle of a label too, is listed after it
  (`SpecificFirst`). Names of networks and devices must have no dot, so that there is
  one way to split what is before the suffix (`OneDotDivides`). A list of one
  parent always does (`OneParentIsClear`). TLC evaluates both hypotheses
  for the parents of `MCDeviceHost`: two aliases, of which one ends the other, and a
  suffix.

### Slices and addresses: AlgorithmsProofs, DataInduction

`DifferenceFound`: `setDifference` returns exactly the elements of one slice that are
not in the other, each as often as it was there, for slices in any order and with
repetitions. `Sorted` is a rearrangement in order, because ranks are all the places,
one element to each (`RankIsPlace`), and keeps repetitions (`SortedKeepsCopies`);
sorting twice is sorting once (`SortedStays`); `Found` is the invariant of the outer loop: j never has to go back because both
slices are in order.

`IntersectionFound`: `setIntersection` returns the elements of both slices, as often
as both have them, and so none twice if the first slice has none twice. That is why
`SliceUnion` of `CoordServer` may count a name once however often the list had it:
`keep` names each device once. `Shared` is the invariant: what both slices have is
found or still ahead in both; `MeetCounts` is the same with numbers. The loop has as
many rounds as both slices have elements; `Advanced` says that by then it is through
with one of them.

`FirstFreeAssigned`: `AssignAddress` returns the first address from `ip` on that is in
the network and in no used one, and `ErrAddressOverflow` if there is none; if the
network is then full up to the very last address, and `exact`, it panics instead.
The hypothesis is that a network has no gaps. `SearchGoesOn` goes from one used
address to the next, by induction.

The library's induction theorems take an operator as a parameter, which the installed
provers cannot instantiate. `DataInduction` states them with sets instead:
a least number (`LeastNumber`, from the well-foundedness of <), induction for a
set of numbers (`SetInduction`, `BoundedInduction`), and that a loop which
carries a state from round to round has a history (`PrimitiveRecursion`), which
is what makes the equation of a recursive function available.

### Only model-checked

- Liveness: `Answered`, `Converges`, `HostReachesGoals`. They rest on fairness and
  ENABLED, which TLAPS does not support.
- That the slice loops return their elements in order: nothing relies on it. TLC
  checks it on small slices.
- What the runs under "Violations" find: a counterexample needs no proof.

## State of the work

Every component that can be modelled is there. Every safety property of the runs
is proved, and what the functions that the models rely on return. What no theorem
says is listed under "Only model-checked".

## Not modelled

- `Backoff`: nothing calls it, and without a caller there is nothing its waiting
  is for. Clients sleep a fixed time between rounds, which fairness stands for.
- Tokens: a token is the set of identities it stands for; hashing and base64 hold
  no state.
- Deleting interfaces in `ApplyMachine`: the client's machine always has the one
  interface its Applier manages. The index of `goal/apply_linux.go:81` would panic
  if it did not.
- Two networks of a machine with one `ListenPort`, or with an address in common: the
  second never gets there, see `DeviceHost` and the hazards.
- An answer of the DNS server given while the applier sorts the same array without a
  lock: both are one step.
- A report that does not decode and is handled all the same
  (`coord/server.go:264`): clients send well-formed ones.
- HTTP, JSON and base64 as formats, TLS, logging, notification, profiling, the
  one-shot tools and the packaging: no state that others depend on.
