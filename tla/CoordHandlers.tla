---------------------------- MODULE CoordHandlers ----------------------------
(***************************************************************************)
(* The coordination server with its handlers as net/http runs them: one    *)
(* goroutine per request, specLock and latestLock around what they share,  *)
(* the body of a request read while specLock is held (coord/server.go,     *)
(* update.go).  CoordServer, where a request is one step, is what this     *)
(* module is shown to implement.                                           *)
(*                                                                         *)
(* A request without a valid token is refused before any lock is taken and *)
(* touches nothing that is shared: it is left out.                         *)
(***************************************************************************)
EXTENDS CoordServer

CONSTANTS
    Handlers,   \* the requests that may be served at a time
    NoHandler,
    ReadCalls   \* <<network, device>> pairs GET requests ask about

ASSUME HandlersAssumption == NoHandler \notin Handlers /\ ReadCalls \subseteq Identities

VARIABLES
    pc,      \* where each handler is
    call,    \* the request it serves
    fresh,   \* its local newSpec
    todo,    \* the networks whose latest list updateSpecNoLock has yet to set
    answer,  \* what a GET has read
    lock     \* specLock and latestLock, each a sync.RWMutex

handlerVars == <<pc, call, fresh, todo, answer, lock>>
vars == <<serverVars, handlerVars>>

Locks == {"specLock", "latestLock"}

NoCall == [kind |-> "none"]
Nil == [n \in {} |-> n]

Reading(i, kind) == [kind |-> kind, net |-> i[1], dev |-> i[2]]
Writing(i, kind, body) == [kind |-> kind, net |-> i[1], dev |-> i[2], body |-> body]

Free == [writer |-> NoHandler, readers |-> {}, blocked |-> {}]

HandlersInit ==
    /\ Init
    /\ pc = [h \in Handlers |-> "idle"]
    /\ call = [h \in Handlers |-> NoCall]
    /\ fresh = [h \in Handlers |-> Nil]
    /\ todo = [h \in Handlers |-> {}]
    /\ answer = [h \in Handlers |-> NoReport]
    /\ lock = [l \in Locks |-> Free]


-----------------------------------------------------------------------------
(* Faulty variant of Mode: a patch, which replaces Server.spec only at its *)
(* end, takes specLock for reading.                                        *)
PatchReads(kind, l) ==
    IF kind \in {"post", "update"} \/ (kind = "patch" /\ l = "latestLock") THEN "Lock" ELSE "RLock"

(* How a handler takes a lock.                                             *)
Mode(kind, l) == IF kind \in {"patch", "post", "update"} THEN "Lock" ELSE "RLock"

(* A lock is held for writing by the announced writer once the readers it  *)
(* found are gone.                                                         *)
Holds(h, l) ==
    h \in lock[l].readers \/ (lock[l].writer = h /\ lock[l].readers = {})

Waits(h, l) == lock[l].writer = h \/ h \in lock[l].blocked

(* RWMutex.RLock: a reader waits behind an announced writer.               *)
RLock(h, l) ==
    lock' = IF lock[l].writer = NoHandler
            THEN [lock EXCEPT ![l].readers = @ \cup {h}]
            ELSE [lock EXCEPT ![l].blocked = @ \cup {h}]

(* RWMutex.Lock: writers exclude each other by a mutex, then announce.     *)
Lock(h, l) ==
    /\ lock[l].writer = NoHandler
    /\ lock' = [lock EXCEPT ![l].writer = h]

(* RUnlock, or Unlock, which lets the waiting readers in.                  *)
Released(h, l) ==
    IF h \in lock[l].readers
    THEN [lock EXCEPT ![l].readers = @ \ {h}]
    ELSE [lock EXCEPT ![l] = [writer |-> NoHandler, readers |-> @.blocked, blocked |-> {}]]

Goto(h, step) == pc' = [pc EXCEPT ![h] = step]

-----------------------------------------------------------------------------
Arrives(h, c) ==
    /\ pc[h] = "idle"
    /\ call' = [call EXCEPT ![h] = c]
    /\ Goto(h, "specLock")
    /\ UNCHANGED <<serverVars, fresh, todo, answer, lock>>

(* A report is what the device was sent last: what it would be sent now,   *)
(* or something older.                                                     *)
SomeCall(h) ==
    \/ \E i \in ReadCalls, kind \in {"latest", "spec"} : Arrives(h, Reading(i, kind))
    \/ \E i \in Identities, req \in PatchRequests : Arrives(h, Writing(i, "patch", req))
    \/ \E i \in Identities : \E r \in Report(i[1], i[2]) : Arrives(h, Writing(i, "post", r))
    \/ \E s \in NewSpecs : Arrives(h, [kind |-> "update", body |-> s])

(* specLock.Lock or RLock, latestLock.Lock or RLock.                       *)
Asks(h, l) ==
    /\ pc[h] = l
    /\ ~Holds(h, l) /\ ~Waits(h, l)
    /\ IF Mode(call[h].kind, l) = "Lock" THEN Lock(h, l) ELSE RLock(h, l)
    /\ UNCHANGED <<serverVars, pc, call, fresh, todo, answer>>

EntersSpec(h) ==
    /\ pc[h] = "specLock" /\ Holds(h, "specLock")
    /\ IF call[h].kind = "update"
       THEN Goto(h, "latestLock") /\ fresh' = [fresh EXCEPT ![h] = call[h].body]
       ELSE Goto(h, "lookup") /\ UNCHANGED fresh
    /\ UNCHANGED <<serverVars, call, todo, answer, lock>>

(* Faulty variant of NotFound: 404 without the deferred Unlock.            *)
NotFoundLocked(h) ==
    /\ pc[h] = "lookup"
    /\ ~Known(spec, call[h].net, call[h].dev)
    /\ Goto(h, "idle")
    /\ call' = [call EXCEPT ![h] = NoCall]
    /\ UNCHANGED <<serverVars, fresh, todo, answer, lock>>

(* 404: the network or the device is not in the specification.             *)
NotFound(h) ==
    /\ pc[h] = "lookup"
    /\ ~Known(spec, call[h].net, call[h].dev)
    /\ Goto(h, "return")
    /\ UNCHANGED <<serverVars, call, fresh, todo, answer, lock>>

Found(h) ==
    /\ pc[h] = "lookup"
    /\ Known(spec, call[h].net, call[h].dev)
    /\ Goto(h, CASE call[h].kind = "spec"             -> "view"
                 [] call[h].kind = "latest"           -> "latestLock"
                 [] call[h].kind \in {"patch", "post"} -> "body")
    /\ UNCHANGED <<serverVars, call, fresh, todo, answer, lock>>

(* getReifySpec censors what is in Server.spec now.                        *)
ReadsView(h) ==
    /\ pc[h] = "view"
    /\ answer' = [answer EXCEPT ![h] = CensorForDevice(spec, call[h].net, call[h].dev)]
    /\ Goto(h, "return")
    /\ UNCHANGED <<serverVars, call, fresh, todo, lock>>

(* The body is read with specLock held.  It may break off, when the client *)
(* gives up: io.ReadAll or the decoder fails and nothing is changed (500;  *)
(* or 400 and Latest:false, for a report that was never decoded).          *)
BodyBreaks(h) ==
    /\ pc[h] = "body"
    /\ Goto(h, "return")
    /\ UNCHANGED <<serverVars, call, fresh, todo, answer, lock>>

(* patchReifySpec: newSpec, unless Accessible names an unknown device.     *)
PatchBody(h) ==
    /\ pc[h] = "body" /\ call[h].kind = "patch"
    /\ IF PatchAccepted(call[h].net, call[h].dev, call[h].body)
       THEN /\ fresh' = [fresh EXCEPT ![h] = PatchedSpec(call[h].net, call[h].dev, call[h].body)]
            /\ Goto(h, "latestLock")
       ELSE Goto(h, "return") /\ UNCHANGED fresh
    /\ UNCHANGED <<serverVars, call, todo, answer, lock>>

(* postReifyStatus: a report that differs is answered at once.             *)
PostBody(h) ==
    /\ pc[h] = "body" /\ call[h].kind = "post"
    /\ Goto(h, IF call[h].body = CensorForDevice(spec, call[h].net, call[h].dev)
               THEN "latestLock" ELSE "return")
    /\ UNCHANGED <<serverVars, call, fresh, todo, answer, lock>>

EntersLatest(h) ==
    /\ pc[h] = "latestLock" /\ Holds(h, "latestLock")
    /\ CASE call[h].kind = "latest" -> Goto(h, "list") /\ UNCHANGED todo
         [] call[h].kind = "post"   -> Goto(h, "append") /\ UNCHANGED todo
         [] OTHER                   -> Goto(h, "install") /\ todo' = [todo EXCEPT ![h] = DOMAIN spec]
    /\ UNCHANGED <<serverVars, call, fresh, answer, lock>>

ReadsList(h) ==
    /\ pc[h] = "list"
    /\ answer' = [answer EXCEPT ![h] = [Latest |-> Latest(call[h].net, call[h].dev)]]
    /\ Goto(h, "return")
    /\ UNCHANGED <<serverVars, call, fresh, todo, lock>>

Appends(h) ==
    /\ pc[h] = "append"
    /\ latest' = [latest EXCEPT ![call[h].net][call[h].dev] = IF @ < MaxCopies THEN @ + 1 ELSE @]
    /\ confirmed' = [confirmed EXCEPT ![<<call[h].net, call[h].dev>>] = call[h].body]
    /\ Goto(h, "return")
    /\ UNCHANGED <<spec, call, fresh, todo, answer, lock>>

(* updateSpecNoLock sets one latest list after the other.                  *)
SetsList(h, n) ==
    /\ pc[h] = "install" /\ n \in todo[h]
    /\ latest' = [latest EXCEPT ![n] = LatestAfter(n, fresh[h])]
    /\ todo' = [todo EXCEPT ![h] = @ \ {n}]
    /\ UNCHANGED <<spec, confirmed, pc, call, fresh, answer, lock>>

(* Faulty variant of Publishes: the specification first, then the lists.   *)
PublishesEarly(h) ==
    /\ pc[h] = "install"
    /\ spec' = fresh[h]
    /\ Goto(h, IF todo[h] = {} THEN "return" ELSE "install")
    /\ UNCHANGED <<latest, confirmed, call, fresh, todo, answer, lock>>

(* and then makes newSpec the specification.                               *)
Publishes(h) ==
    /\ pc[h] = "install" /\ todo[h] = {}
    /\ spec' = fresh[h]
    /\ Goto(h, "return")
    /\ UNCHANGED <<latest, confirmed, call, fresh, todo, answer, lock>>

(* The deferred calls, last one first; then the handler is gone.           *)
UnlocksLatest(h) ==
    /\ pc[h] = "return" /\ Holds(h, "latestLock")
    /\ lock' = Released(h, "latestLock")
    /\ UNCHANGED <<serverVars, pc, call, fresh, todo, answer>>

UnlocksSpec(h) ==
    /\ pc[h] = "return" /\ ~Holds(h, "latestLock")
    /\ lock' = Released(h, "specLock")
    /\ Goto(h, "idle")
    /\ call' = [call EXCEPT ![h] = NoCall]
    /\ fresh' = [fresh EXCEPT ![h] = Nil]
    /\ answer' = [answer EXCEPT ![h] = NoReport]
    /\ UNCHANGED <<serverVars, todo>>

(* The process stops, with whatever its handlers were doing.               *)
RestartsAll ==
    /\ Restart
    /\ pc' = [h \in Handlers |-> "idle"]
    /\ call' = [h \in Handlers |-> NoCall]
    /\ fresh' = [h \in Handlers |-> Nil]
    /\ todo' = [h \in Handlers |-> {}]
    /\ answer' = [h \in Handlers |-> NoReport]
    /\ lock' = [l \in Locks |-> Free]

-----------------------------------------------------------------------------
Goes(h) ==
    \/ EntersSpec(h) \/ NotFound(h) \/ Found(h) \/ ReadsView(h)
    \/ BodyBreaks(h) \/ PatchBody(h) \/ PostBody(h)
    \/ EntersLatest(h) \/ ReadsList(h) \/ Appends(h)
    \/ (\E n \in NetworkNames : SetsList(h, n)) \/ Publishes(h)
    \/ UnlocksLatest(h) \/ UnlocksSpec(h)

HandlersNext ==
    \/ \E h \in Handlers : SomeCall(h) \/ (\E l \in Locks : Asks(h, l)) \/ Goes(h)
    \/ RestartsAll

HandlersSpec == HandlersInit /\ [][HandlersNext]_vars

(* Goroutines run; a client sends its body or, within its 5 seconds, gives *)
(* up; the mutex inside an RWMutex is handed on in turn, so that nobody    *)
(* waits for it while it becomes free again and again.  Requests and       *)
(* restarts need not come.                                                 *)
FairHandlers ==
    /\ HandlersSpec
    /\ \A h \in Handlers : WF_vars(Goes(h)) /\ \A l \in Locks : SF_vars(Asks(h, l))

-----------------------------------------------------------------------------
Steps == {"idle", "specLock", "lookup", "view", "body", "latestLock", "list", "append",
          "install", "return"}

HandlersTypeOK ==
    /\ TypeOK
    /\ pc \in [Handlers -> Steps]
    /\ \A h \in Handlers :
        /\ call[h].kind \in {"none", "latest", "spec", "patch", "post", "update"}
        /\ IsSpec(fresh[h])
        /\ answer[h] = NoReport \/ answer[h] \in [Latest : BOOLEAN] \/ IsNetworkCensored(answer[h])
    /\ todo \in [Handlers -> SUBSET NetworkNames]
    /\ lock \in [Locks -> [writer : Handlers \cup {NoHandler},
                           readers : SUBSET Handlers, blocked : SUBSET Handlers]]

(* What the next step of a handler reads and writes of the shared fields.  *)
Reads(h) ==
    CASE pc[h] \in {"lookup", "view", "body"} -> {"spec"}
      [] pc[h] = "list"                       -> {"latest"}
      [] OTHER                                -> {}

Writes(h) ==
    CASE pc[h] = "append"  -> {"latest"}
      [] pc[h] = "install" -> {"spec", "latest"}
      [] OTHER             -> {}

(* Server.spec and Server.latest are plain fields: no handler touches what *)
(* another is writing, the map of latest lists above all.                  *)
NoDataRace ==
    \A g, h \in Handlers : g # h => Writes(g) \cap (Reads(h) \cup Writes(h)) = {}

(* The handlers that replace the specification right now, and the server   *)
(* as it is when they are through.                                         *)
Installing == {h \in Handlers : pc[h] = "install"}

AtomicSpec == IF Installing = {} THEN spec ELSE fresh[CHOOSE h \in Installing : TRUE]

AtomicLatest ==
    [n \in NetworkNames |->
        IF \E h \in Installing : n \in todo[h] THEN LatestAfter(n, AtomicSpec) ELSE latest[n]]

Atomic == INSTANCE CoordServer WITH spec <- AtomicSpec, latest <- AtomicLatest

(* However requests overlap, Server.spec and Server.latest go through      *)
(* nothing but whole patches, reports and updates, one after another: no   *)
(* patch is lost, no report is accepted against a specification that is    *)
(* being replaced.                                                         *)
ServerIsAtomic == Atomic!Spec

(* A GET answers what is true when its handler returns: never a latest     *)
(* list that goes with another specification than the one in force.        *)
AnswersHold ==
    \A h \in Handlers : pc[h] = "return" /\ answer[h] # NoReport =>
        answer[h] = IF call[h].kind = "spec"
                    THEN CensorForDevice(AtomicSpec, call[h].net, call[h].dev)
                    ELSE [Latest |-> Atomic!Latest(call[h].net, call[h].dev)]

(* Every request is answered: no early return keeps a lock, no order of    *)
(* the two locks lets handlers wait for each other, no writer waits for    *)
(* ever behind readers.                                                    *)
Answered == \A h \in Handlers : pc[h] # "idle" ~> pc[h] = "idle"
=============================================================================
