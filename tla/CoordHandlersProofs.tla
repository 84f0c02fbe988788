-------------------------- MODULE CoordHandlersProofs --------------------------
(***************************************************************************)
(* For any number of handlers, networks and devices: the two locks keep    *)
(* handlers apart, what a handler has found out about the specification    *)
(* still holds when it acts on it, and the server as a whole does nothing  *)
(* but the steps of CoordServer.                                           *)
(***************************************************************************)
EXTENDS CoordHandlers, CoordServerProofs

WriterKinds == {"patch", "post", "update"}
ReaderKinds == {"latest", "spec"}

IsCall(c) ==
    \/ c = NoCall
    \/ c.kind \in ReaderKinds /\ <<c.net, c.dev>> \in Identities
    \/ c.kind = "patch" /\ <<c.net, c.dev>> \in Identities /\ c.body \in PatchRequests
    \/ c.kind = "post" /\ <<c.net, c.dev>> \in Identities /\ IsNetworkCensored(c.body)
    \/ c.kind = "update" /\ c.body \in NewSpecs

(* The requests that get to each step.                                     *)
KindsAt(step) ==
    CASE step = "idle"       -> {"none"}
      [] step = "lookup"     -> {"latest", "spec", "patch", "post"}
      [] step = "view"       -> {"spec"}
      [] step = "body"       -> {"patch", "post"}
      [] step = "latestLock" -> {"latest", "patch", "post", "update"}
      [] step = "list"       -> {"latest"}
      [] step = "append"     -> {"post"}
      [] step = "install"    -> {"patch", "update"}
      [] OTHER               -> WriterKinds \cup ReaderKinds

IsLock(k) ==
    /\ k \in [writer : Handlers \cup {NoHandler}, readers : SUBSET Handlers, blocked : SUBSET Handlers]
    /\ k.readers \cap k.blocked = {}

Involved(h, l) == h \in lock[l].readers \/ Waits(h, l)

(* Writers take a lock for writing, readers for reading.                   *)
Suits(h, l) ==
    /\ lock[l].writer = h => call[h].kind \in WriterKinds
    /\ h \in lock[l].readers \cup lock[l].blocked => call[h].kind \in ReaderKinds

(* Where a handler has, or may have, a lock.                               *)
HasSpecLock(h) ==
    /\ Suits(h, "specLock")
    /\ Involved(h, "specLock") => pc[h] # "idle"
    /\ pc[h] \notin {"idle", "specLock"} => Holds(h, "specLock")

HasLatestLock(h) ==
    /\ Suits(h, "latestLock")
    /\ Involved(h, "latestLock") => pc[h] \in {"latestLock", "list", "append", "install", "return"}
    /\ pc[h] \in {"list", "append", "install"} => Holds(h, "latestLock")
    /\ pc[h] = "return" /\ Involved(h, "latestLock") => Holds(h, "latestLock")

(* The first half of the inductive invariant: who is where, with which     *)
(* request and which locks.                                                *)
LockInv ==
    /\ pc \in [Handlers -> Steps]
    /\ DOMAIN call = Handlers /\ call = [h \in Handlers |-> call[h]]
    /\ lock = [l \in Locks |-> lock[l]] /\ \A l \in Locks : IsLock(lock[l])
    /\ \A h \in Handlers :
        /\ IsCall(call[h]) /\ call[h].kind \in KindsAt(pc[h])
        /\ HasSpecLock(h) /\ HasLatestLock(h)

-----------------------------------------------------------------------------
(* A writer that holds a lock is alone with it.                            *)
LEMMA WriterIsAlone ==
    ASSUME NEW l \in Locks, NEW g \in Handlers, NEW h \in Handlers,
           Suits(g, l), Holds(g, l), call[g].kind \in WriterKinds, Holds(h, l)
    PROVE  g = h
  BY DEF Suits, Holds, WriterKinds, ReaderKinds

(* While the handler g is past the lookup with a request that writes, no   *)
(* other handler is past specLock.                                         *)
LEMMA WritersExclude ==
    ASSUME LockInv, NEW g \in Handlers, NEW h \in Handlers, g # h,
           call[g].kind \in WriterKinds, pc[g] \notin {"idle", "specLock"}
    PROVE  pc[h] \in {"idle", "specLock"}
  BY WriterIsAlone DEF LockInv, HasSpecLock, Locks

(* Asking for lock l gives the handler what suits it, and leaves the       *)
(* others what they have.                                                  *)
LEMMA LockAsked ==
    ASSUME NEW l \in Locks, NEW h \in Handlers, Asks(h, l),
           lock = [k \in Locks |-> lock[k]], \A k \in Locks : IsLock(lock[k])
    PROVE  /\ lock' = [k \in Locks |-> lock'[k]] /\ \A k \in Locks : IsLock(lock'[k])
           /\ \A k \in Locks \ {l} : lock'[k] = lock[k]
           /\ (lock[l].writer = h)' => Mode(call[h].kind, l) = "Lock"
           /\ (h \in lock[l].readers \cup lock[l].blocked)' => Mode(call[h].kind, l) # "Lock"
           /\ \A g \in Handlers \ {h} :
                /\ Involved(g, l)' => Involved(g, l)
                /\ Holds(g, l) => Holds(g, l)'
                /\ (lock[l].writer = g)' => lock[l].writer = g
                /\ (g \in lock[l].readers \cup lock[l].blocked)' => g \in lock[l].readers \cup lock[l].blocked
<1> USE DEF IsLock, Involved, Waits, Holds
<1>1. h # NoHandler /\ NoHandler \notin Handlers
  BY HandlersAssumption
<1>2. CASE Mode(call[h].kind, l) = "Lock"
  <2>1. lock[l].writer = NoHandler /\ lock' = [lock EXCEPT ![l].writer = h]
        /\ ~Holds(h, l) /\ ~Waits(h, l)
    BY <1>2 DEF Asks, Lock
  <2> QED
    BY <1>1, <1>2, <2>1
<1>3. CASE Mode(call[h].kind, l) # "Lock" /\ lock[l].writer = NoHandler
  <2>1. lock' = [lock EXCEPT ![l].readers = @ \cup {h}] /\ ~Holds(h, l) /\ ~Waits(h, l)
    BY <1>3 DEF Asks, RLock
  <2>2. lock'[l] = [lock[l] EXCEPT !.readers = @ \cup {h}]
    BY <2>1
  <2>3. /\ lock' = [k \in Locks |-> lock'[k]]
        /\ \A k \in Locks \ {l} : lock'[k] = lock[k]
    BY <2>1
  <2>4. /\ IsLock(lock'[l])
        /\ lock'[l].writer = lock[l].writer /\ lock'[l].blocked = lock[l].blocked
        /\ lock'[l].readers = lock[l].readers \cup {h}
    <3> DEFINE old == lock[l]
    <3>1. IsLock(old) /\ h \notin old.blocked
      BY <2>1
    <3> HIDE DEF old
    <3>2. /\ IsLock([old EXCEPT !.readers = @ \cup {h}])
          /\ [old EXCEPT !.readers = @ \cup {h}].writer = old.writer
          /\ [old EXCEPT !.readers = @ \cup {h}].blocked = old.blocked
          /\ [old EXCEPT !.readers = @ \cup {h}].readers = old.readers \cup {h}
      BY <3>1
    <3> QED
      BY <2>2, <3>2 DEF old
  <2> QED
    BY <1>1, <1>3, <2>1, <2>3, <2>4
<1>4. CASE Mode(call[h].kind, l) # "Lock" /\ lock[l].writer # NoHandler
  <2>1. lock' = [lock EXCEPT ![l].blocked = @ \cup {h}] /\ ~Holds(h, l) /\ ~Waits(h, l)
    BY <1>4 DEF Asks, RLock
  <2> QED
    BY <1>1, <1>4, <2>1
<1> QED
  BY <1>2, <1>3, <1>4

(* Setting one lock.                                                       *)
LEMMA LockSet ==
    ASSUME NEW l \in Locks, NEW v, IsLock(v), lock' = [lock EXCEPT ![l] = v],
           lock = [k \in Locks |-> lock[k]], \A k \in Locks : IsLock(lock[k])
    PROVE  /\ lock' = [k \in Locks |-> lock'[k]] /\ \A k \in Locks : IsLock(lock'[k])
           /\ lock'[l] = v
           /\ \A k \in Locks \ {l} : lock'[k] = lock[k]
<1> HIDE DEF Locks
<1>1. lock'[l] = v /\ \A k \in Locks \ {l} : lock'[k] = lock[k]
  OBVIOUS
<1>2. lock' = [k \in Locks |-> lock'[k]]
  OBVIOUS
<1> QED
  BY <1>1, <1>2

(* Giving a lock back leaves the handler without it, and the others what   *)
(* they have.                                                              *)
LEMMA LockReleased ==
    ASSUME NEW l \in Locks, NEW h \in Handlers, Holds(h, l), lock' = Released(h, l),
           lock = [k \in Locks |-> lock[k]], \A k \in Locks : IsLock(lock[k]),
           Suits(h, l)
    PROVE  /\ lock' = [k \in Locks |-> lock'[k]] /\ \A k \in Locks : IsLock(lock'[k])
           /\ \A k \in Locks \ {l} : lock'[k] = lock[k]
           /\ ~Involved(h, l)'
           /\ \A g \in Handlers \ {h} :
                /\ Involved(g, l)' => Involved(g, l)
                /\ Holds(g, l) => Holds(g, l)'
                /\ (lock[l].writer = g)' => lock[l].writer = g
                /\ (g \in lock[l].readers \cup lock[l].blocked)' => g \in lock[l].readers \cup lock[l].blocked
<1>1. h # NoHandler /\ NoHandler \notin Handlers
  BY HandlersAssumption
<1>2. IsLock(lock[l])
  OBVIOUS
<1>3. CASE h \in lock[l].readers
  <2> DEFINE v == [lock[l] EXCEPT !.readers = @ \ {h}]
  <2>1. lock' = [lock EXCEPT ![l] = v] /\ lock[l].writer # h
    BY <1>3 DEF Released, Suits, WriterKinds, ReaderKinds
  <2>2. /\ IsLock(v) /\ v.writer = lock[l].writer /\ v.blocked = lock[l].blocked
        /\ v.readers = lock[l].readers \ {h}
    BY <1>2 DEF IsLock
  <2> HIDE DEF v
  <2>3. /\ lock' = [k \in Locks |-> lock'[k]] /\ \A k \in Locks : IsLock(lock'[k])
        /\ lock'[l] = v /\ \A k \in Locks \ {l} : lock'[k] = lock[k]
    BY <2>1, <2>2, LockSet
  <2>4. h \notin lock[l].blocked
    BY <1>2, <1>3 DEF IsLock
  <2> QED
    BY <1>1, <2>1, <2>2, <2>3, <2>4 DEF Involved, Waits, Holds
<1>4. CASE h \notin lock[l].readers
  <2> DEFINE v == [writer |-> NoHandler, readers |-> lock[l].blocked, blocked |-> {}]
  <2>1. lock' = [lock EXCEPT ![l] = v]
        /\ lock[l].writer = h /\ lock[l].readers = {} /\ h \notin lock[l].blocked
    BY <1>4 DEF Released, Suits, WriterKinds, ReaderKinds, Holds
  <2>2. IsLock(v) /\ v.writer = NoHandler /\ v.blocked = {} /\ v.readers = lock[l].blocked
    BY <1>2 DEF IsLock
  <2> HIDE DEF v
  <2>3. /\ lock' = [k \in Locks |-> lock'[k]] /\ \A k \in Locks : IsLock(lock'[k])
        /\ lock'[l] = v /\ \A k \in Locks \ {l} : lock'[k] = lock[k]
    BY <2>1, <2>2, LockSet
  <2> QED
    BY <1>1, <2>1, <2>2, <2>3 DEF Involved, Waits, Holds
<1> QED
  BY <1>3, <1>4

-----------------------------------------------------------------------------
(* No handler has a lock when the server starts.                           *)
LEMMA LocksInit == HandlersInit => LockInv
<1> SUFFICES ASSUME HandlersInit PROVE LockInv
  OBVIOUS
<1>1. \A l \in Locks : lock[l] = Free
  BY DEF HandlersInit
<1>2. IsLock(Free)
  BY DEF IsLock, Free
<1>3. ASSUME NEW h \in Handlers
      PROVE  /\ IsCall(call[h]) /\ call[h].kind \in KindsAt(pc[h])
             /\ HasSpecLock(h) /\ HasLatestLock(h)
  <2>1. pc[h] = "idle" /\ call[h] = NoCall
    BY DEF HandlersInit
  <2>2. \A l \in Locks : ~Involved(h, l) /\ Suits(h, l)
    BY <1>1, HandlersAssumption DEF Involved, Waits, Suits, Free
  <2> QED
    BY <2>1, <2>2 DEF IsCall, NoCall, KindsAt, HasSpecLock, HasLatestLock, Locks
<1>4. pc \in [Handlers -> Steps]
  BY DEF HandlersInit, Steps
<1> QED
  BY <1>1, <1>2, <1>3, <1>4 DEF HandlersInit, LockInv

(* A handler that holds specLock goes on to a step its request and its     *)
(* hold of latestLock allow.                                               *)
LEMMA Moves ==
    ASSUME LockInv, NEW h \in Handlers, NEW s \in Steps \ {"idle", "specLock"},
           pc' = [pc EXCEPT ![h] = s], UNCHANGED <<call, lock>>,
           Holds(h, "specLock"), call[h].kind \in KindsAt(s),
           s \in {"list", "append", "install"} => Holds(h, "latestLock"),
           Involved(h, "latestLock") =>
               /\ s \in {"latestLock", "list", "append", "install", "return"}
               /\ s = "return" => Holds(h, "latestLock")
    PROVE  LockInv'
<1>1. pc' \in [Handlers -> Steps] /\ pc'[h] = s /\ \A g \in Handlers \ {h} : pc'[g] = pc[g]
  BY DEF LockInv
<1>2. ASSUME NEW g \in Handlers
      PROVE  /\ IsCall(call[g]) /\ call[g].kind \in KindsAt(pc'[g])
             /\ HasSpecLock(g)' /\ HasLatestLock(g)'
  <2>1. CASE g = h
    BY <1>1, <2>1 DEF LockInv, HasSpecLock, HasLatestLock, Suits, Involved, Waits, Holds
  <2>2. CASE g # h
    BY <1>1, <2>2 DEF LockInv, HasSpecLock, HasLatestLock, Suits, Involved, Waits, Holds
  <2> QED
    BY <2>1, <2>2
<1>3. /\ DOMAIN call' = Handlers /\ call' = [g \in Handlers |-> call'[g]]
      /\ lock' = [l \in Locks |-> lock'[l]] /\ \A l \in Locks : IsLock(lock'[l])
      /\ call' = call
  <2>1. call' = call /\ lock' = lock
    OBVIOUS
  <2> QED
    BY <2>1 DEF LockInv
<1> QED
  BY <1>1, <1>2, <1>3 DEF LockInv, IsCall

(* Nothing else matters to the locks.                                      *)
LEMMA LocksUntouched ==
    ASSUME LockInv, UNCHANGED <<pc, call, lock>>
    PROVE  LockInv'
<1>1. pc' = pc /\ call' = call /\ lock' = lock
  OBVIOUS
<1>2. ASSUME NEW h \in Handlers
      PROVE  /\ (HasSpecLock(h)' <=> HasSpecLock(h))
             /\ (HasLatestLock(h)' <=> HasLatestLock(h))
  BY <1>1 DEF HasSpecLock, HasLatestLock, Suits, Involved, Waits, Holds
<1> QED
  BY <1>1, <1>2 DEF LockInv, IsCall, IsLock

(* A request that arrives is one a handler can serve.                      *)
LEMMA CallsAreCalls ==
    ASSUME IsSpec(spec), NEW h \in Handlers, SomeCall(h)
    PROVE  \E c : Arrives(h, c) /\ IsCall(c) /\ c.kind \in WriterKinds \cup ReaderKinds
<1>1. \A i \in Identities : i = <<i[1], i[2]>>
  BY CoordAssumption
<1>2. CASE \E i \in ReadCalls, kind \in {"latest", "spec"} : Arrives(h, Reading(i, kind))
  <2>1. PICK i \in ReadCalls, kind \in {"latest", "spec"} : Arrives(h, Reading(i, kind))
    BY <1>2
  <2>2. IsCall(Reading(i, kind)) /\ Reading(i, kind).kind \in ReaderKinds
    BY <1>1, HandlersAssumption DEF IsCall, Reading, ReaderKinds
  <2> QED
    BY <2>1, <2>2
<1>3. CASE \E i \in Identities, req \in PatchRequests : Arrives(h, Writing(i, "patch", req))
  <2>1. PICK i \in Identities, req \in PatchRequests : Arrives(h, Writing(i, "patch", req))
    BY <1>3
  <2>2. IsCall(Writing(i, "patch", req)) /\ Writing(i, "patch", req).kind \in WriterKinds
    BY <1>1 DEF IsCall, Writing, WriterKinds
  <2> QED
    BY <2>1, <2>2
<1>4. CASE \E i \in Identities : \E r \in Report(i[1], i[2]) : Arrives(h, Writing(i, "post", r))
  <2>1. PICK i \in Identities : \E r \in Report(i[1], i[2]) : Arrives(h, Writing(i, "post", r))
    BY <1>4
  <2>2. PICK r \in Report(i[1], i[2]) : Arrives(h, Writing(i, "post", r))
    BY <2>1
  <2>3. IsNetworkCensored(r)
    BY <2>2, ViewIsCensored, CoordAssumption DEF Report
  <2>4. IsCall(Writing(i, "post", r)) /\ Writing(i, "post", r).kind \in WriterKinds
    BY <1>1, <2>3 DEF IsCall, Writing, WriterKinds
  <2> QED
    BY <2>2, <2>4
<1>5. CASE \E s \in NewSpecs : Arrives(h, [kind |-> "update", body |-> s])
  <2>1. PICK s \in NewSpecs : Arrives(h, [kind |-> "update", body |-> s])
    BY <1>5
  <2> DEFINE c == [kind |-> "update", body |-> s]
  <2>2. IsCall(c) /\ c.kind \in WriterKinds
    BY DEF IsCall, WriterKinds
  <2> QED
    BY <2>1, <2>2
<1> QED
  BY <1>2, <1>3, <1>4, <1>5 DEF SomeCall

(* A request that arrives has no lock yet.                                 *)
LEMMA LocksArrival ==
    ASSUME LockInv, NEW h \in Handlers, NEW c, Arrives(h, c), IsCall(c),
           c.kind \in WriterKinds \cup ReaderKinds
    PROVE  LockInv'
<1>1. /\ pc' = [pc EXCEPT ![h] = "specLock"] /\ call' = [call EXCEPT ![h] = c] /\ lock' = lock
      /\ pc[h] = "idle"
  BY DEF Arrives, Goto
<1>2. /\ pc' \in [Handlers -> Steps] /\ pc'[h] = "specLock"
      /\ \A g \in Handlers \ {h} : pc'[g] = pc[g]
  BY <1>1 DEF LockInv, Steps
<1>3. call' = [g \in Handlers |-> call'[g]] /\ DOMAIN call' = Handlers /\ call'[h] = c
      /\ \A g \in Handlers \ {h} : call'[g] = call[g]
  BY <1>1 DEF LockInv
<1>4. ASSUME NEW g \in Handlers
      PROVE  /\ IsCall(call'[g]) /\ call'[g].kind \in KindsAt(pc'[g])
             /\ HasSpecLock(g)' /\ HasLatestLock(g)'
  <2>1. CASE g = h
    <3>1. \A l \in Locks : ~Involved(h, l)
      BY <1>1 DEF LockInv, HasSpecLock, HasLatestLock, Locks
    <3> QED
      BY <1>1, <1>2, <1>3, <2>1, <3>1
         DEF HasSpecLock, HasLatestLock, Suits, Involved, Waits, Holds, KindsAt, Locks
  <2>2. CASE g # h
    BY <1>1, <1>2, <1>3, <2>2 DEF LockInv, HasSpecLock, HasLatestLock, Suits, Involved, Waits, Holds
  <2> QED
    BY <2>1, <2>2
<1> QED
  BY <1>1, <1>2, <1>3, <1>4 DEF LockInv, IsLock

(* Asking for a lock, and getting it or waiting.                           *)
LEMMA LocksAsking ==
    ASSUME LockInv, NEW h \in Handlers, NEW l \in Locks, Asks(h, l)
    PROVE  LockInv'
<1>1. UNCHANGED <<pc, call>> /\ pc[h] = l /\ ~Holds(h, l) /\ ~Waits(h, l)
  BY DEF Asks
<1>2. /\ lock' = [k \in Locks |-> lock'[k]] /\ \A k \in Locks : IsLock(lock'[k])
      /\ \A k \in Locks \ {l} : lock'[k] = lock[k]
      /\ (lock[l].writer = h)' => Mode(call[h].kind, l) = "Lock"
      /\ (h \in lock[l].readers \cup lock[l].blocked)' => Mode(call[h].kind, l) # "Lock"
      /\ \A g \in Handlers \ {h} :
           /\ Involved(g, l)' => Involved(g, l)
           /\ Holds(g, l) => Holds(g, l)'
           /\ (lock[l].writer = g)' => lock[l].writer = g
           /\ (g \in lock[l].readers \cup lock[l].blocked)' => g \in lock[l].readers \cup lock[l].blocked
  BY LockAsked DEF LockInv
<1>3. call[h].kind \in KindsAt(l) /\ l \in {"specLock", "latestLock"}
  BY <1>1 DEF LockInv, Locks
<1>4. Suits(h, l)'
  BY <1>1, <1>2, <1>3 DEF Suits, Mode, KindsAt, WriterKinds, ReaderKinds
<1>5. \A g \in Handlers : Suits(g, l) => Suits(g, l)'
  BY <1>1, <1>2, <1>4 DEF Suits
<1>6. \A g \in Handlers, k \in Locks \ {l} :
        /\ Suits(g, k)' <=> Suits(g, k)
        /\ Involved(g, k)' <=> Involved(g, k)
        /\ Holds(g, k)' <=> Holds(g, k)
  BY <1>1, <1>2 DEF Suits, Involved, Waits, Holds
<1>7. ASSUME NEW g \in Handlers
      PROVE  HasSpecLock(g)' /\ HasLatestLock(g)'
  <2>1. CASE g # h
    BY <1>1, <1>2, <1>5, <1>6, <2>1 DEF LockInv, HasSpecLock, HasLatestLock, Locks
  <2>2. CASE g = h /\ l = "specLock"
    BY <1>1, <1>4, <1>6, <2>2 DEF LockInv, HasSpecLock, HasLatestLock, Locks
  <2>3. CASE g = h /\ l = "latestLock"
    BY <1>1, <1>4, <1>6, <2>3 DEF LockInv, HasSpecLock, HasLatestLock, Locks
  <2> QED
    BY <1>3, <2>1, <2>2, <2>3
<1> QED
  BY <1>1, <1>2, <1>7 DEF LockInv, IsCall

(* Giving latestLock back, with specLock still held.                       *)
LEMMA LocksLatestReturned ==
    ASSUME LockInv, NEW h \in Handlers, UnlocksLatest(h)
    PROVE  LockInv'
<1> DEFINE l == "latestLock"
<1>1. /\ UNCHANGED <<pc, call>> /\ pc[h] = "return" /\ Holds(h, l) /\ lock' = Released(h, l)
      /\ l \in Locks /\ Suits(h, l)
  BY DEF UnlocksLatest, LockInv, HasLatestLock, Locks
<1>2. /\ lock' = [k \in Locks |-> lock'[k]] /\ \A k \in Locks : IsLock(lock'[k])
      /\ \A k \in Locks \ {l} : lock'[k] = lock[k]
      /\ ~Involved(h, l)'
      /\ \A g \in Handlers \ {h} :
           /\ Involved(g, l)' => Involved(g, l)
           /\ Holds(g, l) => Holds(g, l)'
           /\ (lock[l].writer = g)' => lock[l].writer = g
           /\ (g \in lock[l].readers \cup lock[l].blocked)' => g \in lock[l].readers \cup lock[l].blocked
  BY <1>1, LockReleased DEF LockInv
<1>3. \A g \in Handlers, k \in Locks \ {l} :
        /\ Suits(g, k)' <=> Suits(g, k)
        /\ Involved(g, k)' <=> Involved(g, k)
        /\ Holds(g, k)' <=> Holds(g, k)
  BY <1>1, <1>2 DEF Suits, Involved, Waits, Holds
<1>4. "specLock" \in Locks \ {l}
  BY DEF Locks
<1>5. Suits(h, l)'
  BY <1>2 DEF Involved, Waits, Suits
<1>6. ASSUME NEW g \in Handlers
      PROVE  HasSpecLock(g)' /\ HasLatestLock(g)'
  <2>1. HasSpecLock(g)'
    BY <1>1, <1>3, <1>4 DEF LockInv, HasSpecLock
  <2>2. CASE g = h
    BY <1>1, <1>2, <1>5, <2>1, <2>2 DEF HasLatestLock
  <2>3. CASE g # h
    BY <1>1, <1>2, <2>1, <2>3 DEF LockInv, HasLatestLock, Suits
  <2> QED
    BY <2>2, <2>3
<1> QED
  BY <1>1, <1>2, <1>6 DEF LockInv, IsCall

(* Giving specLock back, after latestLock, and being gone.                 *)
LEMMA LocksSpecReturned ==
    ASSUME LockInv, NEW h \in Handlers, UnlocksSpec(h)
    PROVE  LockInv'
<1> DEFINE l == "specLock"
<1>1. /\ pc' = [pc EXCEPT ![h] = "idle"] /\ call' = [call EXCEPT ![h] = NoCall]
      /\ pc[h] = "return" /\ lock' = Released(h, l) /\ ~Holds(h, "latestLock")
  BY DEF UnlocksSpec, Goto
<1>2. l \in Locks /\ "latestLock" \in Locks \ {l} /\ Holds(h, l) /\ Suits(h, l)
  BY <1>1 DEF LockInv, HasSpecLock, Locks
<1>3. /\ lock' = [k \in Locks |-> lock'[k]] /\ \A k \in Locks : IsLock(lock'[k])
      /\ \A k \in Locks \ {l} : lock'[k] = lock[k]
      /\ ~Involved(h, l)'
      /\ \A g \in Handlers \ {h} :
           /\ Involved(g, l)' => Involved(g, l)
           /\ Holds(g, l) => Holds(g, l)'
           /\ (lock[l].writer = g)' => lock[l].writer = g
           /\ (g \in lock[l].readers \cup lock[l].blocked)' => g \in lock[l].readers \cup lock[l].blocked
  BY <1>1, <1>2, LockReleased DEF LockInv
<1>4. /\ pc' \in [Handlers -> Steps] /\ pc'[h] = "idle"
      /\ \A g \in Handlers \ {h} : pc'[g] = pc[g]
  BY <1>1 DEF LockInv, Steps
<1>5. call' = [g \in Handlers |-> call'[g]] /\ DOMAIN call' = Handlers /\ call'[h] = NoCall
      /\ \A g \in Handlers \ {h} : call'[g] = call[g]
  BY <1>1 DEF LockInv
<1>6. ~Involved(h, "latestLock")
  BY <1>1 DEF LockInv, HasLatestLock
<1>7. \A g \in Handlers :
        /\ Involved(g, "latestLock")' <=> Involved(g, "latestLock")
        /\ Holds(g, "latestLock")' <=> Holds(g, "latestLock")
  BY <1>2, <1>3 DEF Involved, Waits, Holds
<1>8. ASSUME NEW g \in Handlers
      PROVE  /\ IsCall(call'[g]) /\ call'[g].kind \in KindsAt(pc'[g])
             /\ HasSpecLock(g)' /\ HasLatestLock(g)'
  <2>1. CASE g = h
    <3>1. \A k \in Locks : ~Involved(h, k)'
      BY <1>3, <1>6, <1>7 DEF Locks
    <3>2. \A k \in Locks : Suits(h, k)'
      BY <3>1 DEF Suits, Involved, Waits
    <3> QED
      BY <1>2, <1>4, <1>5, <2>1, <3>1, <3>2
         DEF IsCall, NoCall, KindsAt, HasSpecLock, HasLatestLock
  <2>2. CASE g # h
    <3>1. IsCall(call'[g]) /\ call'[g].kind \in KindsAt(pc'[g])
      BY <1>4, <1>5, <2>2 DEF LockInv
    <3>2. HasSpecLock(g)'
      BY <1>3, <1>4, <1>5, <2>2 DEF LockInv, HasSpecLock, Suits
    <3>3. HasLatestLock(g)'
      BY <1>2, <1>3, <1>4, <1>5, <1>7, <2>2 DEF LockInv, HasLatestLock, Suits
    <3> QED
      BY <3>1, <3>2, <3>3
  <2> QED
    BY <2>1, <2>2
<1> QED
  BY <1>3, <1>4, <1>5, <1>8 DEF LockInv

(* What a handler does between taking its locks and giving them back.      *)
LEMMA LocksKept ==
    ASSUME LockInv, NEW h \in Handlers,
           \/ EntersSpec(h) \/ NotFound(h) \/ Found(h) \/ ReadsView(h)
           \/ BodyBreaks(h) \/ PatchBody(h) \/ PostBody(h)
           \/ EntersLatest(h) \/ ReadsList(h) \/ Appends(h) \/ Publishes(h)
    PROVE  LockInv'
<1>1. /\ call[h].kind \in KindsAt(pc[h])
      /\ pc[h] \notin {"idle", "specLock"} => Holds(h, "specLock")
      /\ pc[h] \in {"list", "append", "install"} => Holds(h, "latestLock")
      /\ Involved(h, "latestLock") => pc[h] \in {"latestLock", "list", "append", "install", "return"}
  BY DEF LockInv, HasSpecLock, HasLatestLock
<1>2. CASE EntersSpec(h)
  BY <1>1, <1>2, Moves DEF EntersSpec, Goto, KindsAt, WriterKinds, ReaderKinds, Steps
<1>3. CASE NotFound(h)
  BY <1>1, <1>3, Moves DEF NotFound, Goto, KindsAt, WriterKinds, ReaderKinds, Steps
<1>4. CASE Found(h)
  BY <1>1, <1>4, Moves DEF Found, Goto, KindsAt, WriterKinds, ReaderKinds, Steps
<1>5. CASE ReadsView(h)
  BY <1>1, <1>5, Moves DEF ReadsView, Goto, KindsAt, WriterKinds, ReaderKinds, Steps
<1>6. CASE BodyBreaks(h)
  BY <1>1, <1>6, Moves DEF BodyBreaks, Goto, KindsAt, WriterKinds, ReaderKinds, Steps
<1>7. CASE PatchBody(h)
  BY <1>1, <1>7, Moves DEF PatchBody, Goto, KindsAt, WriterKinds, ReaderKinds, Steps
<1>8. CASE PostBody(h)
  BY <1>1, <1>8, Moves DEF PostBody, Goto, KindsAt, WriterKinds, ReaderKinds, Steps
<1>9. CASE EntersLatest(h)
  BY <1>1, <1>9, Moves DEF EntersLatest, Goto, KindsAt, WriterKinds, ReaderKinds, Steps
<1>10. CASE ReadsList(h)
  BY <1>1, <1>10, Moves DEF ReadsList, Goto, KindsAt, WriterKinds, ReaderKinds, Steps
<1>11. CASE Appends(h)
  BY <1>1, <1>11, Moves DEF Appends, Goto, KindsAt, WriterKinds, ReaderKinds, Steps
<1>12. CASE Publishes(h)
  BY <1>1, <1>12, Moves DEF Publishes, Goto, KindsAt, WriterKinds, ReaderKinds, Steps
<1> QED
  BY <1>2, <1>3, <1>4, <1>5, <1>6, <1>7, <1>8, <1>9, <1>10, <1>11, <1>12

(* Every step leaves the locks in order.                                   *)
LEMMA LocksStep == TypeOK /\ LockInv /\ [HandlersNext]_vars => LockInv'
<1> SUFFICES ASSUME TypeOK, LockInv, [HandlersNext]_vars PROVE LockInv'
  OBVIOUS
<1>1. ASSUME NEW h \in Handlers, SomeCall(h) PROVE LockInv'
  BY <1>1, CallsAreCalls, LocksArrival DEF TypeOK
<1>2. ASSUME NEW h \in Handlers, NEW l \in Locks, Asks(h, l) PROVE LockInv'
  BY <1>2, LocksAsking
<1>3. ASSUME NEW h \in Handlers, Goes(h) PROVE LockInv'
  <2>1. CASE \E n \in NetworkNames : SetsList(h, n)
    <3>1. UNCHANGED <<pc, call, lock>>
      BY <2>1 DEF SetsList
    <3> QED
      BY <3>1, LocksUntouched
  <2> QED
    BY <1>3, <2>1, LocksKept, LocksLatestReturned, LocksSpecReturned DEF Goes
<1>4. CASE RestartsAll
  <2>1. /\ pc' \in [Handlers -> Steps] /\ \A h \in Handlers : pc'[h] = "idle"
        /\ DOMAIN call' = Handlers /\ call' = [h \in Handlers |-> call'[h]]
        /\ \A h \in Handlers : call'[h] = NoCall
        /\ lock' = [l \in Locks |-> lock'[l]] /\ \A l \in Locks : lock'[l] = Free
    BY <1>4 DEF RestartsAll, Steps
  <2>2. IsLock(Free)
    BY DEF IsLock, Free
  <2>3. \A h \in Handlers, l \in Locks : ~Involved(h, l)' /\ Suits(h, l)'
    BY <2>1, HandlersAssumption DEF Involved, Waits, Suits, Free
  <2>4. ASSUME NEW h \in Handlers
        PROVE  /\ IsCall(call'[h]) /\ call'[h].kind \in KindsAt(pc'[h])
               /\ HasSpecLock(h)' /\ HasLatestLock(h)'
    BY <2>1, <2>3 DEF IsCall, NoCall, KindsAt, HasSpecLock, HasLatestLock, Locks
  <2> QED
    BY <2>1, <2>2, <2>4 DEF LockInv
<1>5. CASE UNCHANGED vars
  <2>1. UNCHANGED <<pc, call, lock>>
    BY <1>5 DEF vars, handlerVars
  <2> QED
    BY <2>1, LocksUntouched
<1> QED
  BY <1>1, <1>2, <1>3, <1>4, <1>5 DEF HandlersNext

(* The locks keep a handler that writes away from everybody else.          *)
LEMMA LocksExclude == LockInv => NoDataRace
<1> SUFFICES ASSUME LockInv, NEW g \in Handlers, NEW h \in Handlers, g # h, Writes(g) # {}
             PROVE  Reads(h) = {} /\ Writes(h) = {}
  BY DEF NoDataRace
<1>1. pc[g] \in {"append", "install"}
  BY DEF Writes
<1>2. call[g].kind \in WriterKinds
  BY <1>1 DEF LockInv, KindsAt, WriterKinds
<1>3. pc[h] \in {"idle", "specLock"}
  BY <1>1, <1>2, WritersExclude
<1> QED
  BY <1>3 DEF Reads, Writes

-----------------------------------------------------------------------------
(* What a handler has found out about the specification, and still relies  *)
(* on: its device is there; what it is about to install was made from the  *)
(* specification in force; the report it is about to accept is what the    *)
(* device is shown; the answer it is about to give is true.                *)
KnowsDevice(h) ==
    \/ pc[h] \in {"view", "body", "list", "append"}
    \/ pc[h] = "latestLock" /\ call[h].kind # "update"
    => Known(spec, call[h].net, call[h].dev)

HasNewSpec(h) ==
    pc[h] = "latestLock" =>
        /\ call[h].kind = "update" => fresh[h] = call[h].body
        /\ call[h].kind = "patch" =>
                /\ PatchAccepted(call[h].net, call[h].dev, call[h].body)
                /\ fresh[h] = PatchedSpec(call[h].net, call[h].dev, call[h].body)

ReportMatches(h) ==
    pc[h] \in {"latestLock", "append"} /\ call[h].kind = "post" =>
        call[h].body = CensorForDevice(spec, call[h].net, call[h].dev)

AnswerIsTrue(h) ==
    answer[h] # NoReport =>
        /\ pc[h] = "return"
        /\ \/ /\ call[h].kind = "spec"
              /\ Known(spec, call[h].net, call[h].dev)
              /\ answer[h] = CensorForDevice(spec, call[h].net, call[h].dev)
           \/ /\ call[h].kind = "latest"
              /\ answer[h] = [Latest |-> Latest(call[h].net, call[h].dev)]

Relies(h) ==
    /\ IsSpec(fresh[h])
    /\ pc[h] # "install" => todo[h] = {}
    /\ KnowsDevice(h) /\ HasNewSpec(h) /\ ReportMatches(h) /\ AnswerIsTrue(h)

(* The second half of the inductive invariant.                             *)
DataInv ==
    /\ TypeOK
    /\ fresh = [h \in Handlers |-> fresh[h]]
    /\ todo \in [Handlers -> SUBSET NetworkNames]
    /\ answer = [h \in Handlers |-> answer[h]]
    /\ \A h \in Handlers : Relies(h)

(* Nothing is relied on when the server starts.                            *)
LEMMA DataInit == HandlersInit => DataInv
<1> SUFFICES ASSUME HandlersInit PROVE DataInv
  OBVIOUS
<1>1. TypeOK
  BY TypeInit DEF HandlersInit
<1>2. IsSpec(Nil)
  BY DEF Nil, IsSpec
<1> QED
  BY <1>1, <1>2 DEF HandlersInit, DataInv, Relies, KnowsDevice, HasNewSpec, ReportMatches, AnswerIsTrue

Unmoved(g) ==
    /\ pc'[g] = pc[g] /\ call'[g] = call[g]
    /\ fresh'[g] = fresh[g] /\ todo'[g] = todo[g] /\ answer'[g] = answer[g]

(* A handler that does not move relies on what it relied on, if what it    *)
(* has found out cannot change: nothing does, or it has not looked yet.    *)
LEMMA RelyKept ==
    ASSUME NEW g \in Handlers, Relies(g), Unmoved(g),
           \/ spec' = spec /\ latest' = latest
           \/ pc[g] \in {"idle", "specLock"}
    PROVE  Relies(g)'
<1>1. CASE spec' = spec /\ latest' = latest
  <2>1. \A n, d : Known(spec, n, d)' <=> Known(spec, n, d)
    BY <1>1 DEF Known
  <2>2. \A n, d, r : PatchedSpec(n, d, r)' = PatchedSpec(n, d, r)
    BY <1>1 DEF PatchedSpec
  <2>3. \A n, d, r : PatchAccepted(n, d, r)' <=> PatchAccepted(n, d, r)
    BY <1>1 DEF PatchAccepted, Admitted
  <2>4. \A n, d : Latest(n, d)' = Latest(n, d)
    BY <1>1 DEF Latest
  <2>5. KnowsDevice(g)'
    BY <1>1, <2>1 DEF Unmoved, Relies, KnowsDevice
  <2>6. HasNewSpec(g)'
    BY <1>1, <2>2, <2>3 DEF Unmoved, Relies, HasNewSpec
  <2>7. ReportMatches(g)'
    BY <1>1 DEF Unmoved, Relies, ReportMatches
  <2>8. AnswerIsTrue(g)'
    BY <1>1, <2>4 DEF Unmoved, Relies, AnswerIsTrue
  <2> QED
    BY <2>5, <2>6, <2>7, <2>8 DEF Unmoved, Relies
<1>2. CASE pc[g] \in {"idle", "specLock"}
  BY <1>2 DEF Unmoved, Relies, KnowsDevice, HasNewSpec, ReportMatches, AnswerIsTrue
<1> QED
  BY <1>1, <1>2

(* When one handler moves, the others rely on what they relied on: they    *)
(* are not past specLock while it changes anything.                        *)
LEMMA DataMove ==
    ASSUME DataInv, LockInv, NEW h \in Handlers, TypeOK',
           fresh' = [g \in Handlers |-> fresh'[g]],
           todo' \in [Handlers -> SUBSET NetworkNames],
           answer' = [g \in Handlers |-> answer'[g]],
           \A g \in Handlers \ {h} : Unmoved(g),
           \/ spec' = spec /\ latest' = latest
           \/ call[h].kind \in WriterKinds /\ pc[h] \notin {"idle", "specLock"},
           Relies(h)'
    PROVE  DataInv'
<1>1. ASSUME NEW g \in Handlers \ {h} PROVE Relies(g)'
  <2>1. Relies(g) /\ Unmoved(g)
    BY DEF DataInv
  <2>2. CASE spec' = spec /\ latest' = latest
    BY <2>1, <2>2, RelyKept
  <2>3. CASE call[h].kind \in WriterKinds /\ pc[h] \notin {"idle", "specLock"}
    BY <2>1, <2>3, RelyKept, WritersExclude
  <2> QED
    BY <2>2, <2>3
<1> QED
  BY <1>1 DEF DataInv

(* A step that leaves the server and the other handlers alone.             *)
LEMMA DataLocal ==
    ASSUME DataInv, LockInv, NEW h \in Handlers, UNCHANGED serverVars,
           fresh' = fresh \/ \E v : fresh' = [fresh EXCEPT ![h] = v],
           todo' = todo \/ \E v \in SUBSET NetworkNames : todo' = [todo EXCEPT ![h] = v],
           answer' = answer \/ \E v : answer' = [answer EXCEPT ![h] = v],
           pc' = pc \/ \E v : pc' = [pc EXCEPT ![h] = v],
           call' = call \/ \E v : call' = [call EXCEPT ![h] = v],
           Relies(h)'
    PROVE  DataInv'
<1>1. TypeOK'
  BY DEF DataInv, TypeOK, serverVars
<1>2. fresh' = [g \in Handlers |-> fresh'[g]] /\ \A g \in Handlers \ {h} : fresh'[g] = fresh[g]
  BY DEF DataInv
<1>3. todo' \in [Handlers -> SUBSET NetworkNames] /\ \A g \in Handlers \ {h} : todo'[g] = todo[g]
  BY DEF DataInv
<1>4. answer' = [g \in Handlers |-> answer'[g]] /\ \A g \in Handlers \ {h} : answer'[g] = answer[g]
  BY DEF DataInv
<1>5. \A g \in Handlers \ {h} : pc'[g] = pc[g] /\ call'[g] = call[g]
  BY DEF LockInv
<1>6. spec' = spec /\ latest' = latest
  BY DEF serverVars
<1> QED
  BY <1>1, <1>2, <1>3, <1>4, <1>5, <1>6, DataMove DEF Unmoved

(* A report is accepted in a step of CoordServer.                          *)
LEMMA AppendsIsPost ==
    ASSUME DataInv, LockInv, NEW h \in Handlers, Appends(h)
    PROVE  /\ PostMatching(call[h].net, call[h].dev, call[h].body)
           /\ SomePost
<1> DEFINE n == call[h].net
           d == call[h].dev
<1>1. pc[h] = "append" /\ call[h].kind = "post"
  BY DEF Appends, LockInv, KindsAt
<1>2. <<n, d>> \in Identities
  BY <1>1 DEF LockInv, IsCall, NoCall, ReaderKinds
<1>3. Known(spec, n, d) /\ call[h].body = CensorForDevice(spec, n, d)
  BY <1>1 DEF DataInv, Relies, KnowsDevice, ReportMatches
<1>4. PostMatching(n, d, call[h].body)
  BY <1>2, <1>3 DEF Appends, PostMatching, Admitted
<1>5. call[h].body \in Report(n, d)
  BY <1>3 DEF Report
<1>6. SomePost
  <2> DEFINE i == <<n, d>>
  <2>1. i \in Identities /\ i[1] = n /\ i[2] = d
    BY <1>2
  <2> HIDE DEF n, d, i
  <2> QED
    BY <2>1, <1>4, <1>5 DEF SomePost, PostReifyStatus
<1> QED
  BY <1>4, <1>6

(* The steps up to the first look at the specification.                    *)
LEMMA DataEntry ==
    ASSUME DataInv, LockInv, NEW h \in Handlers,
           \/ \E c : Arrives(h, c) /\ IsCall(c)
           \/ \E l \in Locks : Asks(h, l)
           \/ EntersSpec(h) \/ NotFound(h) \/ Found(h)
    PROVE  DataInv'
<1>1. /\ Relies(h) /\ pc \in [Handlers -> Steps]
      /\ DOMAIN call = Handlers /\ call = [g \in Handlers |-> call[g]]
      /\ DOMAIN fresh = Handlers /\ fresh = [g \in Handlers |-> fresh[g]]
      /\ call[h].kind \in KindsAt(pc[h]) /\ IsCall(call[h])
  BY DEF DataInv, LockInv
<1>2. ASSUME NEW c, Arrives(h, c) PROVE DataInv'
  <2>1. Relies(h)'
    BY <1>1, <1>2 DEF Arrives, Goto, Relies, KnowsDevice, HasNewSpec, ReportMatches, AnswerIsTrue, serverVars
  <2> QED
    BY <1>2, <2>1, DataLocal DEF Arrives, Goto
<1>3. ASSUME NEW l \in Locks, Asks(h, l) PROVE DataInv'
  <2>1. Unmoved(h) /\ UNCHANGED serverVars
    BY <1>3 DEF Asks, Unmoved
  <2>2. Relies(h)'
    BY <1>1, <2>1, RelyKept DEF serverVars
  <2> QED
    BY <1>3, <2>1, <2>2, DataLocal DEF Asks
<1>4. CASE EntersSpec(h)
  <2>1. CASE call[h].kind = "update"
    <3>1. /\ pc' = [pc EXCEPT ![h] = "latestLock"] /\ fresh' = [fresh EXCEPT ![h] = call[h].body]
          /\ UNCHANGED <<serverVars, call, todo, answer>> /\ pc[h] = "specLock"
      BY <1>4, <2>1 DEF EntersSpec, Goto
    <3>2. IsSpec(call[h].body)
      BY <1>1, <2>1, CoordAssumption DEF IsCall, NoCall, ReaderKinds
    <3>3. Relies(h)'
      BY <1>1, <2>1, <3>1, <3>2 DEF Relies, KnowsDevice, HasNewSpec, ReportMatches, AnswerIsTrue
    <3> QED
      BY <3>1, <3>3, DataLocal
  <2>2. CASE call[h].kind # "update"
    <3>1. /\ pc' = [pc EXCEPT ![h] = "lookup"]
          /\ UNCHANGED <<serverVars, call, fresh, todo, answer>> /\ pc[h] = "specLock"
      BY <1>4, <2>2 DEF EntersSpec, Goto
    <3>2. Relies(h)'
      BY <1>1, <3>1 DEF Relies, KnowsDevice, HasNewSpec, ReportMatches, AnswerIsTrue
    <3> QED
      BY <3>1, <3>2, DataLocal
  <2> QED
    BY <2>1, <2>2
<1>5. CASE NotFound(h)
  <2>1. Relies(h)'
    BY <1>1, <1>5 DEF NotFound, Goto, Relies, KnowsDevice, HasNewSpec, ReportMatches, AnswerIsTrue
  <2> QED
    BY <1>5, <2>1, DataLocal DEF NotFound, Goto
<1>6. CASE Found(h)
  <2> DEFINE s == CASE call[h].kind = "spec"             -> "view"
                    [] call[h].kind = "latest"           -> "latestLock"
                    [] call[h].kind \in {"patch", "post"} -> "body"
  <2>1. /\ pc' = [pc EXCEPT ![h] = s] /\ pc[h] = "lookup"
        /\ Known(spec, call[h].net, call[h].dev)
        /\ UNCHANGED <<serverVars, call, fresh, todo, answer>>
    BY <1>6 DEF Found, Goto
  <2>2. s \in {"view", "latestLock", "body"} /\ (s = "latestLock" => call[h].kind = "latest")
    BY <1>1, <2>1 DEF KindsAt
  <2> HIDE DEF s
  <2>3. Relies(h)'
    BY <1>1, <2>1, <2>2 DEF Relies, KnowsDevice, HasNewSpec, ReportMatches, AnswerIsTrue, Known, serverVars
  <2> QED
    BY <2>1, <2>3, DataLocal
<1> QED
  BY <1>2, <1>3, <1>4, <1>5, <1>6

(* The steps that read the specification, the body or the latest list.     *)
LEMMA DataReading ==
    ASSUME DataInv, LockInv, NEW h \in Handlers,
           \/ ReadsView(h) \/ BodyBreaks(h) \/ PatchBody(h) \/ PostBody(h)
           \/ EntersLatest(h) \/ ReadsList(h)
    PROVE  DataInv'
<1> DEFINE n == call[h].net
           d == call[h].dev
<1>1. /\ Relies(h) /\ pc \in [Handlers -> Steps] /\ IsSpec(spec)
      /\ DOMAIN fresh = Handlers /\ fresh = [g \in Handlers |-> fresh[g]]
      /\ DOMAIN answer = Handlers /\ answer = [g \in Handlers |-> answer[g]]
      /\ todo \in [Handlers -> SUBSET NetworkNames]
      /\ call[h].kind \in KindsAt(pc[h]) /\ IsCall(call[h])
  BY DEF DataInv, LockInv, TypeOK
<1>2. CASE ReadsView(h)
  <2>1. /\ answer' = [answer EXCEPT ![h] = CensorForDevice(spec, n, d)]
        /\ pc' = [pc EXCEPT ![h] = "return"] /\ pc[h] = "view"
        /\ UNCHANGED <<serverVars, call, fresh, todo>>
    BY <1>2 DEF ReadsView, Goto
  <2>2. call[h].kind = "spec" /\ Known(spec, n, d)
    BY <1>1, <2>1 DEF KindsAt, Relies, KnowsDevice
  <2>3. Relies(h)'
    BY <1>1, <2>1, <2>2 DEF Relies, KnowsDevice, HasNewSpec, ReportMatches, AnswerIsTrue, serverVars, Known
  <2> QED
    BY <2>1, <2>3, DataLocal
<1>3. CASE BodyBreaks(h)
  <2>1. Relies(h)'
    BY <1>1, <1>3 DEF BodyBreaks, Goto, Relies, KnowsDevice, HasNewSpec, ReportMatches, AnswerIsTrue
  <2> QED
    BY <1>3, <2>1, DataLocal DEF BodyBreaks, Goto
<1>4. CASE PatchBody(h)
  <2>1. call[h].body \in PatchRequests /\ call[h].kind = "patch" /\ pc[h] = "body"
    BY <1>1, <1>4 DEF PatchBody, IsCall, NoCall, ReaderKinds
  <2>2. CASE PatchAccepted(n, d, call[h].body)
    <3>1. /\ fresh' = [fresh EXCEPT ![h] = PatchedSpec(n, d, call[h].body)]
          /\ pc' = [pc EXCEPT ![h] = "latestLock"]
          /\ UNCHANGED <<serverVars, call, todo, answer>>
      BY <1>4, <2>2 DEF PatchBody, Goto
    <3>2. IsSpec(PatchedSpec(n, d, call[h].body)) /\ Known(spec, n, d)
      BY <1>1, <2>1, <2>2, PatchedIsSpec, CoordAssumption DEF PatchAccepted, Admitted
    <3>3. /\ PatchedSpec(n, d, call[h].body)' = PatchedSpec(n, d, call[h].body)
          /\ PatchAccepted(n, d, call[h].body)' /\ Known(spec, n, d)'
      BY <2>2, <3>1, <3>2 DEF PatchedSpec, PatchAccepted, Admitted, Known, serverVars
    <3>4. Relies(h)'
      BY <1>1, <2>1, <3>1, <3>2, <3>3 DEF Relies, KnowsDevice, HasNewSpec, ReportMatches, AnswerIsTrue
    <3> QED
      BY <3>1, <3>4, DataLocal
  <2>3. CASE ~PatchAccepted(n, d, call[h].body)
    <3>1. pc' = [pc EXCEPT ![h] = "return"] /\ UNCHANGED <<serverVars, call, fresh, todo, answer>>
      BY <1>4, <2>3 DEF PatchBody, Goto
    <3>2. Relies(h)'
      BY <1>1, <2>1, <3>1 DEF Relies, KnowsDevice, HasNewSpec, ReportMatches, AnswerIsTrue
    <3> QED
      BY <3>1, <3>2, DataLocal
  <2> QED
    BY <2>2, <2>3
<1>5. CASE PostBody(h)
  <2> DEFINE s == IF call[h].body = CensorForDevice(spec, n, d) THEN "latestLock" ELSE "return"
  <2>1. /\ pc' = [pc EXCEPT ![h] = s] /\ pc[h] = "body" /\ call[h].kind = "post"
        /\ UNCHANGED <<serverVars, call, fresh, todo, answer>>
    BY <1>5 DEF PostBody, Goto
  <2>2. /\ s \in {"latestLock", "return"} /\ Known(spec, n, d)
        /\ s = "latestLock" => call[h].body = CensorForDevice(spec, n, d)
    BY <1>1, <2>1 DEF Relies, KnowsDevice
  <2> HIDE DEF s
  <2>3. Relies(h)'
    BY <1>1, <2>1, <2>2 DEF Relies, KnowsDevice, HasNewSpec, ReportMatches, AnswerIsTrue, serverVars, Known
  <2> QED
    BY <2>1, <2>3, DataLocal
<1>6. CASE EntersLatest(h)
  <2>1. pc[h] = "latestLock" /\ UNCHANGED <<serverVars, call, fresh, answer>>
    BY <1>6 DEF EntersLatest
  <2>2. CASE call[h].kind \in {"latest", "post"}
    <3> DEFINE s == IF call[h].kind = "latest" THEN "list" ELSE "append"
    <3>1. pc' = [pc EXCEPT ![h] = s] /\ todo' = todo
      BY <1>6, <2>2 DEF EntersLatest, Goto
    <3>2. s \in {"list", "append"} /\ (s = "append" => call[h].kind = "post")
      BY <2>2
    <3> HIDE DEF s
    <3>3. Relies(h)'
      BY <1>1, <2>1, <2>2, <3>1, <3>2
         DEF Relies, KnowsDevice, HasNewSpec, ReportMatches, AnswerIsTrue, serverVars, Known
    <3> QED
      BY <2>1, <3>1, <3>3, DataLocal
  <2>3. CASE call[h].kind \notin {"latest", "post"}
    <3>1. pc' = [pc EXCEPT ![h] = "install"] /\ todo' = [todo EXCEPT ![h] = DOMAIN spec]
      BY <1>6, <2>3 DEF EntersLatest, Goto
    <3>2. DOMAIN spec \in SUBSET NetworkNames
      BY <1>1 DEF IsSpec
    <3>3. Relies(h)'
      BY <1>1, <2>1, <3>1 DEF Relies, KnowsDevice, HasNewSpec, ReportMatches, AnswerIsTrue
    <3> QED
      BY <2>1, <3>1, <3>2, <3>3, DataLocal
  <2> QED
    BY <2>2, <2>3
<1>7. CASE ReadsList(h)
  <2>1. /\ answer' = [answer EXCEPT ![h] = [Latest |-> Latest(n, d)]]
        /\ pc' = [pc EXCEPT ![h] = "return"] /\ pc[h] = "list"
        /\ UNCHANGED <<serverVars, call, fresh, todo>>
    BY <1>7 DEF ReadsList, Goto
  <2>2. call[h].kind = "latest" /\ Latest(n, d)' = Latest(n, d)
    BY <1>1, <2>1 DEF KindsAt, serverVars, Latest
  <2>3. Relies(h)'
    BY <1>1, <2>1, <2>2 DEF Relies, KnowsDevice, HasNewSpec, ReportMatches, AnswerIsTrue
  <2> QED
    BY <2>1, <2>3, DataLocal
<1> QED
  BY <1>2, <1>3, <1>4, <1>5, <1>6, <1>7

(* The steps that change the server.                                       *)
LEMMA DataWriting ==
    ASSUME DataInv, LockInv, NEW h \in Handlers,
           Appends(h) \/ (\E n \in NetworkNames : SetsList(h, n)) \/ Publishes(h)
    PROVE  DataInv'
<1>1. /\ Relies(h) /\ pc \in [Handlers -> Steps] /\ TypeOK
      /\ fresh = [g \in Handlers |-> fresh[g]] /\ answer = [g \in Handlers |-> answer[g]]
      /\ todo \in [Handlers -> SUBSET NetworkNames]
      /\ call[h].kind \in KindsAt(pc[h])
  BY DEF DataInv, LockInv
<1>2. pc[h] \in {"append", "install"} /\ call[h].kind \in WriterKinds /\ answer[h] = NoReport
  BY <1>1 DEF Appends, SetsList, Publishes, KindsAt, WriterKinds, Relies, AnswerIsTrue
<1>3. CASE Appends(h)
  <2>1. TypeOK'
    BY <1>1, <1>3, AppendsIsPost, TypeStep DEF Next
  <2>2. pc' = [pc EXCEPT ![h] = "return"] /\ UNCHANGED <<call, fresh, todo, answer>> /\ pc[h] = "append"
    BY <1>3 DEF Appends, Goto
  <2>3. Relies(h)'
    BY <1>1, <1>2, <2>2 DEF Relies, KnowsDevice, HasNewSpec, ReportMatches, AnswerIsTrue
  <2>4. \A g \in Handlers \ {h} : Unmoved(g)
    BY <1>1, <2>2 DEF Unmoved
  <2> QED
    BY <1>1, <1>2, <2>1, <2>2, <2>3, <2>4, DataMove
<1>4. ASSUME NEW n \in NetworkNames, SetsList(h, n) PROVE DataInv'
  <2>1. /\ latest' = [latest EXCEPT ![n] = LatestAfter(n, fresh[h])]
        /\ todo' = [todo EXCEPT ![h] = @ \ {n}]
        /\ pc[h] = "install" /\ UNCHANGED <<spec, confirmed, pc, call, fresh, answer>>
    BY <1>4 DEF SetsList
  <2>2. LatestAfter(n, fresh[h]) \in [DeviceNames -> 0..MaxCopies]
    BY <1>1, LatestAfterType DEF TypeOK
  <2>3. TypeOK'
    BY <1>1, <2>1, <2>2 DEF TypeOK
  <2>4. Relies(h)'
    BY <1>1, <1>2, <2>1 DEF Relies, KnowsDevice, HasNewSpec, ReportMatches, AnswerIsTrue
  <2>5. todo' \in [Handlers -> SUBSET NetworkNames] /\ \A g \in Handlers \ {h} : todo'[g] = todo[g]
    BY <1>1, <2>1
  <2>6. \A g \in Handlers \ {h} : Unmoved(g)
    BY <2>1, <2>5 DEF Unmoved
  <2> QED
    BY <1>1, <1>2, <2>1, <2>3, <2>4, <2>5, <2>6, DataMove
<1>5. CASE Publishes(h)
  <2>1. /\ spec' = fresh[h] /\ pc' = [pc EXCEPT ![h] = "return"] /\ pc[h] = "install" /\ todo[h] = {}
        /\ UNCHANGED <<latest, confirmed, call, fresh, todo, answer>>
    BY <1>5 DEF Publishes, Goto
  <2>2. TypeOK'
    BY <1>1, <2>1 DEF TypeOK, Relies
  <2>3. Relies(h)'
    BY <1>1, <1>2, <2>1 DEF Relies, KnowsDevice, HasNewSpec, ReportMatches, AnswerIsTrue
  <2>4. \A g \in Handlers \ {h} : Unmoved(g)
    BY <1>1, <2>1 DEF Unmoved
  <2> QED
    BY <1>1, <1>2, <2>1, <2>2, <2>3, <2>4, DataMove
<1> QED
  BY <1>3, <1>4, <1>5

(* The steps that give the locks back, and the restart.                    *)
LEMMA DataLeaving ==
    ASSUME DataInv, LockInv, NEW h \in Handlers, UnlocksLatest(h) \/ UnlocksSpec(h)
    PROVE  DataInv'
<1>1. /\ Relies(h) /\ pc \in [Handlers -> Steps]
      /\ DOMAIN call = Handlers /\ call = [g \in Handlers |-> call[g]]
      /\ fresh = [g \in Handlers |-> fresh[g]] /\ answer = [g \in Handlers |-> answer[g]]
  BY DEF DataInv, LockInv
<1>2. CASE UnlocksLatest(h)
  <2>1. Unmoved(h) /\ UNCHANGED serverVars
    BY <1>2 DEF UnlocksLatest, Unmoved
  <2>2. Relies(h)'
    BY <1>1, <2>1, RelyKept DEF serverVars
  <2> QED
    BY <1>2, <2>1, <2>2, DataLocal DEF UnlocksLatest
<1>3. CASE UnlocksSpec(h)
  <2>1. /\ pc' = [pc EXCEPT ![h] = "idle"] /\ call' = [call EXCEPT ![h] = NoCall]
        /\ fresh' = [fresh EXCEPT ![h] = Nil] /\ answer' = [answer EXCEPT ![h] = NoReport]
        /\ UNCHANGED <<serverVars, todo>> /\ pc[h] = "return"
    BY <1>3 DEF UnlocksSpec, Goto
  <2>2. IsSpec(Nil)
    BY DEF Nil, IsSpec
  <2>3. Relies(h)'
    BY <1>1, <2>1, <2>2 DEF Relies, KnowsDevice, HasNewSpec, ReportMatches, AnswerIsTrue
  <2> QED
    BY <2>1, <2>3, DataLocal
<1> QED
  BY <1>2, <1>3

(* Every step leaves the handlers relying on what is so.                   *)
LEMMA DataStep == DataInv /\ LockInv /\ [HandlersNext]_vars => DataInv'
<1> SUFFICES ASSUME DataInv, LockInv, [HandlersNext]_vars PROVE DataInv'
  OBVIOUS
<1>1. ASSUME NEW h \in Handlers, SomeCall(h) PROVE DataInv'
  BY <1>1, CallsAreCalls, DataEntry DEF DataInv, TypeOK
<1>2. ASSUME NEW h \in Handlers, NEW l \in Locks, Asks(h, l) PROVE DataInv'
  BY <1>2, DataEntry
<1>3. ASSUME NEW h \in Handlers, Goes(h) PROVE DataInv'
  BY <1>3, DataEntry, DataReading, DataWriting, DataLeaving DEF Goes
<1>4. CASE RestartsAll
  <2>1. TypeOK'
    BY <1>4, TypeStep DEF RestartsAll, Next, DataInv
  <2>2. IsSpec(Nil)
    BY DEF Nil, IsSpec
  <2> QED
    BY <1>4, <2>1, <2>2
       DEF RestartsAll, DataInv, Relies, KnowsDevice, HasNewSpec, ReportMatches, AnswerIsTrue
<1>5. CASE UNCHANGED vars
  <2>1. TypeOK'
    BY <1>5, TypeStep DEF vars, DataInv
  <2>2. \A h \in Handlers : Relies(h)'
    BY <1>5, RelyKept DEF vars, serverVars, handlerVars, Unmoved, DataInv
  <2> QED
    BY <1>5, <2>1, <2>2 DEF vars, handlerVars, DataInv
<1> QED
  BY <1>1, <1>2, <1>3, <1>4, <1>5 DEF HandlersNext

(* However requests overlap, the locks are in order and what a handler     *)
(* relies on is so.                                                        *)
LEMMA HandlersInv == HandlersSpec => [](LockInv /\ DataInv)
<1>1. HandlersInit => LockInv /\ DataInv
  BY LocksInit, DataInit
<1>2. LockInv /\ DataInv /\ [HandlersNext]_vars => LockInv' /\ DataInv'
  BY LocksStep, DataStep DEF DataInv
<1> QED
  BY <1>1, <1>2, PTL DEF HandlersSpec

-----------------------------------------------------------------------------
(* Past specLock, a handler meets nobody who installs, except itself.      *)
LEMMA NobodyInstalls ==
    ASSUME LockInv, NEW h \in Handlers, pc[h] \notin {"idle", "specLock", "install"}
    PROVE  Installing = {}
<1> SUFFICES ASSUME NEW g \in Handlers, pc[g] = "install" PROVE FALSE
  BY DEF Installing
<1>1. call[g].kind \in WriterKinds
  BY DEF LockInv, KindsAt, WriterKinds
<1> QED
  BY <1>1, WritersExclude

(* With nobody installing, the server is as it looks.                      *)
LEMMA AtRest ==
    ASSUME Installing = {}, TypeOK
    PROVE  AtomicSpec = spec /\ AtomicLatest = latest
  BY DEF AtomicSpec, AtomicLatest, TypeOK

(* Requests in flight and the locks keep their types.                      *)
THEOREM HandlersTypeCorrect == HandlersSpec => []HandlersTypeOK
<1>1. ASSUME LockInv, DataInv PROVE HandlersTypeOK
  <2>1. ASSUME NEW h \in Handlers
        PROVE  /\ call[h].kind \in {"none", "latest", "spec", "patch", "post", "update"}
               /\ IsSpec(fresh[h])
               /\ answer[h] = NoReport \/ answer[h] \in [Latest : BOOLEAN] \/ IsNetworkCensored(answer[h])
    <3>1. IsCall(call[h]) /\ Relies(h) /\ IsSpec(spec)
      BY <1>1 DEF LockInv, DataInv, TypeOK
    <3>2. call[h].kind \in {"none", "latest", "spec", "patch", "post", "update"}
      BY <3>1 DEF IsCall, NoCall, ReaderKinds
    <3>3. Latest(call[h].net, call[h].dev) \in BOOLEAN
      BY DEF Latest
    <3>4. CASE answer[h] = CensorForDevice(spec, call[h].net, call[h].dev)
               /\ Known(spec, call[h].net, call[h].dev)
      BY <3>1, <3>2, <3>4, ViewIsCensored DEF Relies
    <3>5. CASE answer[h] = [Latest |-> Latest(call[h].net, call[h].dev)]
      BY <3>1, <3>2, <3>3, <3>5 DEF Relies
    <3> QED
      BY <3>1, <3>2, <3>4, <3>5 DEF Relies, AnswerIsTrue
  <2>2. lock \in [Locks -> [writer : Handlers \cup {NoHandler},
                           readers : SUBSET Handlers, blocked : SUBSET Handlers]]
    BY <1>1 DEF LockInv, IsLock
  <2> QED
    BY <1>1, <2>1, <2>2 DEF HandlersTypeOK, LockInv, DataInv
<1> QED
  BY <1>1, HandlersInv, PTL

(* No handler reads or writes a field of the server while another writes   *)
(* it: the two locks are enough, for every mix of requests.                *)
THEOREM NoHandlersRace == HandlersSpec => []NoDataRace
  BY HandlersInv, LocksExclude, PTL

(* A GET answers what is so when it returns, though the body of a patch or *)
(* the wait for latestLock may lie between two of its steps.               *)
THEOREM AnswersAreTrue == HandlersSpec => []AnswersHold
<1>1. ASSUME LockInv, DataInv PROVE AnswersHold
  <2> SUFFICES ASSUME NEW h \in Handlers, pc[h] = "return", answer[h] # NoReport
               PROVE  answer[h] = IF call[h].kind = "spec"
                                  THEN CensorForDevice(AtomicSpec, call[h].net, call[h].dev)
                                  ELSE [Latest |-> Atomic!Latest(call[h].net, call[h].dev)]
    BY DEF AnswersHold
  <2>1. AtomicSpec = spec /\ AtomicLatest = latest
    BY <1>1, NobodyInstalls, AtRest DEF DataInv
  <2>2. AnswerIsTrue(h)
    BY <1>1 DEF DataInv, Relies
  <2> QED
    BY <2>1, <2>2 DEF AnswerIsTrue, Latest, Atomic!Latest
<1> QED
  BY <1>1, HandlersInv, PTL

-----------------------------------------------------------------------------
(* While h installs, it is alone, and the server is as h will leave it.    *)
LEMMA OneInstalls ==
    ASSUME LockInv, NEW h \in Handlers, pc[h] = "install"
    PROVE  /\ Installing = {h}
           /\ AtomicSpec = fresh[h]
           /\ AtomicLatest = [n \in NetworkNames |->
                                 IF n \in todo[h] THEN LatestAfter(n, fresh[h]) ELSE latest[n]]
<1>1. call[h].kind \in WriterKinds
  BY DEF LockInv, KindsAt, WriterKinds
<1>2. Installing = {h}
  BY <1>1, WritersExclude DEF Installing
<1>3. AtomicSpec = fresh[h]
  BY <1>2 DEF AtomicSpec
<1> QED
  BY <1>2, <1>3 DEF AtomicLatest

(* The server as it looks stays so while nobody starts or stops installing *)
(* and the fields of the server do not change.                             *)
LEMMA LooksTheSame ==
    ASSUME UNCHANGED serverVars, Installing' = Installing,
           \A h \in Installing : fresh'[h] = fresh[h] /\ todo'[h] = todo[h]
    PROVE  UNCHANGED <<AtomicSpec, AtomicLatest, confirmed>>
<1>1. AtomicSpec' = AtomicSpec
  BY DEF AtomicSpec, serverVars
<1>2. \A n, s : LatestAfter(n, s)' = LatestAfter(n, s)
  BY DEF LatestAfter, Keep, serverVars
<1> QED
  BY <1>1, <1>2 DEF AtomicLatest, serverVars

(* The operators of NetSpec are those of the abstract server too.          *)
LEMMA SameViews ==
    ASSUME NEW s, NEW n, NEW d
    PROVE  /\ Atomic!CensorForDevice(s, n, d) = CensorForDevice(s, n, d)
           /\ Atomic!Known(s, n, d) <=> Known(s, n, d)
           /\ Atomic!Clone(s) = Clone(s)
  BY DEF CensorForDevice, Atomic!CensorForDevice, Known, Atomic!Known, Clone, Atomic!Clone,
         Visible, Atomic!Visible, Censored, Atomic!Censored, CloneDevice, Atomic!CloneDevice

(* At rest, the abstract server installs what the server would.            *)
LEMMA SameUpdate ==
    ASSUME AtomicSpec = spec, AtomicLatest = latest, NEW n, NEW s
    PROVE  Atomic!LatestAfter(n, s) = LatestAfter(n, s)
  BY SameViews DEF LatestAfter, Atomic!LatestAfter, Keep, Atomic!Keep, SliceUnion, Atomic!SliceUnion,
                   Empty, Atomic!Empty

(* Entering latestLock with a new specification is the update: from then   *)
(* on nobody else sees anything until it is installed.                     *)
LEMMA EnteringUpdates ==
    ASSUME DataInv, LockInv, NEW h \in Handlers, EntersLatest(h),
           call[h].kind \in {"patch", "update"}
    PROVE  Atomic!SomePatch \/ Atomic!SomeUpdate
<1> DEFINE n == call[h].net
           d == call[h].dev
<1>1. /\ pc[h] = "latestLock" /\ pc' = [pc EXCEPT ![h] = "install"]
      /\ todo' = [todo EXCEPT ![h] = DOMAIN spec] /\ UNCHANGED <<serverVars, call, fresh>>
  BY DEF EntersLatest, Goto
<1>2. TypeOK /\ Relies(h) /\ IsCall(call[h]) /\ todo \in [Handlers -> SUBSET NetworkNames]
      /\ pc \in [Handlers -> Steps]
  BY DEF DataInv, LockInv
<1>3. Installing = {} /\ AtomicSpec = spec /\ AtomicLatest = latest
  BY <1>1, <1>2, NobodyInstalls, AtRest
<1>4. Installing' = {h} /\ todo'[h] = DOMAIN spec
  BY <1>1, <1>2, <1>3 DEF Installing
<1>5. /\ AtomicSpec' = fresh[h]
      /\ AtomicLatest' = [m \in NetworkNames |->
                            IF m \in DOMAIN spec THEN LatestAfter(m, fresh[h])' ELSE latest[m]]
  <2>1. AtomicSpec' = fresh[h]
    BY <1>1, <1>4 DEF AtomicSpec
  <2> QED
    BY <1>1, <1>4, <2>1 DEF AtomicLatest, serverVars
<1>6. \A m : LatestAfter(m, fresh[h])' = LatestAfter(m, fresh[h])
  BY <1>1 DEF LatestAfter, Keep, serverVars
<1>7. \A m \in NetworkNames \ DOMAIN spec : LatestAfter(m, fresh[h]) = latest[m]
  BY DEF LatestAfter
<1>8. Atomic!UpdateSpecNoLock(fresh[h])
  BY <1>1, <1>3, <1>5, <1>6, <1>7, SameUpdate DEF Atomic!UpdateSpecNoLock, serverVars
<1>9. CASE call[h].kind = "update"
  <2>1. fresh[h] = call[h].body /\ call[h].body \in NewSpecs
    BY <1>1, <1>2, <1>9 DEF Relies, HasNewSpec, IsCall, NoCall, ReaderKinds
  <2> QED
    BY <1>8, <2>1 DEF Atomic!SomeUpdate, Atomic!UpdateSpec
<1>10. CASE call[h].kind = "patch"
  <2> DEFINE i == <<n, d>>
             req == call[h].body
  <2>1. /\ PatchAccepted(n, d, req) /\ fresh[h] = PatchedSpec(n, d, req)
        /\ i \in Identities /\ req \in PatchRequests
    BY <1>1, <1>2, <1>10 DEF Relies, HasNewSpec, IsCall, NoCall, ReaderKinds
  <2>2. Atomic!PatchAccepted(n, d, req)
    BY <1>3, <2>1, SameViews DEF PatchAccepted, Admitted, Atomic!PatchAccepted, Atomic!Admitted
  <2>3. Atomic!PatchedSpec(n, d, req) = PatchedSpec(n, d, req)
    BY <1>3, SameViews DEF PatchedSpec, Atomic!PatchedSpec, PatchedDevice, Atomic!PatchedDevice
  <2>4. Atomic!PatchReifySpec(n, d, req)
    BY <1>8, <2>1, <2>2, <2>3 DEF Atomic!PatchReifySpec
  <2>5. i[1] = n /\ i[2] = d
    OBVIOUS
  <2> HIDE DEF n, d, i, req
  <2> QED
    BY <2>1, <2>4, <2>5 DEF Atomic!SomePatch
<1> QED
  BY <1>9, <1>10

(* Setting the lists one by one shows nobody anything.                     *)
LEMMA SettingListsStutters ==
    ASSUME DataInv, LockInv, NEW h \in Handlers, NEW n \in NetworkNames, SetsList(h, n)
    PROVE  UNCHANGED <<AtomicSpec, AtomicLatest, confirmed>>
<1>1. /\ pc[h] = "install" /\ n \in todo[h] /\ UNCHANGED <<spec, confirmed, pc, call, fresh>>
      /\ latest' = [latest EXCEPT ![n] = LatestAfter(n, fresh[h])]
      /\ todo' = [todo EXCEPT ![h] = @ \ {n}]
  BY DEF SetsList
<1>2. TypeOK /\ todo \in [Handlers -> SUBSET NetworkNames] /\ latest \in [NetworkNames -> [DeviceNames -> 0..MaxCopies]]
  BY DEF DataInv, TypeOK
<1>3. /\ latest'[n] = LatestAfter(n, fresh[h])
      /\ \A m \in NetworkNames \ {n} : latest'[m] = latest[m]
      /\ todo'[h] = todo[h] \ {n}
  BY <1>1, <1>2
<1>4. Installing = {h} /\ Installing' = {h}
  BY <1>1, OneInstalls DEF Installing
<1>5. AtomicSpec = fresh[h] /\ AtomicSpec' = fresh[h]
  BY <1>1, <1>4 DEF AtomicSpec
<1>6. \A m \in NetworkNames \ {n} : LatestAfter(m, fresh[h])' = LatestAfter(m, fresh[h])
  BY <1>1, <1>3 DEF LatestAfter, Keep
<1>7. AtomicLatest' = [m \in NetworkNames |->
                         IF m \in todo'[h] THEN LatestAfter(m, fresh[h])' ELSE latest'[m]]
  BY <1>1, <1>4, <1>5 DEF AtomicLatest
<1>8. AtomicLatest = [m \in NetworkNames |->
                         IF m \in todo[h] THEN LatestAfter(m, fresh[h]) ELSE latest[m]]
  BY <1>4, <1>5 DEF AtomicLatest
<1> QED
  BY <1>1, <1>3, <1>5, <1>6, <1>7, <1>8

(* The last step of an update shows nobody anything either.                *)
LEMMA PublishingStutters ==
    ASSUME DataInv, LockInv, NEW h \in Handlers, Publishes(h)
    PROVE  UNCHANGED <<AtomicSpec, AtomicLatest, confirmed>>
<1>1. /\ pc[h] = "install" /\ todo[h] = {} /\ spec' = fresh[h] /\ UNCHANGED <<latest, confirmed>>
      /\ pc' = [pc EXCEPT ![h] = "return"]
  BY DEF Publishes, Goto
<1>2. /\ Installing = {h} /\ AtomicSpec = fresh[h]
      /\ AtomicLatest = [n \in NetworkNames |-> latest[n]]
  BY <1>1, OneInstalls
<1>3. Installing' = {}
  BY <1>1, <1>2 DEF Installing, LockInv
<1>4. AtomicSpec' = spec' /\ AtomicLatest' = [n \in NetworkNames |-> latest'[n]]
  BY <1>3 DEF AtomicSpec, AtomicLatest
<1> QED
  BY <1>1, <1>2, <1>4

(* A report is accepted in one step.                                       *)
LEMMA AppendingPosts ==
    ASSUME DataInv, LockInv, NEW h \in Handlers, Appends(h)
    PROVE  Atomic!SomePost
<1> DEFINE n == call[h].net
           d == call[h].dev
           r == call[h].body
           i == <<n, d>>
<1>1. PostMatching(n, d, r) /\ TypeOK /\ TypeOK' /\ LockInv'
  BY AppendsIsPost, DataWriting, LocksKept DEF DataInv
<1>2. pc[h] = "append" /\ pc' = [pc EXCEPT ![h] = "return"]
  BY DEF Appends, Goto
<1>3. Installing = {} /\ Installing' = {}
  BY <1>2, NobodyInstalls DEF Installing, LockInv
<1>4. AtomicSpec = spec /\ AtomicLatest = latest
  BY <1>1, <1>3, AtRest
<1>5. AtomicSpec' = spec' /\ AtomicLatest' = latest'
  BY <1>1, <1>3 DEF AtomicSpec, AtomicLatest, TypeOK
<1>6. Atomic!PostMatching(n, d, r)
  BY <1>1, <1>4, <1>5, SameViews DEF PostMatching, Admitted, Atomic!PostMatching, Atomic!Admitted
<1>7. r \in Atomic!Report(n, d) /\ i \in Identities
  BY <1>1, <1>4, SameViews DEF PostMatching, Admitted, Atomic!Report
<1>8. i[1] = n /\ i[2] = d
  OBVIOUS
<1> HIDE DEF n, d, i, r
<1> QED
  BY <1>6, <1>7, <1>8 DEF Atomic!SomePost, Atomic!PostReifyStatus

(* Every other step shows nobody anything.                                 *)
LEMMA TheRestStutters ==
    ASSUME DataInv, LockInv, NEW h \in Handlers,
           \/ SomeCall(h) \/ (\E l \in Locks : Asks(h, l))
           \/ EntersSpec(h) \/ NotFound(h) \/ Found(h) \/ ReadsView(h)
           \/ BodyBreaks(h) \/ PatchBody(h) \/ PostBody(h)
           \/ EntersLatest(h) /\ call[h].kind \notin {"patch", "update"}
           \/ ReadsList(h) \/ UnlocksLatest(h) \/ UnlocksSpec(h)
    PROVE  UNCHANGED <<AtomicSpec, AtomicLatest, confirmed>>
<1>1. pc \in [Handlers -> Steps] /\ DOMAIN fresh = Handlers /\ fresh = [g \in Handlers |-> fresh[g]]
      /\ call[h].kind \in KindsAt(pc[h])
  BY DEF LockInv, DataInv
<1>2. /\ UNCHANGED <<serverVars, todo>> /\ pc[h] # "install"
      /\ pc' = pc \/ \E s \in Steps \ {"install"} : pc' = [pc EXCEPT ![h] = s]
      /\ fresh' = fresh \/ \E v : fresh' = [fresh EXCEPT ![h] = v]
  <2>1. CASE SomeCall(h)
    <3>1. PICK c : Arrives(h, c)
      BY <2>1, CallsAreCalls DEF DataInv, TypeOK
    <3> QED
      BY <3>1 DEF Arrives, Goto, Steps
  <2>2. CASE \E l \in Locks : Asks(h, l)
    BY <2>2 DEF Asks, Locks
  <2>3. CASE EntersSpec(h)
    BY <2>3 DEF EntersSpec, Goto, Steps
  <2>4. CASE NotFound(h) \/ ReadsView(h) \/ BodyBreaks(h) \/ ReadsList(h)
    BY <2>4 DEF NotFound, ReadsView, BodyBreaks, ReadsList, Goto, Steps
  <2>5. CASE Found(h)
    BY <1>1, <2>5 DEF Found, Goto, Steps, KindsAt
  <2>6. CASE PatchBody(h)
    BY <2>6 DEF PatchBody, Goto, Steps
  <2>7. CASE PostBody(h)
    BY <2>7 DEF PostBody, Goto, Steps
  <2>8. CASE EntersLatest(h) /\ call[h].kind \notin {"patch", "update"}
    BY <1>1, <2>8 DEF EntersLatest, Goto, Steps, KindsAt
  <2>9. CASE UnlocksLatest(h) \/ UnlocksSpec(h)
    BY <2>9 DEF UnlocksLatest, UnlocksSpec, Goto, Steps
  <2> QED
    BY <2>1, <2>2, <2>3, <2>4, <2>5, <2>6, <2>7, <2>8, <2>9
<1>3. Installing' = Installing
  BY <1>1, <1>2 DEF Installing
<1>4. \A g \in Installing : fresh'[g] = fresh[g] /\ todo'[g] = todo[g]
  BY <1>1, <1>2 DEF Installing
<1> QED
  BY <1>2, <1>3, <1>4, LooksTheSame

(* Every step of a handler is one of CoordServer, or none.                 *)
LEMMA AtomicStep ==
    DataInv /\ LockInv /\ [HandlersNext]_vars => [Atomic!Next]_Atomic!serverVars
<1> SUFFICES ASSUME DataInv, LockInv, [HandlersNext]_vars
             PROVE  Atomic!Next \/ UNCHANGED <<AtomicSpec, AtomicLatest, confirmed>>
  BY DEF Atomic!serverVars
<1>1. ASSUME NEW h \in Handlers, SomeCall(h) \/ (\E l \in Locks : Asks(h, l))
      PROVE  UNCHANGED <<AtomicSpec, AtomicLatest, confirmed>>
  BY <1>1, TheRestStutters
<1>2. ASSUME NEW h \in Handlers, Goes(h)
      PROVE  Atomic!Next \/ UNCHANGED <<AtomicSpec, AtomicLatest, confirmed>>
  <2>1. CASE EntersLatest(h) /\ call[h].kind \in {"patch", "update"}
    BY <2>1, EnteringUpdates DEF Atomic!Next
  <2>2. CASE Appends(h)
    BY <2>2, AppendingPosts DEF Atomic!Next
  <2>3. CASE (\E n \in NetworkNames : SetsList(h, n)) \/ Publishes(h)
    BY <2>3, SettingListsStutters, PublishingStutters
  <2>4. CASE \/ EntersSpec(h) \/ NotFound(h) \/ Found(h) \/ ReadsView(h)
             \/ BodyBreaks(h) \/ PatchBody(h) \/ PostBody(h)
             \/ EntersLatest(h) /\ call[h].kind \notin {"patch", "update"}
             \/ ReadsList(h) \/ UnlocksLatest(h) \/ UnlocksSpec(h)
    BY <2>4, TheRestStutters
  <2> QED
    BY <1>2, <2>1, <2>2, <2>3, <2>4 DEF Goes
<1>3. CASE RestartsAll
  <2>1. Restart /\ \A h \in Handlers : pc'[h] = "idle"
    BY <1>3 DEF RestartsAll
  <2>2. Installing' = {}
    BY <2>1 DEF Installing
  <2>3. AtomicSpec' = spec' /\ AtomicLatest' = [n \in NetworkNames |-> latest'[n]]
    BY <2>2 DEF AtomicSpec, AtomicLatest
  <2>4. Atomic!Restart
    BY <2>1, <2>3 DEF Restart, Boot, Empty, NoReport,
                      Atomic!Restart, Atomic!Boot, Atomic!Empty, Atomic!NoReport
  <2> QED
    BY <2>4 DEF Atomic!Next
<1>4. CASE UNCHANGED vars
  BY <1>4, LooksTheSame DEF vars, handlerVars, Installing
<1> QED
  BY <1>1, <1>2, <1>3, <1>4 DEF HandlersNext

(* However requests overlap, the server does what it would do if it served *)
(* them one after another: it implements CoordServer.                      *)
THEOREM HandlersAreAtomic == HandlersSpec => ServerIsAtomic
<1>1. HandlersInit => Atomic!Init
  <2> SUFFICES ASSUME HandlersInit PROVE Atomic!Init
    OBVIOUS
  <2>1. Installing = {} /\ Init
    BY DEF HandlersInit, Installing
  <2>2. AtomicSpec = spec /\ AtomicLatest = [n \in NetworkNames |-> latest[n]]
    BY <2>1 DEF AtomicSpec, AtomicLatest
  <2> QED
    BY <2>1, <2>2 DEF Init, Boot, Empty, NoReport, Atomic!Init, Atomic!Boot, Atomic!Empty, Atomic!NoReport
<1> QED
  BY <1>1, AtomicStep, HandlersInv, PTL DEF HandlersSpec, ServerIsAtomic, Atomic!Spec
=============================================================================
