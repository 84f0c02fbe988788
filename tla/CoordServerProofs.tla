-------------------------- MODULE CoordServerProofs --------------------------
(***************************************************************************)
(* For every set of networks, devices, tokens and requests: the server's   *)
(* state keeps its type, its latest lists name only devices whose last     *)
(* accepted report is what they are shown, and it implements StatusBoard.  *)
(***************************************************************************)
EXTENDS CoordServer, TLAPS

Ids == NetworkNames \X DeviceNames

-----------------------------------------------------------------------------
(* Clone keeps the shape of a specification, and which devices it has.     *)
LEMMA CloneIsSpec ==
    ASSUME NEW s, IsSpec(s)
    PROVE  /\ IsSpec(Clone(s))
           /\ DOMAIN Clone(s) = DOMAIN s
           /\ \A n \in DOMAIN s : DOMAIN Clone(s)[n] = DOMAIN s[n]
<1>1. ASSUME NEW n \in DOMAIN s, NEW d \in DOMAIN s[n]
      PROVE  CloneDevice(s[n][d]) \in NetworkDevice
  <2> DEFINE nd == s[n][d]
  <2>1. nd \in NetworkDevice
    BY DEF IsSpec, IsNetwork
  <2> HIDE DEF nd
  <2>2. CloneDevice(nd) \in NetworkDevice
    BY <2>1 DEF NetworkDevice, CloneDevice
  <2> QED
    BY <2>2 DEF nd
<1>2. ASSUME NEW n \in DOMAIN s
      PROVE  Clone(s)[n] = [d \in DOMAIN s[n] |-> CloneDevice(s[n][d])]
  BY DEF Clone
<1>3. ASSUME NEW n \in DOMAIN s PROVE IsNetwork(Clone(s)[n])
  <2> DEFINE sn == [d \in DOMAIN s[n] |-> CloneDevice(s[n][d])]
  <2>1. DOMAIN s[n] \subseteq DeviceNames
    BY DEF IsSpec, IsNetwork
  <2>2. DOMAIN sn = DOMAIN s[n] /\ sn \in [DOMAIN s[n] -> NetworkDevice]
    BY <1>1
  <2> HIDE DEF sn
  <2>3. IsNetwork(sn)
    BY <2>1, <2>2 DEF IsNetwork
  <2> QED
    BY <1>2, <2>3 DEF sn
<1> QED
  BY <1>2, <1>3 DEF IsSpec, Clone

(* Setting fields of one device leaves a specification one.                *)
LEMMA PatchedIsSpec ==
    ASSUME IsSpec(spec), NEW n, NEW d, Known(spec, n, d),
           NEW req \in PatchReifySpecRequest
    PROVE  IsSpec(PatchedSpec(n, d, req))
<1> DEFINE c == Clone(spec)
           p == PatchedDevice(c[n][d], req)
<1>1. /\ IsSpec(c)
      /\ n \in DOMAIN c
      /\ d \in DOMAIN c[n]
  BY CloneIsSpec DEF Known
<1>2. p \in NetworkDevice
  <2>1. c[n][d] \in NetworkDevice
    BY <1>1 DEF IsSpec, IsNetwork
  <2> HIDE DEF c
  <2> QED
    BY <2>1 DEF PatchedDevice, PatchReifySpecRequest, NetworkDevice
<1> HIDE DEF p, c
<1>3. IsSpec([c EXCEPT ![n] = [@ EXCEPT ![d] = p]])
  BY <1>1, <1>2 DEF IsSpec, IsNetwork
<1> QED
  BY <1>3, Zenon DEF PatchedSpec, p, c

(* What a device is sent is a censored network.                            *)
LEMMA ViewIsCensored ==
    ASSUME NEW s, IsSpec(s), NEW n, NEW d, Known(s, n, d)
    PROVE  IsNetworkCensored(CensorForDevice(s, n, d))
<1> DEFINE devices == [p \in Visible(s[n], d) |-> Censored(s[n][p])]
<1>1. Visible(s[n], d) \subseteq DOMAIN s[n]
  BY DEF Visible
<1>2. ASSUME NEW p \in Visible(s[n], d) PROVE Censored(s[n][p]) \in NetworkDeviceCensored
  BY <1>1, <1>2 DEF IsSpec, IsNetwork, Known, NetworkDevice, Censored, NetworkDeviceCensored
<1>3. /\ DOMAIN devices \subseteq DeviceNames
      /\ devices \in [DOMAIN devices -> NetworkDeviceCensored]
  BY <1>1, <1>2 DEF IsSpec, IsNetwork, Known
<1>4. n \in NetworkNames /\ d \in DeviceNames
  BY DEF IsSpec, IsNetwork, Known
<1> QED
  BY <1>3, <1>4 DEF CensorForDevice, IsNetworkCensored

(* An update leaves every list a list of counts.                           *)
LEMMA LatestAfterType ==
    ASSUME NEW n \in NetworkNames, NEW newSpec,
           latest[n] \in [DeviceNames -> 0..MaxCopies]
    PROVE  LatestAfter(n, newSpec) \in [DeviceNames -> 0..MaxCopies]
<1>1. 0 \in 0..MaxCopies /\ 1 \in 0..MaxCopies
  BY CoordAssumption
<1> QED
  BY <1>1 DEF LatestAfter, Empty, SliceUnion
-----------------------------------------------------------------------------
(* A fresh server has the right type.                                      *)
LEMMA TypeInit == Init => TypeOK
<1>1. 0 \in 0..MaxCopies
  BY CoordAssumption
<1> QED
  BY <1>1, CoordAssumption DEF Init, Boot, TypeOK, Empty

(* Installing a specification keeps the type.                              *)
LEMMA TypeUpdate ==
    ASSUME TypeOK, NEW newSpec, IsSpec(newSpec), UpdateSpecNoLock(newSpec)
    PROVE  TypeOK'
<1>1. latest' \in [NetworkNames -> [DeviceNames -> 0..MaxCopies]]
  BY LatestAfterType DEF TypeOK, UpdateSpecNoLock
<1> QED
  BY <1>1 DEF TypeOK, UpdateSpecNoLock

(* Every step keeps the type.                                              *)
LEMMA TypeStep == TypeOK /\ [Next]_serverVars => TypeOK'
<1> SUFFICES ASSUME TypeOK, [Next]_serverVars PROVE TypeOK'
  OBVIOUS
<1>1. CASE SomePatch
  <2>1. PICK i \in Identities, req \in PatchRequests : PatchReifySpec(i[1], i[2], req)
    BY <1>1 DEF SomePatch
  <2>2. IsSpec(PatchedSpec(i[1], i[2], req))
    BY <2>1, PatchedIsSpec, CoordAssumption
       DEF TypeOK, PatchReifySpec, PatchAccepted, Admitted
  <2> QED
    BY <2>1, <2>2, TypeUpdate DEF PatchReifySpec
<1>2. CASE SomePost
  <2>1. PICK i \in Identities : \E r \in Report(i[1], i[2]) : PostReifyStatus(i[1], i[2], r)
    BY <1>2 DEF SomePost
  <2>2. PICK r : PostReifyStatus(i[1], i[2], r)
    BY <2>1
  <2>3. CASE PostMatching(i[1], i[2], r)
    <3>1. Known(spec, i[1], i[2]) /\ IsNetworkCensored(r)
      BY <2>3, ViewIsCensored DEF PostMatching, Admitted, TypeOK
    <3>2. ASSUME NEW k \in 0..MaxCopies
          PROVE  (IF k < MaxCopies THEN k + 1 ELSE k) \in 0..MaxCopies
      BY CoordAssumption
    <3>3. latest' \in [NetworkNames -> [DeviceNames -> 0..MaxCopies]]
      <4>1. latest \in [NetworkNames -> [DeviceNames -> 0..MaxCopies]]
        BY DEF TypeOK
      <4>2. latest' = [latest EXCEPT ![i[1]][i[2]] = IF @ < MaxCopies THEN @ + 1 ELSE @]
        BY <2>3 DEF PostMatching
      <4>3. ASSUME NEW f \in [DeviceNames -> 0..MaxCopies], NEW d
            PROVE  [f EXCEPT ![d] = IF @ < MaxCopies THEN @ + 1 ELSE @] \in [DeviceNames -> 0..MaxCopies]
        BY <3>2
      <4> QED
        BY <4>1, <4>2, <4>3
    <3> QED
      BY <2>3, <3>1, <3>3 DEF PostMatching, TypeOK
  <2>4. CASE PostDiffering(i[1], i[2], r)
    BY <2>4 DEF PostDiffering, serverVars, TypeOK
  <2> QED
    BY <2>2, <2>3, <2>4 DEF PostReifyStatus
<1>3. CASE SomeUpdate
  BY <1>3, TypeUpdate, CoordAssumption DEF SomeUpdate, UpdateSpec
<1>4. CASE Restart
  <2>1. 0 \in 0..MaxCopies
    BY CoordAssumption
  <2> QED
    BY <1>4, <2>1, CoordAssumption DEF Restart, Boot, TypeOK, Empty
<1>5. CASE UNCHANGED serverVars
  BY <1>5 DEF serverVars, TypeOK
<1> QED
  BY <1>1, <1>2, <1>3, <1>4, <1>5 DEF Next

(* Requests and restarts leave a well-formed specification, lists of       *)
(* counts and well-formed reports.                                         *)
THEOREM TypeCorrect == Spec => []TypeOK
  BY TypeInit, TypeStep, PTL DEF Spec

-----------------------------------------------------------------------------
(* NoReport is not a report, so a known device is shown something.         *)
LEMMA ViewIsAReport ==
    ASSUME NEW s, NEW n, NEW d
    PROVE  CensorForDevice(s, n, d) # NoReport
<1>1. "Name" \in DOMAIN CensorForDevice(s, n, d)
  BY DEF CensorForDevice
<1>2. "Name" \notin DOMAIN NoReport
  BY DEF NoReport
<1> QED
  BY <1>1, <1>2

(* What updateSpecNoLock does to one device: the device is listed          *)
(* afterwards exactly when it was listed, is known before and after, and   *)
(* is shown the same before and after.                                     *)
LEMMA ListedAfterUpdate ==
    ASSUME TypeOK, LatestConfirmed, NEW newSpec, UpdateSpecNoLock(newSpec),
           NEW n \in NetworkNames, NEW d \in DeviceNames
    PROVE  Latest(n, d)' <=>
             /\ Latest(n, d)
             /\ Known(newSpec, n, d)
             /\ CensorForDevice(newSpec, n, d) = CensorForDevice(spec, n, d)
<1>1. latest'[n] = LatestAfter(n, newSpec)
  BY DEF UpdateSpecNoLock
<1>2. Latest(n, d) => Known(spec, n, d)
  BY DEF LatestConfirmed
<1>3. CASE n \in DOMAIN spec \ DOMAIN newSpec
  <2>1. latest'[n] = Empty
    BY <1>1, <1>3 DEF LatestAfter
  <2> QED
    BY <2>1, <1>3 DEF Latest, Empty, Known
<1>4. CASE n \in DOMAIN spec \cap DOMAIN newSpec
  <2>1. latest'[n] = SliceUnion(Keep(n, newSpec), latest[n])
    BY <1>1, <1>4 DEF LatestAfter
  <2>2. latest'[n][d] > 0 <=> d \in Keep(n, newSpec) /\ latest[n][d] > 0
    BY <2>1 DEF SliceUnion
  <2> QED
    BY <2>2, <1>2, <1>4 DEF Latest, Keep, Known
<1>5. CASE n \notin DOMAIN spec
  <2>1. latest'[n] = latest[n]
    BY <1>1, <1>5 DEF LatestAfter
  <2>2. ~Latest(n, d)
    BY <1>2, <1>5 DEF Known
  <2> QED
    BY <2>1, <2>2 DEF Latest
<1> QED
  BY <1>3, <1>4, <1>5

(* A fresh server lists nobody.                                            *)
LEMMA ConfirmedInit == Init => LatestConfirmed
  BY DEF Init, LatestConfirmed, Latest, Empty

(* An update lists only devices whose confirmed view is still the one they *)
(* are shown.                                                              *)
LEMMA ConfirmedUpdate ==
    ASSUME TypeOK, LatestConfirmed, NEW newSpec, UpdateSpecNoLock(newSpec)
    PROVE  LatestConfirmed'
<1> SUFFICES ASSUME NEW n \in NetworkNames, NEW d \in DeviceNames, Latest(n, d)'
             PROVE  Known(spec', n, d) /\ confirmed'[<<n, d>>] = CensorForDevice(spec', n, d)
  BY DEF LatestConfirmed, Latest
<1>1. spec' = newSpec /\ confirmed' = confirmed
  BY DEF UpdateSpecNoLock
<1>2. /\ Latest(n, d)
      /\ Known(newSpec, n, d)
      /\ CensorForDevice(newSpec, n, d) = CensorForDevice(spec, n, d)
  BY ListedAfterUpdate
<1> QED
  BY <1>1, <1>2 DEF LatestConfirmed

(* A matching report lists a device and records the very view it confirms. *)
LEMMA ConfirmedPost ==
    ASSUME TypeOK, LatestConfirmed, NEW n, NEW d, NEW r, PostMatching(n, d, r)
    PROVE  LatestConfirmed'
<1>1. n \in NetworkNames /\ d \in DeviceNames /\ Known(spec, n, d)
  BY CoordAssumption DEF PostMatching, Admitted
<1>2. spec' = spec
  BY DEF PostMatching
<1> SUFFICES ASSUME NEW m \in NetworkNames, NEW e \in DeviceNames, latest'[m][e] > 0
             PROVE  Known(spec, m, e) /\ confirmed'[<<m, e>>] = CensorForDevice(spec, m, e)
  BY <1>2 DEF LatestConfirmed, Latest
<1>3. CASE m = n /\ e = d
  BY <1>1, <1>3 DEF PostMatching, TypeOK
<1>4. CASE ~(m = n /\ e = d)
  <2>1. latest'[m][e] = latest[m][e]
    BY <1>1, <1>4 DEF PostMatching, TypeOK
  <2>2. confirmed'[<<m, e>>] = confirmed[<<m, e>>]
    BY <1>1, <1>4 DEF PostMatching, TypeOK
  <2> QED
    BY <2>1, <2>2 DEF LatestConfirmed, Latest
<1> QED
  BY <1>3, <1>4

(* Every step leaves only confirmed devices listed.                        *)
LEMMA ConfirmedStep ==
    TypeOK /\ LatestConfirmed /\ [Next]_serverVars => LatestConfirmed'
<1> SUFFICES ASSUME TypeOK, LatestConfirmed, [Next]_serverVars
             PROVE  LatestConfirmed'
  OBVIOUS
<1>1. CASE SomePatch
  BY <1>1, ConfirmedUpdate DEF SomePatch, PatchReifySpec
<1>2. CASE SomePost
  <2>1. PICK i, r : PostReifyStatus(i[1], i[2], r)
    BY <1>2 DEF SomePost
  <2>2. CASE PostMatching(i[1], i[2], r)
    BY <2>2, ConfirmedPost
  <2>3. CASE PostDiffering(i[1], i[2], r)
    BY <2>3 DEF PostDiffering, serverVars, LatestConfirmed, Latest
  <2> QED
    BY <2>1, <2>2, <2>3 DEF PostReifyStatus
<1>3. CASE SomeUpdate
  BY <1>3, ConfirmedUpdate DEF SomeUpdate, UpdateSpec
<1>4. CASE Restart
  BY <1>4 DEF Restart, LatestConfirmed, Latest, Empty
<1>5. CASE UNCHANGED serverVars
  BY <1>5 DEF serverVars, LatestConfirmed, Latest
<1> QED
  BY <1>1, <1>2, <1>3, <1>4, <1>5 DEF Next

(* Whoever the server lists as latest exists and last reported, in a       *)
(* report that was accepted, exactly the view it would be sent now.        *)
THEOREM LatestIsConfirmed == Spec => []LatestConfirmed
<1>1. Init => TypeOK /\ LatestConfirmed
  BY TypeInit, ConfirmedInit
<1>2. TypeOK /\ LatestConfirmed /\ [Next]_serverVars => TypeOK' /\ LatestConfirmed'
  BY TypeStep, ConfirmedStep
<1> QED
  BY <1>1, <1>2, PTL DEF Spec

-----------------------------------------------------------------------------
ShownToAll == [i \in Ids |-> ShownTo(i)]
Listed == {i \in Ids : Latest(i[1], i[2])}

(* The mapped variables, one at a time, before and after a step.           *)
LEMMA Mapping ==
    ASSUME NEW n \in NetworkNames, NEW d \in DeviceNames
    PROVE  /\ <<n, d>> \in Ids
           /\ ShownToAll[<<n, d>>] = ShownTo(<<n, d>>)
           /\ (ShownToAll[<<n, d>>] = ShownTo(<<n, d>>))'
           /\ <<n, d>> \in Listed <=> Latest(n, d)
           /\ (<<n, d>> \in Listed <=> Latest(n, d))'
  BY DEF Ids, ShownToAll, Listed

(* A fresh server is a fresh board.                                        *)
LEMMA BoardInit == Init => Board!Init
  BY DEF Init, Board!Init, Board!IsViews, Latest, Empty

(* Installing a specification publishes it.                                *)
LEMMA UpdatePublishes ==
    ASSUME TypeOK, LatestConfirmed, NEW newSpec, UpdateSpecNoLock(newSpec)
    PROVE  Board!Publish
<1>1. Listed' = {i \in Listed : ShownToAll'[i] = ShownToAll[i]}
  <2>1. ASSUME NEW n \in NetworkNames, NEW d \in DeviceNames
        PROVE  Latest(n, d)' <=> Latest(n, d) /\ ShownTo(<<n, d>>)' = ShownTo(<<n, d>>)
    <3>1. spec' = newSpec
      BY DEF UpdateSpecNoLock
    <3>2. Latest(n, d) => Known(spec, n, d)
      BY DEF LatestConfirmed
    <3>3. ShownTo(<<n, d>>)' =
            IF Known(newSpec, n, d) THEN CensorForDevice(newSpec, n, d) ELSE NoReport
      BY <3>1 DEF ShownTo
    <3>4. Known(spec, n, d) => ShownTo(<<n, d>>) = CensorForDevice(spec, n, d)
      BY DEF ShownTo
    <3> QED
      BY <3>2, <3>3, <3>4, ListedAfterUpdate, ViewIsAReport
  <2> QED
    BY <2>1 DEF Ids, ShownToAll, Listed
<1>2. UNCHANGED confirmed
  BY DEF UpdateSpecNoLock
<1> QED
  BY <1>1, <1>2 DEF Board!Publish, Board!IsViews, ShownToAll, Listed, Ids

(* A matching report is a confirmation.                                    *)
LEMMA PostConfirms ==
    ASSUME TypeOK, NEW n, NEW d, NEW r, PostMatching(n, d, r)
    PROVE  \E i \in Ids : Board!Confirm(i)
<1>1. n \in NetworkNames /\ d \in DeviceNames /\ Known(spec, n, d)
  BY CoordAssumption DEF PostMatching, Admitted
<1>2. spec' = spec
  BY DEF PostMatching
<1>3. ShownToAll' = ShownToAll
  BY <1>2 DEF ShownToAll, ShownTo
<1>4. ShownToAll[<<n, d>>] = CensorForDevice(spec, n, d)
  BY <1>1, Mapping DEF ShownTo
<1>5. ASSUME NEW m \in NetworkNames, NEW e \in DeviceNames
      PROVE  Latest(m, e)' <=> Latest(m, e) \/ <<m, e>> = <<n, d>>
  BY <1>1, CoordAssumption DEF PostMatching, TypeOK, Latest
<1>6. Listed' = Listed \cup {<<n, d>>}
  BY <1>1, <1>5 DEF Listed, Ids
<1>7. confirmed' = [confirmed EXCEPT ![<<n, d>>] = ShownToAll[<<n, d>>]]
  BY <1>4 DEF PostMatching
<1>8. ShownToAll[<<n, d>>] # NoReport
  BY <1>4, ViewIsAReport
<1>9. <<n, d>> \in Ids
  BY <1>1 DEF Ids
<1> QED
  BY <1>3, <1>6, <1>7, <1>8, <1>9 DEF Board!Confirm, ShownToAll, Listed, Ids

(* Every step of the server is one of the board, or none.                  *)
LEMMA BoardStep ==
    TypeOK /\ LatestConfirmed /\ [Next]_serverVars => [Board!Next]_Board!boardVars
<1> SUFFICES ASSUME TypeOK, LatestConfirmed, [Next]_serverVars
             PROVE  Board!Next \/ UNCHANGED Board!boardVars
  OBVIOUS
<1>1. CASE SomePatch
  BY <1>1, UpdatePublishes DEF SomePatch, PatchReifySpec, Board!Next
<1>2. CASE SomePost
  <2>1. PICK i, r : PostReifyStatus(i[1], i[2], r)
    BY <1>2 DEF SomePost
  <2>2. CASE PostMatching(i[1], i[2], r)
    BY <2>2, PostConfirms DEF Board!Next, Ids
  <2>3. CASE PostDiffering(i[1], i[2], r)
    BY <2>3 DEF PostDiffering, serverVars, Board!boardVars, ShownTo, Latest
  <2> QED
    BY <2>1, <2>2, <2>3 DEF PostReifyStatus
<1>3. CASE SomeUpdate
  BY <1>3, UpdatePublishes DEF SomeUpdate, UpdateSpec, Board!Next
<1>4. CASE Restart
  BY <1>4 DEF Restart, Board!Next, Board!Forget, Board!IsViews, Latest, Empty
<1>5. CASE UNCHANGED serverVars
  BY <1>5 DEF serverVars, Board!boardVars, ShownTo, Latest
<1> QED
  BY <1>1, <1>2, <1>3, <1>4, <1>5 DEF Next

(* The server implements StatusBoard: it lists by reports only, and takes  *)
(* off the lists exactly who is shown something else.                      *)
THEOREM ServerIsABoard == Spec => ServerImplementsBoard
<1>1. TypeOK /\ LatestConfirmed /\ [Next]_serverVars => [Board!Next]_Board!boardVars
  BY BoardStep
<1> QED
  BY BoardInit, <1>1, TypeCorrect, LatestIsConfirmed, PTL
     DEF Spec, ServerImplementsBoard, Board!Spec
=============================================================================
