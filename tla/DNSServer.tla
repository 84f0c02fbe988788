------------------------------ MODULE DNSServer ------------------------------
(***************************************************************************)
(* Package dns: the specification handed over by UpdateSpec, and how       *)
(* questions for addresses (type A; all others get an empty answer) are    *)
(* answered from it.                                                       *)
(*                                                                         *)
(* Suffixes are compared with names as text, so a text is a sequence of    *)
(* symbols of which the dot is one; the names of networks and devices have *)
(* a text each.  A client hands over the one network it is for: the view   *)
(* stands for the specification.                                           *)
(***************************************************************************)
EXTENDS NetSpec, SequencesExt

CONSTANTS
    Symbols,  \* what texts are made of
    Dot,      \* the one that separates labels
    Text,     \* the text of each name
    Parents,  \* the configured parents: Suffix, Network and Device
    NoName    \* Network and Device of a parent that has none

IsAlias(parent) == parent.Device # NoName

(* What NewServer checks of its configuration.                             *)
ValidParents ==
    /\ Parents # <<>>
    /\ \A i \in DOMAIN Parents :
         /\ Parents[i].Suffix # <<>> /\ Last(Parents[i].Suffix) # Dot
         /\ Parents[i].Network = NoName <=> Parents[i].Device = NoName
         /\ IsAlias(Parents[i]) <=> Head(Parents[i].Suffix) # Dot
    /\ \A i, j \in DOMAIN Parents : Parents[i].Suffix = Parents[j].Suffix => i = j

ASSUME ParentsAssumption == ValidParents

ASSUME TextsAssumption ==
    /\ Dot \in Symbols
    /\ Text \in [NetworkNames \cup DeviceNames -> Seq(Symbols)]
    /\ \A x, y \in NetworkNames : Text[x] = Text[y] => x = y
    /\ \A x, y \in DeviceNames : Text[x] = Text[y] => x = y
    /\ Parents \in Seq([Suffix : Seq(Symbols),
                        Network : NetworkNames \cup {NoName},
                        Device : DeviceNames \cup {NoName}])

VARIABLE served  \* RPCServer.spec

NotServed == [None |-> TRUE]

DNSInit == served = NotServed

(* RPCServer.UpdateSpec.                                                   *)
UpdateSpec(view) == served' = view

-----------------------------------------------------------------------------
NameError     == [rcode |-> "NXDOMAIN", addresses |-> {}]
ServerFailure == [rcode |-> "SERVFAIL", addresses |-> {}]
Success(as)   == [rcode |-> "NOERROR", addresses |-> as]

(* strings.HasSuffix on the text of the name: the suffix of an alias, that *)
(* has no dot in front, may begin in the middle of a label.                *)
Matches(parent, name) == IsSuffix(parent.Suffix, name)

(* The text before the suffix.                                             *)
TextBefore(parent, name) == SubSeq(name, 1, Len(name) - Len(parent.Suffix))

(* The two parts the name is read as are network n and device d.  An alias *)
(* has both, and any label more is one too many; without, the text before  *)
(* the suffix has to be the device, its only dot, and the network.         *)
AsksFor(parent, name, n, d) ==
    IF IsAlias(parent)
    THEN TextBefore(parent, name) = <<>> /\ n = parent.Network /\ d = parent.Device
    ELSE /\ TextBefore(parent, name) = Text[d] \o <<Dot>> \o Text[n]
         /\ Dot \notin Range(Text[n]) \cup Range(Text[d])

HandleParent(parent, name) ==
    IF served = NotServed THEN ServerFailure
    ELSE LET devices == {d \in DOMAIN served.Devices : AsksFor(parent, name, served.Name, d)}
         IN IF devices = {} THEN NameError
            ELSE Success(UNION {Range(served.Devices[d].Addresses) : d \in devices})

(* handleQuery: the first parent that matches answers, whatever it says.   *)
HandleQuery(name) ==
    LET matching == {i \in DOMAIN Parents : Matches(Parents[i], name)} IN
    IF matching = {} THEN Success({})
    ELSE HandleParent(Parents[Min(matching)], name)
=============================================================================
