----------------------------- MODULE StatusBoard -----------------------------
(***************************************************************************)
(* What the coordination server promises about its latest lists: it        *)
(* publishes a view to each device and lists the devices that applied the  *)
(* view they are being shown now.  A device enters the list only by        *)
(* reporting that view, and a publication removes exactly the devices      *)
(* whose view it changes.                                                  *)
(***************************************************************************)
CONSTANTS
    Ids,     \* the devices, whether known or not
    NoView   \* the view of a device the server does not know

VARIABLES
    view,      \* what each device is shown
    current,   \* the devices listed as having applied what they are shown
    confirmed  \* the last report of each device that was accepted

boardVars == <<view, current, confirmed>>

(* What the views are does not matter here.                                *)
IsViews(v) == v = [i \in Ids |-> v[i]]

BoardTypeOK == IsViews(view) /\ current \subseteq Ids /\ IsViews(confirmed)

Init ==
    /\ IsViews(view)
    /\ current = {}
    /\ confirmed = [i \in Ids |-> NoView]

(* A known device reports the view it is shown and is listed.              *)
Confirm(i) ==
    /\ view[i] # NoView
    /\ current' = current \cup {i}
    /\ confirmed' = [confirmed EXCEPT ![i] = view[i]]
    /\ UNCHANGED view

(* New views are published: exactly the devices that see a difference are  *)
(* taken off the list.                                                     *)
Publish ==
    /\ IsViews(view')
    /\ current' = {i \in current : view'[i] = view[i]}
    /\ UNCHANGED confirmed

(* The server loses the list, and everything published since it started.   *)
Forget ==
    /\ IsViews(view')
    /\ current' = {}
    /\ confirmed' = [i \in Ids |-> NoView]

Next == (\E i \in Ids : Confirm(i)) \/ Publish \/ Forget

Spec == Init /\ [][Next]_boardVars

-----------------------------------------------------------------------------
(* Every listed device last reported exactly the view it is shown now,     *)
(* whatever was published in between.                                      *)
CurrentConfirmed == \A i \in current : view[i] # NoView /\ confirmed[i] = view[i]
=============================================================================
