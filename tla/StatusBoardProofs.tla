-------------------------- MODULE StatusBoardProofs --------------------------
(***************************************************************************)
(* A status board never lists a device that last reported something other  *)
(* than what it is shown: proved for all devices and all views.            *)
(***************************************************************************)
EXTENDS StatusBoard, TLAPS

(* CurrentConfirmed alone is inductive once confirmed is known to be a     *)
(* function on all devices.                                                *)
BoardInv == BoardTypeOK /\ CurrentConfirmed

(* The board starts with nobody listed.                                    *)
LEMMA BoardInvInit == Init => BoardInv
  BY DEF Init, BoardInv, BoardTypeOK, IsViews, CurrentConfirmed

(* Each kind of step keeps the invariant: a report records what it         *)
(* confirms, a publication takes off whoever it shows something new.       *)
LEMMA BoardInvStep == BoardInv /\ [Next]_boardVars => BoardInv'
<1> SUFFICES ASSUME BoardInv, [Next]_boardVars PROVE BoardInv'
  OBVIOUS
<1> USE DEF BoardInv, BoardTypeOK, IsViews, CurrentConfirmed
<1>1. ASSUME NEW i \in Ids, Confirm(i) PROVE BoardInv'
  BY <1>1 DEF Confirm
<1>2. CASE Publish
  BY <1>2 DEF Publish
<1>3. CASE Forget
  BY <1>3 DEF Forget
<1>4. CASE UNCHANGED boardVars
  BY <1>4 DEF boardVars
<1> QED
  BY <1>1, <1>2, <1>3, <1>4 DEF Next

(* Whoever is listed has confirmed what it is shown.                       *)
THEOREM BoardConfirmed == Spec => []CurrentConfirmed
<1>1. BoardInv => CurrentConfirmed
  BY DEF BoardInv
<1> QED
  BY BoardInvInit, BoardInvStep, <1>1, PTL DEF Spec
=============================================================================
