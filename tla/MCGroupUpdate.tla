--------------------------- MODULE MCGroupUpdate ---------------------------
(***************************************************************************)
(* GroupUpdater and SubscriptionMerge in one run.  They share no state     *)
(* (SubscriptionMerge assumes what GroupUpdater is shown to implement), so *)
(* a behaviour has the steps of one of them.                               *)
(***************************************************************************)
EXTENDS GroupUpdater, SubscriptionMerge

VARIABLE part

InitGroup == Init /\ InitMerge /\ part \in {"calls", "merge"}

Calls == part = "calls" /\ UNCHANGED <<mergeVars, part>>

NextGroup ==
  \/ Next /\ Calls
  \/ part = "merge" /\ NextMerge /\ UNCHANGED <<vars, part>>

GroupSpec ==
  /\ InitGroup /\ [][NextGroup]_<<vars, mergeVars, part>>
  /\ \A t \in Tasks : WF_vars(Own(t) /\ Calls)
=============================================================================
