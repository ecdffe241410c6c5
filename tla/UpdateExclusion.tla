--------------------------- MODULE UpdateExclusion ---------------------------
(***************************************************************************)
(* What GroupUpdater.executeUpdate promises of one subscription group:     *)
(* whatever tasks of whatever processes ask for an update, one of them at  *)
(* a time holds the group.  How a holder gives the group up (success,      *)
(* failure, cancellation, death of its process) is left open.              *)
(***************************************************************************)
CONSTANT Tasks

VARIABLE holders   \* the tasks that may write the group

Init == holders = {}

Acquire(t) == holders = {} /\ holders' = {t}

Release == holders # {} /\ holders' = {}

Next == (\E t \in Tasks : Acquire(t)) \/ Release

Spec == Init /\ [][Next]_holders
=============================================================================
