---------------------------- MODULE SelectorGroup ----------------------------
(***************************************************************************)
(* What Selector and TrafficStats share: the group of a selector session   *)
(* and the traffic looper's idea of the node in use.  Selector is about    *)
(* how a pick reaches it, TrafficStats about what is counted for it.       *)
(***************************************************************************)
EXTENDS Integers, FiniteSets

CONSTANTS
  Nodes,   \* the members of the selector group
  Main,    \* config.mainEntId, the node the session was started with
  None

ASSUME GroupAssumption == Main \in Nodes /\ None \notin Nodes /\ IsFiniteSet(Nodes)

VARIABLE now   \* TrafficLooper.selectorNowId, None before idMap is filled
=============================================================================
