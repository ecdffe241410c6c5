-------------------------- MODULE MCSessionHelpers --------------------------
(***************************************************************************)
(* GuardedProcessPool and NetworkListener in one run: two helpers of a     *)
(* session that share no state, so a behaviour has the steps of one.       *)
(***************************************************************************)
EXTENDS GuardedProcessPool, NetworkListener

VARIABLE part

InitHelpers == Init /\ InitListener /\ part \in {"pool", "listener"}

Pool == part = "pool" /\ UNCHANGED <<listenerVars, part>>

Listener == part = "listener" /\ UNCHANGED <<vars, part>>

NextHelpers ==
  \/ Next /\ Pool
  \/ NextListener /\ Listener

HelpersSpec ==
  /\ InitHelpers /\ [][NextHelpers]_<<vars, listenerVars, part>>
  /\ \A g \in Guards : WF_vars(Start(g) /\ Pool) /\ WF_vars(Looper(g) /\ Pool)
  /\ WF_vars(Close /\ Pool)
  /\ WF_listenerVars(Actor /\ Listener) /\ WF_listenerVars(Callback /\ Listener)
=============================================================================
