-------------------------- MODULE GuardedProcessPool --------------------------
(***************************************************************************)
(* bg/GuardedProcessPool.kt: one pool and the guards of its plugin         *)
(* processes.  start() and close() may run on two different threads (a     *)
(* connection test is started on the IO dispatcher and closed by whoever   *)
(* cancels it), the loopers run on the main thread, and a process may die  *)
(* at any time.  One action is one access of what they share: the pool's   *)
(* Job, the list of guards, a guard's looperStarted and its process.       *)
(***************************************************************************)
EXTENDS Naturals, FiniteSets

CONSTANTS
  Guards,      \* the plugin processes of one launch
  MaxRestarts  \* bound on restarts of each process

ASSUME PoolAssumption == IsFiniteSet(Guards) /\ MaxRestarts \in Nat

VARIABLES
  starter,    \* where start() is with each guard
  guards,     \* the list `guards`
  scope,      \* the pool's Job: "active", "cancelled" or "complete"
  closer,     \* where close() is
  toReap,     \* guards close() has still to look at
  looper,     \* each guard's looper coroutine
  proc,       \* each guard's process
  restarts,   \* how often it was restarted
  fatal       \* guards that posted onFatal

vars == <<starter, guards, scope, closer, toReap, looper, proc, restarts, fatal>>

(* The looper ran its first line, looperStarted = true. *)
LooperStarted(g) == looper[g] \in {"waiting", "exited", "ended"}

(* A child of the pool's Job that has not completed. *)
LooperLives(g) == looper[g] \in {"posted", "dispatched", "waiting", "exited"}

TypeOK ==
  /\ starter \in [Guards -> {"todo", "spawned", "added", "launch", "done"}]
  /\ guards \subseteq {g \in Guards : proc[g] # "none"}  \* lateinit process is set
  /\ scope \in {"active", "cancelled", "complete"}
  /\ closer \in {"idle", "cancelled", "reaping", "joining", "done"}
  /\ toReap \subseteq Guards
  /\ looper \in [Guards -> {"none", "posted", "dispatched", "waiting", "exited",
                            "never", "ended"}]
  /\ proc \in [Guards -> {"none", "alive", "dead"}]
  /\ restarts \in [Guards -> 0..MaxRestarts]
  /\ fatal \subseteq Guards

Init ==
  /\ starter = [g \in Guards |-> "todo"]
  /\ guards = {}
  /\ scope = "active" /\ closer = "idle" /\ toReap = {}
  /\ looper = [g \in Guards |-> "none"]
  /\ proc = [g \in Guards |-> "none"]
  /\ restarts = [g \in Guards |-> 0]
  /\ fatal = {}

-----------------------------------------------------------------------------
(* start(), called for one guard after the other *)

Kill(g) == proc' = [proc EXCEPT ![g] = "dead"]

(* Guard.start *)
Spawn(g) ==
  /\ \A h \in Guards : starter[h] \in {"todo", "done"}
  /\ starter[g] = "todo"
  /\ starter' = [starter EXCEPT ![g] = "spawned"]
  /\ proc' = [proc EXCEPT ![g] = "alive"]
  /\ UNCHANGED <<guards, scope, closer, toReap, looper, restarts, fatal>>

(* Guard.start throws, the caller's launch with it: no later guard is        *)
(* started.                                                                  *)
SpawnFails ==
  /\ \A h \in Guards : starter[h] \in {"todo", "done"}
  /\ \E g \in Guards : starter[g] = "todo"
  /\ starter' = [g \in Guards |-> "done"]
  /\ UNCHANGED <<guards, scope, closer, toReap, looper, proc, restarts, fatal>>

AddGuard(g) ==
  /\ starter[g] = "spawned"
  /\ starter' = [starter EXCEPT ![g] = "added"]
  /\ guards' = guards \cup {g}
  /\ UNCHANGED <<scope, closer, toReap, looper, proc, restarts, fatal>>

(* if (!coroutineContext.isActive) { destroy(); return } *)
CheckActive(g) ==
  /\ starter[g] = "added"
  /\ \/ /\ scope = "active"
        /\ starter' = [starter EXCEPT ![g] = "launch"]
        /\ UNCHANGED proc
     \/ /\ scope # "active"
        /\ starter' = [starter EXCEPT ![g] = "done"]
        /\ Kill(g)
  /\ UNCHANGED <<guards, scope, closer, toReap, looper, restarts, fatal>>

(* launch { looper() }: a child of a cancelled Job never runs. *)
LaunchLooper(g) ==
  /\ starter[g] = "launch"
  /\ starter' = [starter EXCEPT ![g] = "done"]
  /\ looper' = [looper EXCEPT ![g] = IF scope = "active" THEN "posted" ELSE "never"]
  /\ UNCHANGED <<guards, scope, closer, toReap, proc, restarts, fatal>>

Start(g) == Spawn(g) \/ AddGuard(g) \/ CheckActive(g) \/ LaunchLooper(g)

-----------------------------------------------------------------------------
(* Guard.looper, on the main thread *)

(* Mutant: a looper that finds its process dead gives up at once. *)
MutDispatch(g) ==
  /\ looper[g] = "posted"
  /\ looper' = [looper EXCEPT ![g] = IF proc[g] = "alive" THEN "dispatched" ELSE "never"]
  /\ UNCHANGED <<starter, guards, scope, closer, toReap, proc, restarts, fatal>>

(* The dispatched task looks at its Job once before the body runs. *)
Dispatch(g) ==
  /\ looper[g] = "posted"
  /\ looper' = [looper EXCEPT ![g] = IF scope = "active" THEN "dispatched" ELSE "never"]
  /\ UNCHANGED <<starter, guards, scope, closer, toReap, proc, restarts, fatal>>

(* looperStarted = true, and on to the first receive() *)
LooperStart(g) ==
  /\ looper[g] = "dispatched"
  /\ looper' = [looper EXCEPT ![g] = "waiting"]
  /\ UNCHANGED <<starter, guards, scope, closer, toReap, proc, restarts, fatal>>

(* receive() returns the exit code. *)
Receive(g) ==
  /\ looper[g] = "waiting"
  /\ scope = "active" /\ proc[g] = "dead"
  /\ looper' = [looper EXCEPT ![g] = "exited"]
  /\ UNCHANGED <<starter, guards, scope, closer, toReap, proc, restarts, fatal>>

(* The process ran long enough: start it again. *)
Restart(g) ==
  /\ looper[g] = "exited"
  /\ restarts[g] < MaxRestarts
  /\ proc' = [proc EXCEPT ![g] = "alive"]
  /\ looper' = [looper EXCEPT ![g] = "waiting"]
  /\ restarts' = [restarts EXCEPT ![g] = @ + 1]
  /\ UNCHANGED <<starter, guards, scope, closer, toReap, fatal>>

(* It exits too fast, or the restart throws: give up and post onFatal. *)
GiveUp(g) ==
  /\ looper[g] = "exited"
  /\ looper' = [looper EXCEPT ![g] = "ended"]
  /\ fatal' = fatal \cup {g}
  /\ UNCHANGED <<starter, guards, scope, closer, toReap, proc, restarts>>

(* receive() throws the cancellation; the finally block kills the process.   *)
CleanUp(g) ==
  /\ looper[g] = "waiting"
  /\ scope # "active"
  /\ looper' = [looper EXCEPT ![g] = "ended"]
  /\ Kill(g)
  /\ UNCHANGED <<starter, guards, scope, closer, toReap, restarts, fatal>>

Looper(g) == \/ Dispatch(g) \/ LooperStart(g) \/ Receive(g)
             \/ Restart(g) \/ GiveUp(g) \/ CleanUp(g)

(* A plugin crashes or is killed. *)
Exit(g) ==
  /\ proc[g] = "alive"
  /\ Kill(g)
  /\ UNCHANGED <<starter, guards, scope, closer, toReap, looper, restarts, fatal>>

-----------------------------------------------------------------------------
(* close() *)

CloseCancel ==
  /\ closer = "idle"
  /\ closer' = "cancelled"
  /\ scope' = "cancelled"
  /\ UNCHANGED <<starter, guards, toReap, looper, proc, restarts, fatal>>

(* Mutant: the guards whose looper never ran are not reaped. *)
MutCloseSnapshot ==
  /\ closer = "cancelled"
  /\ closer' = "reaping"
  /\ toReap' = {}
  /\ UNCHANGED <<starter, guards, scope, looper, proc, restarts, fatal>>

(* guards.forEach iterates over the list as it is now. *)
CloseSnapshot ==
  /\ closer = "cancelled"
  /\ closer' = "reaping"
  /\ toReap' = guards
  /\ UNCHANGED <<starter, guards, scope, looper, proc, restarts, fatal>>

(* if (!it.looperStarted) it.destroy() *)
CloseReap(g) ==
  /\ closer = "reaping" /\ g \in toReap
  /\ toReap' = toReap \ {g}
  /\ proc' = IF LooperStarted(g) THEN proc ELSE [proc EXCEPT ![g] = "dead"]
  /\ UNCHANGED <<starter, guards, scope, closer, looper, restarts, fatal>>

CloseReaped ==
  /\ closer = "reaping" /\ toReap = {}
  /\ closer' = "joining"
  /\ UNCHANGED <<starter, guards, scope, toReap, looper, proc, restarts, fatal>>

(* Mutant: the returned Job only cancels. *)
MutCloseJoined ==
  /\ closer = "joining"
  /\ closer' = "done"
  /\ scope' = "complete"
  /\ UNCHANGED <<starter, guards, toReap, looper, proc, restarts, fatal>>

(* The returned Job joins the pool's Job, which completes with its last      *)
(* child; the instance's cache files are deleted then.                       *)
CloseJoined ==
  /\ closer = "joining"
  /\ \A g \in Guards : ~LooperLives(g)
  /\ closer' = "done"
  /\ scope' = "complete"
  /\ UNCHANGED <<starter, guards, toReap, looper, proc, restarts, fatal>>

Close == \/ CloseSnapshot \/ CloseReaped \/ CloseJoined
         \/ \E g \in Guards : CloseReap(g)

Next ==
  \/ \E g \in Guards : Start(g) \/ Looper(g) \/ Exit(g)
  \/ SpawnFails \/ CloseCancel \/ Close

(* Threads run, and so does the main thread. *)
Spec == /\ Init /\ [][Next]_vars
        /\ \A g \in Guards : WF_vars(Start(g)) /\ WF_vars(Looper(g))
        /\ WF_vars(Close)

-----------------------------------------------------------------------------
(* Properties *)

(* When the Job that close() returned completes (BoxInstance.close hooks the *)
(* deletion of the plugins' config files onto it), no guard is left to       *)
(* restart a plugin.                                                         *)
NoRestartAfterClose ==
  closer = "done" => \A g \in Guards : ~LooperLives(g)

(* While the pool is open a process that is down has a guard to notice it,   *)
(* unless that guard already reported it with onFatal.                       *)
DownIsNoticed ==
  scope = "active" =>
    \A g \in Guards :
      proc[g] = "dead" => starter[g] # "done" \/ LooperLives(g) \/ g \in fatal

(* Closing the pool ends every process for good. *)
CloseKillsAll == closer = "cancelled" ~> [](\A g \in Guards : proc[g] # "alive")
=============================================================================
