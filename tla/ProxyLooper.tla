----------------------------- MODULE ProxyLooper -----------------------------
(***************************************************************************)
(* ProxyInstance.launch and close against the traffic looper they start    *)
(* and stop.  launch (main thread) posts a block to the Default            *)
(* dispatcher; the block creates a TrafficLooper, publishes it in `looper` *)
(* and starts its loop.  close (main thread, later) stops the looper it    *)
(* finds in `looper` and then closes the box.  Nothing orders the two but  *)
(* the volatile fields and the two atomic booleans, so one action is one   *)
(* access of a shared field.  TrafficLooper.stop has two callers, "close"  *)
(* and "block"; both execute the same steps.                               *)
(*                                                                         *)
(* The loop, stop() and the state changes broadcast to the clients of the  *)
(* service under Binder.broadcastMutex, a fair mutex that its holder hands *)
(* to the first waiter.  A state change is broadcast by a coroutine of the *)
(* main thread, so one that had to wait goes on only when the main thread  *)
(* is free, and inside close() it is not: close() waits in runBlocking.    *)
(***************************************************************************)
EXTENDS Naturals, Sequences

VARIABLES
  pc,       \* where the main thread, up to close(), and the posted block are
  looper,   \* the volatile field ProxyInstance.looper: "null" or "set"
  job,      \* TrafficLooper.job: "null" or "set"
  loop,     \* the loop coroutine
  flags,    \* atomic booleans that are true, and the loop's cancellation
  persists, \* how many times stop() wrote the final statistics
  seen,     \* history: what close() found, "nothing", "looper" or "job"
  owner,    \* who holds broadcastMutex, or has been handed it
  queue     \* who waits for it, in order

mutexVars == <<owner, queue>>
vars == <<pc, looper, job, loop, flags, persists, seen, mutexVars>>

Callers == {"close", "block"}

(* The coroutines of Binder.stateChanged, for Connected and for Stopping. *)
News == {"connected", "stopping"}

Broadcasters == Callers \cup News \cup {"loop"}

StopSteps == {"cas", "readJob", "join", "persist", "lock", "cast"}

CloseSteps ==
  StopSteps \cup {"idle", "launched", "up", "stopping", "read", "clear", "shut", "done"}

BlockSteps ==
  StopSteps \cup {"idle", "posted", "publish", "start", "launch", "recheck", "check",
                  "unset", "done"}

TypeOK ==
  /\ pc \in [Callers -> CloseSteps \cup BlockSteps]
  /\ pc["close"] \in CloseSteps
  /\ pc["block"] \in BlockSteps
  /\ looper \in {"null", "set"}
  /\ job \in {"null", "set"}
  /\ loop \in {"none", "poll", "lock", "cast", "delay", "ended"}
  /\ flags \subseteq {"closed", "stopped", "cancelled"}
  /\ persists \in Nat
  /\ seen \in {"nothing", "looper", "job"}
  /\ owner \in Broadcasters \cup {"none"}
  /\ queue \in Seq(Broadcasters)

Init ==
  /\ pc = [c \in Callers |-> "idle"]
  /\ looper = "null" /\ job = "null" /\ loop = "none"
  /\ flags = {} /\ persists = 0 /\ seen = "nothing"
  /\ owner = "none" /\ queue = <<>>

Goto(c, from, to) == pc[c] = from /\ pc' = [pc EXCEPT ![c] = to]

(* Where TrafficLooper.stop returns to. *)
Return(c) == IF c = "close" THEN "clear" ELSE "done"

-----------------------------------------------------------------------------
(* Binder.broadcastMutex *)

Lock(b) ==
  \/ owner = "none" /\ owner' = b /\ UNCHANGED queue
  \/ owner # "none" /\ queue' = Append(queue, b) /\ UNCHANGED owner

Unlock(b) ==
  /\ owner = b
  /\ \/ queue = <<>> /\ owner' = "none" /\ UNCHANGED queue
     \/ queue # <<>> /\ owner' = Head(queue) /\ queue' = Tail(queue)

(* Binder.stateChanged, launched on the main thread: the coroutine finds the *)
(* mutex free and broadcasts at once, or waits and lets the caller go on.    *)
StateChanged(n) ==
  \/ owner = "none" /\ UNCHANGED mutexVars
  \/ owner # "none" /\ queue' = Append(queue, n) /\ UNCHANGED owner

(* The coroutine that waited is dispatched to the main thread and gets its   *)
(* turn there between two tasks.                                             *)
StateChangedResumes(n) ==
  /\ pc["close"] \in {"idle", "up", "done"}
  /\ Unlock(n)
  /\ UNCHANGED <<pc, looper, job, loop, flags, persists, seen>>

-----------------------------------------------------------------------------
(* TrafficLooper.stop *)

(* Mutant: the second call is not turned away. *)
MutStopCas(c) ==
  /\ Goto(c, "cas", "readJob")
  /\ flags' = flags \cup {"stopped"}
  /\ UNCHANGED <<looper, job, loop, persists, seen, mutexVars>>

(* stopped.compareAndSet(false, true) *)
StopCas(c) ==
  /\ \/ /\ "stopped" \in flags /\ Goto(c, "cas", Return(c))
        /\ UNCHANGED flags
     \/ /\ "stopped" \notin flags /\ Goto(c, "cas", "readJob")
        /\ flags' = flags \cup {"stopped"}
  /\ UNCHANGED <<looper, job, loop, persists, seen, mutexVars>>

(* job?.cancelAndJoin(): read the job and cancel it. *)
StopReadJob(c) ==
  /\ \/ /\ job = "null" /\ Goto(c, "readJob", "persist")
        /\ UNCHANGED <<flags, seen>>
     \/ /\ job = "set" /\ Goto(c, "readJob", "join")
        /\ flags' = flags \cup {"cancelled"}
        /\ seen' = IF c = "close" THEN "job" ELSE seen
  /\ UNCHANGED <<looper, job, loop, persists, mutexVars>>

(* Mutant: cancel() instead of cancelAndJoin(). *)
MutStopJoin(c) ==
  /\ Goto(c, "join", "persist")
  /\ UNCHANGED <<looper, job, loop, flags, persists, seen, mutexVars>>

(* ... and wait for its end. *)
StopJoin(c) ==
  /\ loop = "ended"
  /\ Goto(c, "join", "persist")
  /\ UNCHANGED <<looper, job, loop, flags, persists, seen, mutexVars>>

(* The final statistics, unless the user turned them off. *)
StopPersist(c) ==
  /\ \/ Goto(c, "persist", Return(c)) /\ UNCHANGED persists
     \/ Goto(c, "persist", "lock") /\ persists' = persists + 1
  /\ UNCHANGED <<looper, job, loop, flags, seen, mutexVars>>

(* data.binder.broadcast: the persisted totals go to the clients. *)
StopLock(c) ==
  /\ Goto(c, "lock", "cast")
  /\ Lock(c)
  /\ UNCHANGED <<looper, job, loop, flags, persists, seen>>

StopCast(c) ==
  /\ Goto(c, "cast", Return(c))
  /\ Unlock(c)
  /\ UNCHANGED <<looper, job, loop, flags, persists, seen>>

Stop(c) == \/ StopCas(c) \/ StopReadJob(c) \/ StopJoin(c) \/ StopPersist(c)
           \/ StopLock(c) \/ StopCast(c)

-----------------------------------------------------------------------------
(* ProxyInstance.launch *)

(* The box is up, the block is posted and the service is Connected. *)
Launch ==
  /\ pc["close"] = "idle" /\ pc["block"] = "idle"
  /\ pc' = [pc EXCEPT !["close"] = "launched", !["block"] = "posted"]
  /\ UNCHANGED <<looper, job, loop, flags, persists, seen, mutexVars>>

(* changeState(State.Connected) tells the clients. *)
ConnectedChanged ==
  /\ Goto("close", "launched", "up")
  /\ StateChanged("connected")
  /\ UNCHANGED <<looper, job, loop, flags, persists, seen>>

(* if (isClosed()) return@runOnDefaultDispatcher *)
BlockPosted ==
  /\ Goto("block", "posted", IF "closed" \in flags THEN "done" ELSE "publish")
  /\ UNCHANGED <<looper, job, loop, flags, persists, seen, mutexVars>>

(* looper = trafficLooper *)
BlockPublish ==
  /\ Goto("block", "publish", "start")
  /\ looper' = "set"
  /\ UNCHANGED <<job, loop, flags, persists, seen, mutexVars>>

(* TrafficLooper.start: if (stopped.get()) return *)
StartCheck ==
  /\ Goto("block", "start", IF "stopped" \in flags THEN "check" ELSE "launch")
  /\ UNCHANGED <<looper, job, loop, flags, persists, seen, mutexVars>>

(* job = sc.launch { loop() }; the loop returns at once when there is        *)
(* neither a speed display nor statistics.                                   *)
StartLaunch ==
  /\ Goto("block", "launch", "recheck")
  /\ job' = "set"
  /\ loop' \in {"poll", "ended"}
  /\ UNCHANGED <<looper, flags, persists, seen, mutexVars>>

(* Mutant: start() does not look at `stopped` again. *)
MutStartRecheck ==
  /\ Goto("block", "recheck", "check")
  /\ UNCHANGED <<looper, job, loop, flags, persists, seen, mutexVars>>

(* if (stopped.get()) job?.cancel() *)
StartRecheck ==
  /\ Goto("block", "recheck", "check")
  /\ flags' = IF "stopped" \in flags THEN flags \cup {"cancelled"} ELSE flags
  /\ UNCHANGED <<looper, job, loop, persists, seen, mutexVars>>

(* if (isClosed()) { looper = null; trafficLooper.stop() } *)
BlockCheck ==
  /\ Goto("block", "check", IF "closed" \in flags THEN "unset" ELSE "done")
  /\ UNCHANGED <<looper, job, loop, flags, persists, seen, mutexVars>>

BlockUnset ==
  /\ Goto("block", "unset", "cas")
  /\ looper' = "null"
  /\ UNCHANGED <<job, loop, flags, persists, seen, mutexVars>>

Block == \/ BlockPosted \/ BlockPublish \/ StartCheck \/ StartLaunch
         \/ StartRecheck \/ BlockCheck \/ BlockUnset \/ Stop("block")

-----------------------------------------------------------------------------
(* The loop: a sweep of queryStats, a broadcast while the service is         *)
(* Connected and the activity in the foreground, then delay().  It notices   *)
(* its cancellation where it suspends: in delay(), or waiting for the mutex. *)
(* A coroutine cancelled before its first dispatch never runs.               *)

LoopPoll ==
  /\ loop = "poll"
  /\ \/ loop' = "delay"
     \/ pc["close"] \in {"launched", "up"} /\ loop' = "lock"
  /\ UNCHANGED <<pc, looper, job, flags, persists, seen, mutexVars>>

LoopNeverRan ==
  /\ loop = "poll" /\ "cancelled" \in flags
  /\ loop' = "ended"
  /\ UNCHANGED <<pc, looper, job, flags, persists, seen, mutexVars>>

LoopLock ==
  /\ loop = "lock" /\ loop' = "cast"
  /\ Lock("loop")
  /\ UNCHANGED <<pc, looper, job, flags, persists, seen>>

(* The display data are out, or were not sent because of a cancellation:     *)
(* the mutex is handed on.                                                   *)
LoopCast ==
  /\ loop = "cast" /\ loop' = "delay"
  /\ Unlock("loop")
  /\ UNCHANGED <<pc, looper, job, flags, persists, seen>>

LoopStopsWaiting ==
  /\ loop = "cast" /\ loop' = "ended" /\ "cancelled" \in flags
  /\ \E i \in DOMAIN queue :
       /\ queue[i] = "loop"
       /\ queue' = SubSeq(queue, 1, i - 1) \o SubSeq(queue, i + 1, Len(queue))
  /\ UNCHANGED <<pc, looper, job, flags, persists, seen, owner>>

(* Mutant: the loop asks only its scope, which stays active. *)
MutLoopDelay ==
  /\ loop = "delay"
  /\ loop' = "poll"
  /\ UNCHANGED <<pc, looper, job, flags, persists, seen, mutexVars>>

LoopDelay ==
  /\ loop = "delay"
  /\ loop' = IF "cancelled" \in flags THEN "ended" ELSE "poll"
  /\ UNCHANGED <<pc, looper, job, flags, persists, seen, mutexVars>>

Loop == LoopPoll \/ LoopNeverRan \/ LoopLock \/ LoopCast \/ LoopStopsWaiting \/ LoopDelay

-----------------------------------------------------------------------------
(* ProxyInstance.close, after launch or after a launch that failed *)

CloseBegin ==
  /\ pc["close"] \in {"idle", "up"} /\ pc' = [pc EXCEPT !["close"] = "stopping"]
  /\ UNCHANGED <<looper, job, loop, flags, persists, seen, mutexVars>>

(* changeState(State.Stopping) tells the clients; close() follows in the     *)
(* same task.                                                                *)
StoppingChanged ==
  /\ Goto("close", "stopping", "read")
  /\ StateChanged("stopping")
  /\ UNCHANGED <<looper, job, loop, flags, persists, seen>>

(* looper?.stop(): read the field *)
CloseRead ==
  /\ Goto("close", "read", IF looper = "null" THEN "clear" ELSE "cas")
  /\ seen' = IF looper = "null" THEN seen ELSE "looper"
  /\ UNCHANGED <<looper, job, loop, flags, persists, mutexVars>>

(* finally { looper = null *)
CloseClear ==
  /\ Goto("close", "clear", "shut")
  /\ looper' = "null"
  /\ UNCHANGED <<job, loop, flags, persists, seen, mutexVars>>

(* super.close() } closes the instance, the box with it. *)
CloseShut ==
  /\ Goto("close", "shut", "done")
  /\ flags' = flags \cup {"closed"}
  /\ UNCHANGED <<looper, job, loop, persists, seen, mutexVars>>

Close == \/ ConnectedChanged \/ StoppingChanged
         \/ CloseRead \/ CloseClear \/ CloseShut \/ Stop("close")

Resume == \E n \in News : StateChangedResumes(n)

Next == Launch \/ Block \/ Loop \/ CloseBegin \/ Close \/ Resume

(* The dispatchers and the main thread run what was handed to them; when     *)
(* (or whether) the service stops is the user's choice.                      *)
Spec ==
  /\ Init /\ [][Next]_vars
  /\ WF_vars(Block) /\ WF_vars(Loop) /\ WF_vars(Close) /\ WF_vars(Resume)

-----------------------------------------------------------------------------
(* Properties *)

Returned == pc["close"] = "done" /\ pc["block"] \in {"idle", "done"}

LoopOver == loop \in {"none", "ended"} \/ "cancelled" \in flags

(* "persist and broadcast only once": both the block's recheck and close()   *)
(* may call stop(), and only one of them writes the final statistics.        *)
PersistOnce == persists <= 1

(* A looper that close() found does not outlive it: wherever the block was   *)
(* between publishing the looper and its last check, the loop is over or     *)
(* cancelled once both have returned.                                        *)
FoundLooperStops == Returned /\ seen # "nothing" => LoopOver

(* A loop that was running when close() looked for it has ended before the   *)
(* box is closed ("wait for the loop to finish so no in-flight queryStats    *)
(* hits a closed box").                                                      *)
JoinedBeforeClose == "closed" \in flags /\ seen = "job" => loop = "ended"

(* close() blocks the main thread in stop(), and comes back: the loop it     *)
(* joins ends wherever the cancellation meets it, and broadcastMutex reaches *)
(* it.  The one exception is the deadlock of CloseReturns.                   *)
CloseReturnsOrDeadlocks ==
  pc["close"] = "read" ~> pc["close"] = "done" \/ (pc["close"] = "cast" /\ owner \in News)

(* "it joins quickly now that the final DB write runs on Dispatchers.IO"     *)
(* (ProxyInstance.close): close() returns.  It does not when the mutex it    *)
(* waits for has been handed to a stateChanged coroutine of the main thread. *)
CloseReturns == pc["close"] = "read" ~> pc["close"] = "done"
=============================================================================
