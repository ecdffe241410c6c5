------------------------------ MODULE LibcoreBox ------------------------------
(***************************************************************************)
(* libcore/box.go: the BoxInstance objects of one process, the process-    *)
(* wide mainInstance with its protect server, and the two mutexes that     *)
(* guard them, b.access and mainInstanceAccess.                            *)
(*                                                                         *)
(* Svc is the service's main thread: it makes a box the main instance,     *)
(* starts it and closes it (ProxyInstance.launch and close).  The other    *)
(* threads are binder threads, the traffic looper, the network callback    *)
(* and connection tests; they may call anything else, and start and close  *)
(* the boxes of connection tests from any thread (TestInstance).           *)
(*                                                                         *)
(* Of the sing-box Box under a BoxInstance only the outcome of Box.Start   *)
(* matters here.                                                           *)
(***************************************************************************)
EXTENDS Naturals, FiniteSets

CONSTANTS
  Threads,       \* native threads, Svc among them
  Svc,           \* the service's main thread
  NoThread,      \* an unlocked mutex
  ServiceBoxes,  \* boxes of service sessions
  TestBoxes,     \* boxes of connection tests
  NoBox          \* nil

Boxes == ServiceBoxes \cup TestBoxes

ASSUME BoxAssumption ==
  /\ Svc \in Threads /\ NoThread \notin Threads
  /\ NoBox \notin Boxes
  /\ ServiceBoxes \cap TestBoxes = {}

VARIABLES
  pc,           \* what each thread is doing
  arg,          \* the box it is doing it to
  access,       \* holder of every b.access
  mainAccess,   \* holder of mainInstanceAccess
  st,           \* b.state: 0 new, 1 started, 2 closed
  v2api,        \* boxes whose v2api is set
  trackers,     \* connection trackers appended to each box's router
  mainInstance,
  protect,      \* boxes for which a protect server is listening
  started,      \* boxes Start was called on
  cur           \* the box of the service's current session

locks == <<access, mainAccess>>
boxVars == <<st, v2api, trackers>>
mainVars == <<mainInstance, protect>>
vars == <<pc, arg, locks, boxVars, mainVars, started, cur>>

Waiting == {"startLock", "closeLock", "closeMain", "mainLock", "statsLock",
            "queryLock", "getMain", "buildLock", "resetMain"}
Working == {"starting", "closeProtect", "boxClose", "serve", "append", "build",
            "dial", "reset"}

TypeOK ==
  /\ pc \in [Threads -> {"idle"} \cup Waiting \cup Working]
  /\ arg \in [Threads -> Boxes \cup {NoBox}]
  /\ access \in [Boxes -> Threads \cup {NoThread}]
  /\ mainAccess \in Threads \cup {NoThread}
  /\ st \in [Boxes -> 0..2]
  /\ v2api \subseteq Boxes
  /\ trackers \in [Boxes -> Nat]
  /\ mainInstance \in Boxes \cup {NoBox}
  /\ protect \subseteq Boxes
  /\ started \subseteq Boxes
  /\ cur \in ServiceBoxes \cup {NoBox}

(* Every box as NewSingBoxInstance returns it. *)
Init ==
  /\ pc = [t \in Threads |-> "idle"]
  /\ arg = [t \in Threads |-> NoBox]
  /\ access = [b \in Boxes |-> NoThread]
  /\ mainAccess = NoThread
  /\ st = [b \in Boxes |-> 0]
  /\ v2api = {} /\ trackers = [b \in Boxes |-> 0]
  /\ mainInstance = NoBox /\ protect = {}
  /\ started = {} /\ cur = NoBox

-----------------------------------------------------------------------------
(* Thread t goes on, with box b; a call that returns forgets its box. *)
GotoWith(t, from, to, b) ==
  /\ pc[t] = from
  /\ pc' = [pc EXCEPT ![t] = to]
  /\ arg' = [arg EXCEPT ![t] = IF to = "idle" THEN NoBox ELSE b]

Goto(t, from, to) == GotoWith(t, from, to, arg[t])

Call(t, op, b) ==
  /\ GotoWith(t, "idle", op, b)
  /\ UNCHANGED <<locks, boxVars, mainVars>>

Lock(t) ==
  /\ access[arg[t]] = NoThread
  /\ access' = [access EXCEPT ![arg[t]] = t]

Unlock(t) == access' = [access EXCEPT ![arg[t]] = NoThread]

-----------------------------------------------------------------------------
(* BoxInstance.Start *)

(* Every box is started once: no caller tries again after a failure. *)
CallStart(t, b) ==
  /\ b \notin started
  /\ IF t = Svc THEN b = cur /\ mainInstance = b ELSE b \in TestBoxes
  /\ Call(t, "startLock", b)
  /\ started' = started \cup {b}
  /\ UNCHANGED cur

(* Mutant: the lock is not held while Box.Start runs. *)
MutStartUnlocked(t) ==
  /\ pc[t] = "startLock"
  /\ access[arg[t]] = NoThread
  /\ st[arg[t]] = 0
  /\ Goto(t, "startLock", "starting")
  /\ st' = [st EXCEPT ![arg[t]] = 1]
  /\ UNCHANGED <<locks, v2api, trackers, mainVars, started, cur>>

(* Lock; a box that was started or closed is refused. *)
StartLock(t) ==
  /\ pc[t] = "startLock"
  /\ access[arg[t]] = NoThread
  /\ \/ /\ st[arg[t]] = 0
        /\ Goto(t, "startLock", "starting")
        /\ st' = [st EXCEPT ![arg[t]] = 1]
        /\ Lock(t)
     \/ /\ st[arg[t]] # 0
        /\ Goto(t, "startLock", "idle")
        /\ UNCHANGED <<st, access>>
  /\ UNCHANGED <<mainAccess, v2api, trackers, mainVars, started, cur>>

(* Box.Start under the lock; an error or a panic rolls the state back. *)
Starting(t) ==
  /\ Goto(t, "starting", "idle")
  /\ \E ok \in BOOLEAN : st' = [st EXCEPT ![arg[t]] = IF ok THEN @ ELSE 0]
  /\ Unlock(t)
  /\ UNCHANGED <<mainAccess, v2api, trackers, mainVars, started, cur>>

-----------------------------------------------------------------------------
(* BoxInstance.Close *)

CallClose(t, b) ==
  /\ IF t = Svc THEN b = cur ELSE b \in TestBoxes
  /\ Call(t, "closeLock", b)
  /\ cur' = IF t = Svc THEN NoBox ELSE cur
  /\ UNCHANGED started

(* Lock; "no double close". *)
CloseLock(t) ==
  /\ pc[t] = "closeLock"
  /\ access[arg[t]] = NoThread
  /\ \/ /\ st[arg[t]] = 2
        /\ Goto(t, "closeLock", "idle")
        /\ UNCHANGED <<st, access>>
     \/ /\ st[arg[t]] # 2
        /\ Goto(t, "closeLock", "closeMain")
        /\ st' = [st EXCEPT ![arg[t]] = 2]
        /\ Lock(t)
  /\ UNCHANGED <<mainAccess, v2api, trackers, mainVars, started, cur>>

(* Mutant: any box clears the main instance. *)
MutCloseMain(t) ==
  /\ pc[t] = "closeMain"
  /\ mainAccess = NoThread
  /\ Goto(t, "closeMain", "closeProtect")
  /\ mainAccess' = t
  /\ mainInstance' = NoBox
  /\ UNCHANGED <<access, boxVars, protect, started, cur>>

(* With b.access held, take mainInstanceAccess and give the main instance up. *)
CloseMain(t) ==
  /\ pc[t] = "closeMain"
  /\ mainAccess = NoThread
  /\ \/ /\ mainInstance = arg[t]
        /\ Goto(t, "closeMain", "closeProtect")
        /\ mainAccess' = t
        /\ mainInstance' = NoBox
     \/ /\ mainInstance # arg[t]
        /\ Goto(t, "closeMain", "boxClose")
        /\ UNCHANGED <<mainAccess, mainInstance>>
  /\ UNCHANGED <<access, boxVars, protect, started, cur>>

(* goServeProtect(false) *)
CloseProtect(t) ==
  /\ Goto(t, "closeProtect", "boxClose")
  /\ protect' = {}
  /\ mainAccess' = NoThread
  /\ UNCHANGED <<access, boxVars, mainInstance, started, cur>>

(* Box.Close, with b.access held to the end. *)
BoxClose(t) ==
  /\ Goto(t, "boxClose", "idle")
  /\ Unlock(t)
  /\ UNCHANGED <<mainAccess, boxVars, mainVars, started, cur>>

-----------------------------------------------------------------------------
(* BoxInstance.SetAsMain, by the service on the box of a new session *)

CallSetAsMain(b) ==
  /\ cur = NoBox /\ b \in ServiceBoxes /\ st[b] = 0 /\ b \notin started
  /\ Call(Svc, "mainLock", b)
  /\ cur' = b
  /\ UNCHANGED started

SetAsMain(t) ==
  /\ mainAccess = NoThread
  /\ Goto(t, "mainLock", "serve")
  /\ mainAccess' = t
  /\ mainInstance' = arg[t]
  /\ UNCHANGED <<access, boxVars, protect, started, cur>>

(* goServeProtect(true): close the old listener, open a new one if the        *)
(* socket can be bound.                                                       *)
ServeProtect(t) ==
  /\ Goto(t, "serve", "idle")
  /\ protect' \in {{}, {arg[t]}}
  /\ mainAccess' = NoThread
  /\ UNCHANGED <<access, boxVars, mainInstance, started, cur>>

-----------------------------------------------------------------------------
(* SetV2rayStats and QueryStats *)

CallStats(t, b) ==
  /\ t # Svc /\ b \in ServiceBoxes
  /\ Call(t, "statsLock", b) \/ Call(t, "queryLock", b)
  /\ UNCHANGED <<started, cur>>

SetV2rayStats(t) ==
  /\ pc[t] = "statsLock"
  /\ \/ /\ arg[t] \in v2api /\ access[arg[t]] = NoThread
        /\ Goto(t, "statsLock", "idle")
        /\ UNCHANGED access
     \/ /\ arg[t] \notin v2api /\ Lock(t)
        /\ Goto(t, "statsLock", "append")
  /\ UNCHANGED <<mainAccess, boxVars, mainVars, started, cur>>

AppendTracker(t) ==
  /\ Goto(t, "append", "idle")
  /\ v2api' = v2api \cup {arg[t]}
  /\ trackers' = [trackers EXCEPT ![arg[t]] = @ + 1]
  /\ Unlock(t)
  /\ UNCHANGED <<mainAccess, st, mainVars, started, cur>>

QueryStats(t) ==
  /\ pc[t] = "queryLock"
  /\ access[arg[t]] = NoThread
  /\ Goto(t, "queryLock", "idle")
  /\ UNCHANGED <<locks, boxVars, mainVars, started, cur>>

-----------------------------------------------------------------------------
(* UrlTest and ResetAllConnections *)

CallUrlTest(t, b) ==
  /\ t # Svc
  /\ Call(t, IF b = NoBox THEN "getMain" ELSE "buildLock", b)
  /\ UNCHANGED <<started, cur>>

CallReset(t) ==
  /\ Call(t, "resetMain", NoBox)
  /\ UNCHANGED <<started, cur>>

(* getMainInstance: lock, read, unlock.  With no main instance the test goes  *)
(* direct, the reset does nothing.                                            *)
GetMainInstance(t, from, to) ==
  /\ mainAccess = NoThread
  /\ GotoWith(t, from, IF mainInstance = NoBox THEN "idle" ELSE to, mainInstance)
  /\ UNCHANGED <<locks, boxVars, mainVars, started, cur>>

(* Mutant: the error return leaves the mutex locked. *)
MutNewProxyHttpClientError(t) ==
  /\ pc[t] = "buildLock"
  /\ Lock(t)
  /\ Goto(t, "buildLock", IF st[arg[t]] = 2 THEN "idle" ELSE "build")
  /\ UNCHANGED <<mainAccess, boxVars, mainVars, started, cur>>

(* Lock; a closed box is refused. *)
NewProxyHttpClient(t) ==
  /\ pc[t] = "buildLock"
  /\ access[arg[t]] = NoThread
  /\ \/ /\ st[arg[t]] = 2 /\ Goto(t, "buildLock", "idle")
        /\ UNCHANGED access
     \/ /\ st[arg[t]] # 2 /\ Goto(t, "buildLock", "build")
        /\ Lock(t)
  /\ UNCHANGED <<mainAccess, boxVars, mainVars, started, cur>>

(* CreateProxyHttpClient, then the request itself, outside the lock. *)
Build(t) ==
  /\ Goto(t, "build", "dial")
  /\ Unlock(t)
  /\ UNCHANGED <<mainAccess, boxVars, mainVars, started, cur>>

(* The HTTP request of a test; ResetNetwork on the instance read before. *)
Use(t) ==
  /\ Goto(t, "dial", "idle") \/ Goto(t, "reset", "idle")
  /\ UNCHANGED <<locks, boxVars, mainVars, started, cur>>

-----------------------------------------------------------------------------
Step(t) ==
  \/ StartLock(t) \/ Starting(t)
  \/ CloseLock(t) \/ CloseMain(t) \/ CloseProtect(t) \/ BoxClose(t)
  \/ SetAsMain(t) \/ ServeProtect(t)
  \/ SetV2rayStats(t) \/ AppendTracker(t) \/ QueryStats(t)
  \/ GetMainInstance(t, "getMain", "buildLock")
  \/ GetMainInstance(t, "resetMain", "reset")
  \/ NewProxyHttpClient(t) \/ Build(t) \/ Use(t)

Begin(t) ==
  \/ \E b \in Boxes : CallStart(t, b) \/ CallClose(t, b) \/ CallStats(t, b)
  \/ \E b \in Boxes \cup {NoBox} : CallUrlTest(t, b)
  \/ CallReset(t)

Next ==
  \/ \E b \in ServiceBoxes : CallSetAsMain(b)
  \/ \E t \in Threads : Begin(t) \/ Step(t)

(* Go's mutexes are starvation free, and sing-box's own operations end. *)
Fairness == \A t \in Threads : SF_vars(Step(t))

Spec == Init /\ [][Next]_vars /\ Fairness

-----------------------------------------------------------------------------
(* Properties *)

(* The main instance belongs to the session: from SetAsMain to the Close of  *)
(* the session's box it is that box, whatever tests and earlier sessions     *)
(* close meanwhile; it is open, or the thread that is closing it is on its   *)
(* way to clear it, so that UrlTest(nil) and ResetAllConnections never keep  *)
(* finding a closed box; and the protect server, which lets other programs   *)
(* bypass the VPN, listens for it alone.                                     *)
MainFollowsSession ==
  /\ cur # NoBox /\ pc[Svc] # "mainLock" => mainInstance = cur
  /\ mainInstance # NoBox /\ st[mainInstance] = 2 =>
       /\ access[mainInstance] # NoThread
       /\ pc[access[mainInstance]] = "closeMain"
  /\ mainAccess = NoThread => protect \subseteq {mainInstance}

(* What b.access keeps apart: the roll-back of a Start that fails does not   *)
(* reopen a box that another thread's Close closed meanwhile; no HTTP client *)
(* is built on a box while it is closed ("a concurrent Close could otherwise *)
(* tear the box down between the state check and CreateProxyHttpClient");    *)
(* and a router gets one statistics tracker, however many loops ask for one  *)
(* at once: two would count every byte twice.                                *)
AccessSerialises ==
  [][\A b \in Boxes :
       /\ st[b] = 2 => st'[b] = 2
       /\ st'[b] = 2 => \A t \in Threads : arg'[t] = b => pc'[t] # "build"
       /\ trackers'[b] <= 1]_vars

(* Every call returns: no order of b.access and mainInstanceAccess in any    *)
(* two operations deadlocks, and none leaves a mutex locked.                 *)
CallsReturn == \A t \in Threads : pc[t] # "idle" ~> pc[t] = "idle"
=============================================================================
