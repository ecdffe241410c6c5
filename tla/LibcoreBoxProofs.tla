--------------------------- MODULE LibcoreBoxProofs ---------------------------
(***************************************************************************)
(* Proofs about LibcoreBox, for any number of threads and boxes: b.access  *)
(* and mainInstanceAccess exclude what they must, and the main instance    *)
(* and its protect server follow the service's session.                    *)
(***************************************************************************)
EXTENDS LibcoreBox, TLAPS

(* Where a thread holds b.access, and where mainInstanceAccess. *)
HoldsAccess == {"starting", "closeMain", "closeProtect", "boxClose", "append", "build"}
HoldsMain == {"closeProtect", "serve"}

Closing == {"closeLock", "closeMain", "closeProtect", "boxClose"}

(* Each mutex is held by the thread that is inside, and by no other. *)
LockOwner ==
  /\ \A t \in Threads :
       /\ pc[t] \notin {"idle", "getMain", "resetMain"} => arg[t] \in Boxes
       /\ pc[t] \in HoldsAccess => access[arg[t]] = t
       /\ (mainAccess = t) <=> (pc[t] \in HoldsMain)
  /\ \A b \in Boxes : access[b] # NoThread =>
       pc[access[b]] \in HoldsAccess /\ arg[access[b]] = b

(* What a thread read under b.access stays true until it unlocks it.         *)
UnderAccess ==
  /\ \A t \in Threads :
       /\ pc[t] = "starting" => st[arg[t]] = 1
       /\ pc[t] = "build" => st[arg[t]] # 2
       /\ pc[t] = "append" => arg[t] \notin v2api
  /\ \A b \in Boxes : trackers[b] = IF b \in v2api THEN 1 ELSE 0

(* The service alone makes a box the main instance and closes such a box;    *)
(* the others close boxes of connection tests.                               *)
Roles ==
  /\ pc[Svc] \in {"mainLock", "serve"} => arg[Svc] = cur /\ cur # NoBox
  /\ pc[Svc] \in Closing => cur = NoBox /\ arg[Svc] \in ServiceBoxes
  /\ \A t \in Threads \ {Svc} :
       pc[t] \notin {"mainLock", "serve"} /\ (pc[t] \in Closing => arg[t] \in TestBoxes)

(* Outside a session there is no main instance, but for the one that the     *)
(* service is closing; a session's box is open until then.                   *)
Session ==
  /\ cur # NoBox => st[cur] # 2
  /\ pc[Svc] = "closeLock" => st[arg[Svc]] # 2
  /\ mainInstance =
       IF cur # NoBox /\ pc[Svc] # "mainLock" THEN cur
       ELSE IF pc[Svc] \in {"closeLock", "closeMain"} THEN arg[Svc]
       ELSE NoBox

ProtectsMain == mainAccess = NoThread => protect \subseteq {mainInstance}

IInv == TypeOK /\ LockOwner /\ UnderAccess /\ Roles /\ Session /\ ProtectsMain

-----------------------------------------------------------------------------
(* Boxes as NewSingBoxInstance returns them satisfy the invariant. *)
LEMMA InitIInv == Init => IInv
  BY BoxAssumption
  DEF Init, IInv, TypeOK, LockOwner, UnderAccess, Roles, Session, ProtectsMain, HoldsAccess,
      HoldsMain, Closing, Waiting, Working, Boxes

(* Every step of every thread keeps the invariant. *)
LEMMA NextIInv == IInv /\ [Next]_vars => IInv'
<1> SUFFICES ASSUME IInv, [Next]_vars PROVE IInv'
  OBVIOUS
<1> USE BoxAssumption
    DEF IInv, TypeOK, LockOwner, UnderAccess, Roles, Session, ProtectsMain, HoldsAccess, HoldsMain,
        Closing, Waiting, Working, Boxes, Goto, GotoWith, locks, boxVars, mainVars
<1>1. ASSUME NEW b \in ServiceBoxes, CallSetAsMain(b) PROVE IInv'
  BY <1>1 DEF CallSetAsMain, Call
<1>2. ASSUME NEW t \in Threads, NEW b \in Boxes, CallStart(t, b) PROVE IInv'
  BY <1>2 DEF CallStart, Call
<1>3. ASSUME NEW t \in Threads, NEW b \in Boxes, CallClose(t, b) PROVE IInv'
  BY <1>3 DEF CallClose, Call
<1>4. ASSUME NEW t \in Threads, NEW b \in Boxes, CallStats(t, b) PROVE IInv'
  BY <1>4 DEF CallStats, Call
<1>5. ASSUME NEW t \in Threads, NEW b \in Boxes \cup {NoBox}, CallUrlTest(t, b) PROVE IInv'
  BY <1>5 DEF CallUrlTest, Call
<1>6. ASSUME NEW t \in Threads, CallReset(t) PROVE IInv'
  BY <1>6 DEF CallReset, Call
<1>7. ASSUME NEW t \in Threads, StartLock(t) PROVE IInv'
  BY <1>7 DEF StartLock, Lock
<1>8. ASSUME NEW t \in Threads, Starting(t) PROVE IInv'
  BY <1>8 DEF Starting, Unlock
<1>9. ASSUME NEW t \in Threads, CloseLock(t) PROVE IInv'
  BY <1>9 DEF CloseLock, Lock
<1>10. ASSUME NEW t \in Threads, CloseMain(t) PROVE IInv'
  BY <1>10 DEF CloseMain
<1>11. ASSUME NEW t \in Threads, CloseProtect(t) PROVE IInv'
  BY <1>11 DEF CloseProtect
<1>12. ASSUME NEW t \in Threads, BoxClose(t) PROVE IInv'
  BY <1>12 DEF BoxClose, Unlock
<1>13. ASSUME NEW t \in Threads, SetAsMain(t) PROVE IInv'
  BY <1>13 DEF SetAsMain
<1>14. ASSUME NEW t \in Threads, ServeProtect(t) PROVE IInv'
  BY <1>14 DEF ServeProtect
<1>15. ASSUME NEW t \in Threads, SetV2rayStats(t) PROVE IInv'
  BY <1>15 DEF SetV2rayStats, Lock
<1>16. ASSUME NEW t \in Threads, AppendTracker(t) PROVE IInv'
  BY <1>16 DEF AppendTracker, Unlock
<1>17. ASSUME NEW t \in Threads, QueryStats(t) PROVE IInv'
  BY <1>17 DEF QueryStats
<1>18. ASSUME NEW t \in Threads, GetMainInstance(t, "getMain", "buildLock") PROVE IInv'
  BY <1>18 DEF GetMainInstance
<1>19. ASSUME NEW t \in Threads, GetMainInstance(t, "resetMain", "reset") PROVE IInv'
  BY <1>19 DEF GetMainInstance
<1>20. ASSUME NEW t \in Threads, NewProxyHttpClient(t) PROVE IInv'
  BY <1>20 DEF NewProxyHttpClient, Lock
<1>21. ASSUME NEW t \in Threads, Build(t) PROVE IInv'
  BY <1>21 DEF Build, Unlock
<1>22. ASSUME NEW t \in Threads, Use(t) PROVE IInv'
  BY <1>22 DEF Use
<1>23. CASE UNCHANGED vars
  BY <1>23 DEF vars, locks, boxVars, mainVars
<1> QED
  BY <1>1, <1>2, <1>3, <1>4, <1>5, <1>6, <1>7, <1>8, <1>9, <1>10, <1>11, <1>12, <1>13, <1>14,
     <1>15, <1>16, <1>17, <1>18, <1>19, <1>20, <1>21, <1>22, <1>23 DEF Next, Begin, Step

(* The invariant holds in every reachable state. *)
THEOREM Invariance == Spec => []IInv
<1> HIDE DEF IInv
<1> QED
  BY InitIInv, NextIInv, PTL DEF Spec

-----------------------------------------------------------------------------
(* Type correctness. *)
THEOREM TypeCorrect == Spec => []TypeOK
<1>1. IInv => TypeOK
  BY DEF IInv
<1> HIDE DEF IInv, TypeOK
<1> QED
  BY Invariance, <1>1, PTL

(* Each mutex has at most one owner, the thread that is between Lock and     *)
(* Unlock, on every path through box.go, error returns included.             *)
THEOREM MutexesHaveOneOwner == Spec => []LockOwner
<1>1. IInv => LockOwner
  BY DEF IInv
<1> HIDE DEF IInv, LockOwner
<1> QED
  BY Invariance, <1>1, PTL

(* From SetAsMain to Close the main instance is the session's box, never one *)
(* that stays closed, and the protect server listens for it alone.           *)
THEOREM MainIsTheSessions == Spec => []MainFollowsSession
<1>1. IInv => MainFollowsSession
  <2> SUFFICES ASSUME IInv PROVE MainFollowsSession
    OBVIOUS
  <2>1. cur # NoBox /\ pc[Svc] # "mainLock" => mainInstance = cur
    BY DEF IInv, Session
  <2>2. ASSUME mainInstance # NoBox, st[mainInstance] = 2
        PROVE  access[mainInstance] # NoThread /\ pc[access[mainInstance]] = "closeMain"
    <3>1. pc[Svc] = "closeMain" /\ mainInstance = arg[Svc]
      BY <2>2 DEF IInv, Session
    <3> QED
      BY <3>1, BoxAssumption DEF IInv, LockOwner, HoldsAccess
  <2> QED
    BY <2>1, <2>2 DEF IInv, ProtectsMain, MainFollowsSession
<1> HIDE DEF IInv, MainFollowsSession
<1> QED
  BY Invariance, <1>1, PTL

(* What the steps of any number of threads do under b.access: a closed box   *)
(* stays closed, no client is built on it, and no router gets two trackers.  *)
THEOREM AccessExcludes == Spec => AccessSerialises
<1> DEFINE Kept(b) ==
             /\ st[b] = 2 => st'[b] = 2
             /\ st'[b] = 2 => \A t \in Threads : arg'[t] = b => pc'[t] # "build"
             /\ trackers'[b] <= 1
<1>1. IInv /\ IInv' /\ [Next]_vars => [\A b \in Boxes : Kept(b)]_vars
  <2> SUFFICES ASSUME IInv, IInv', [Next]_vars, NEW b \in Boxes PROVE Kept(b)
    OBVIOUS
  <2>1. st[b] = 2 => st'[b] = 2
    <3>1. \/ UNCHANGED st
          \/ \E t \in Threads : StartLock(t) \/ Starting(t) \/ CloseLock(t)
      BY DEF Next, Begin, Step, CallSetAsMain, CallStart, CallClose, CallStats, CallUrlTest,
             CallReset, Call, CloseMain, CloseProtect, BoxClose, SetAsMain, ServeProtect,
             SetV2rayStats, AppendTracker, QueryStats, GetMainInstance, NewProxyHttpClient, Build,
             Use, boxVars, vars
    <3>2. ASSUME NEW t \in Threads, Starting(t), st[b] = 2 PROVE st'[b] = 2
      <4>1. pc[t] = "starting" /\ arg[t] # b
        BY <3>2 DEF Starting, Goto, GotoWith, IInv, UnderAccess
      <4> QED
        BY <3>2, <4>1 DEF Starting, IInv, TypeOK
    <3>3. ASSUME NEW t \in Threads, StartLock(t) \/ CloseLock(t), st[b] = 2 PROVE st'[b] = 2
      BY <3>3 DEF StartLock, CloseLock, IInv, TypeOK
    <3> QED
      BY <3>1, <3>2, <3>3
  <2>2. st'[b] = 2 => \A t \in Threads : arg'[t] = b => pc'[t] # "build"
    BY DEF IInv, UnderAccess
  <2>3. trackers'[b] <= 1
    BY DEF IInv, UnderAccess
  <2> QED
    BY <2>1, <2>2, <2>3
<1> HIDE DEF IInv
<1> QED
  BY Invariance, <1>1, PTL DEF Spec, AccessSerialises
=============================================================================
