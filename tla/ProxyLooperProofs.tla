-------------------------- MODULE ProxyLooperProofs --------------------------
(***************************************************************************)
(* Proofs about ProxyLooper: the two atomic booleans and the two rechecks  *)
(* are enough for the final statistics to be written once and for a looper *)
(* that close() found to stop.  `persists` is unbounded here.              *)
(***************************************************************************)
EXTENDS ProxyLooper, TLAPS

(* Past the compareAndSet of TrafficLooper.stop. *)
InStop == {"readJob", "join", "persist"}

(* The block has started the loop, or has decided not to. *)
Started == {"recheck", "check", "unset", "done"} \cup StopSteps

(* Before anybody won the compareAndSet nothing was cancelled or written.    *)
NotStopped ==
  "stopped" \notin flags =>
    persists = 0 /\ "cancelled" \notin flags /\ \A c \in Callers : pc[c] \notin InStop

(* One caller at a time, and once only, gets past the compareAndSet.         *)
OneStops ==
  \A c \in Callers : pc[c] \in InStop =>
    persists = 0 /\ \A d \in Callers : pc[d] \in InStop => d = c

JobIsLoop ==
  /\ (job = "set") <=> (loop # "none")
  /\ job = "set" => pc["block"] \in Started

(* A stop and a start in either order cancel the loop: start() looks again   *)
(* after it has published the job, stop() reads the job after the CAS.       *)
StopCancels ==
  /\ "stopped" \in flags /\ job = "set"
  /\ pc["block"] # "recheck" /\ \A c \in Callers : pc[c] # "readJob"
  => "cancelled" \in flags

CloseStops == seen # "nothing" => pc["close"] = "cas" \/ "stopped" \in flags

CloseJoins == seen = "job" => job = "set" /\ (pc["close"] = "join" \/ loop = "ended")

ClosedIsDone == "closed" \in flags => pc["close"] = "done"

IInv ==
  /\ TypeOK /\ NotStopped /\ PersistOnce /\ OneStops /\ JobIsLoop
  /\ StopCancels /\ CloseStops /\ CloseJoins /\ ClosedIsDone

(* Nothing has been launched initially. *)
LEMMA InitIInv == Init => IInv
  BY DEF Init, IInv, Broadcasters, News, TypeOK, NotStopped, PersistOnce, OneStops, JobIsLoop, StopCancels, CloseStops,
         CloseJoins, ClosedIsDone, InStop, Started, Callers, CloseSteps, BlockSteps, StopSteps

(* Handing the mutex on, and leaving its queue, keep the queue a sequence of *)
(* broadcasters.                                                             *)
LEMMA MutexType ==
  ASSUME TypeOK, NEW b \in Broadcasters,
         \/ Lock(b) \/ Unlock(b) \/ StateChanged(b)
  PROVE  owner' \in Broadcasters \cup {"none"} /\ queue' \in Seq(Broadcasters)
<1>1. owner \in Broadcasters \cup {"none"} /\ queue \in Seq(Broadcasters)
  BY DEF TypeOK
<1> QED
  BY <1>1 DEF Lock, Unlock, StateChanged, mutexVars

LEMMA LeaveType ==
  ASSUME NEW q \in Seq(Broadcasters), NEW i \in DOMAIN q
  PROVE  SubSeq(q, 1, i - 1) \o SubSeq(q, i + 1, Len(q)) \in Seq(Broadcasters)
<1>1. SubSeq(q, 1, i - 1) \in Seq(Broadcasters)
  OBVIOUS
<1>2. SubSeq(q, i + 1, Len(q)) \in Seq(Broadcasters)
  OBVIOUS
<1> QED
  BY <1>1, <1>2

(* Every access of a shared field keeps the invariant. *)
LEMMA NextIInv == IInv /\ [Next]_vars => IInv'
<1> SUFFICES ASSUME IInv, [Next]_vars PROVE IInv'
  OBVIOUS
<1>0. TypeOK
  BY DEF IInv
<1> DEFINE MT == owner' \in Broadcasters \cup {"none"} /\ queue' \in Seq(Broadcasters)
<1>m1. UNCHANGED mutexVars => MT
  BY <1>0 DEF TypeOK, mutexVars
<1>m2. \A b \in Broadcasters : Lock(b) \/ Unlock(b) \/ StateChanged(b) => MT
  BY <1>0, MutexType
<1>m3. \A b \in Callers \cup News \cup {"loop"} : b \in Broadcasters
  BY DEF Broadcasters
<1> USE DEF IInv, TypeOK, NotStopped, PersistOnce, OneStops, JobIsLoop, StopCancels, CloseStops,
         CloseJoins, ClosedIsDone, InStop, Started, Callers, CloseSteps, BlockSteps, StopSteps, Goto,
         Return
<1> HIDE DEF MT
<1>1. ASSUME NEW c \in Callers, StopCas(c) PROVE IInv'
  <2>0. /\ pc[c] = "cas" /\ \A d \in Callers : d # c => pc'[d] = pc[d]
        /\ pc' \in [Callers -> CloseSteps \cup BlockSteps]
        /\ UNCHANGED <<looper, job, loop, persists, seen>>
    BY <1>1 DEF StopCas
  <2>1. MT
    BY <1>1, <1>m1 DEF StopCas
  <2>2. CASE "stopped" \in flags
    <3>1. pc'[c] = Return(c) /\ flags' = flags
      BY <1>1, <2>2 DEF StopCas
    <3> QED
      BY <2>0, <2>1, <2>2, <3>1 DEF MT
  <2>3. CASE "stopped" \notin flags
    <3>1. pc'[c] = "readJob" /\ flags' = flags \cup {"stopped"}
      BY <1>1, <2>3 DEF StopCas
    <3> QED
      BY <2>0, <2>1, <2>3, <3>1 DEF MT
  <2> QED
    BY <2>2, <2>3
<1>2. ASSUME NEW c \in Callers, StopReadJob(c) PROVE IInv'
  <2>0. /\ pc[c] = "readJob" /\ \A d \in Callers : d # c => pc'[d] = pc[d]
        /\ pc' \in [Callers -> CloseSteps \cup BlockSteps]
        /\ UNCHANGED <<looper, loop, persists>>
    BY <1>2 DEF StopReadJob
  <2>1. MT
    BY <1>2, <1>m1 DEF StopReadJob
  <2>2. CASE job = "null"
    <3>1. pc'[c] = "persist" /\ UNCHANGED <<job, flags, seen>>
      BY <1>2, <2>2 DEF StopReadJob
    <3>2. CASE c = "close"
      BY <2>0, <2>1, <2>2, <3>1, <3>2, SMTT(30) DEF MT
    <3>3. CASE c = "block"
      BY <2>0, <2>1, <2>2, <3>1, <3>3, SMTT(30) DEF MT
    <3> QED
      BY <3>2, <3>3
  <2>3. CASE job = "set"
    <3>1. /\ pc'[c] = "join" /\ job' = job /\ flags' = flags \cup {"cancelled"}
          /\ seen' = IF c = "close" THEN "job" ELSE seen
      BY <1>2, <2>3 DEF StopReadJob
    <3>2. CASE c = "close"
      BY <2>0, <2>1, <2>3, <3>1, <3>2, SMTT(30) DEF MT
    <3>3. CASE c = "block"
      BY <2>0, <2>1, <2>3, <3>1, <3>3, SMTT(30) DEF MT
    <3> QED
      BY <3>2, <3>3
  <2> QED
    BY <2>2, <2>3
<1>3. ASSUME NEW c \in Callers, StopJoin(c) PROVE IInv'
  BY <1>3, <1>m1 DEF StopJoin, MT
<1>4. ASSUME NEW c \in Callers, StopPersist(c) PROVE IInv'
  BY <1>4, <1>m1 DEF StopPersist, MT
<1>5. CASE Launch
  BY <1>5, <1>m1 DEF Launch, MT
<1>6. CASE BlockPosted
  BY <1>6, <1>m1 DEF BlockPosted, MT
<1>7. CASE BlockPublish
  BY <1>7, <1>m1 DEF BlockPublish, MT
<1>8. CASE StartCheck
  BY <1>8, <1>m1 DEF StartCheck, MT
<1>9. CASE StartLaunch
  BY <1>9, <1>m1 DEF StartLaunch, MT
<1>10. CASE StartRecheck
  BY <1>10, <1>m1 DEF StartRecheck, MT
<1>11. CASE BlockCheck
  BY <1>11, <1>m1 DEF BlockCheck, MT
<1>12. CASE BlockUnset
  BY <1>12, <1>m1 DEF BlockUnset, MT
<1>13. CASE Loop
  <2>1. /\ job = "set" /\ loop \in {"poll", "lock", "cast", "delay"}
        /\ loop' \in {"poll", "lock", "cast", "delay", "ended"}
    BY <1>13 DEF Loop, LoopPoll, LoopNeverRan, LoopLock, LoopCast, LoopStopsWaiting, LoopDelay
  <2>2. UNCHANGED <<pc, looper, job, flags, persists, seen>>
    BY <1>13 DEF Loop, LoopPoll, LoopNeverRan, LoopLock, LoopCast, LoopStopsWaiting, LoopDelay
  <2>3. MT
    <3>1. CASE LoopStopsWaiting
      BY <3>1, LeaveType DEF LoopStopsWaiting, MT
    <3>2. CASE LoopLock \/ LoopCast
      BY <3>2, <1>m2, <1>m3 DEF LoopLock, LoopCast
    <3>3. CASE LoopPoll \/ LoopNeverRan \/ LoopDelay
      BY <3>3, <1>m1 DEF LoopPoll, LoopNeverRan, LoopDelay
    <3> QED
      BY <1>13, <3>1, <3>2, <3>3 DEF Loop
  <2> QED
    BY <2>1, <2>2, <2>3 DEF MT
<1>14. CASE CloseBegin
  BY <1>14, <1>m1 DEF CloseBegin, MT
<1>15. CASE CloseRead
  BY <1>15, <1>m1 DEF CloseRead, MT
<1>16. CASE CloseClear
  BY <1>16, <1>m1 DEF CloseClear, MT
<1>17. CASE CloseShut
  BY <1>17, <1>m1 DEF CloseShut, MT
<1>18. CASE UNCHANGED vars
  BY <1>18, <1>m1 DEF vars, MT
<1>19. ASSUME NEW c \in Callers, StopLock(c) \/ StopCast(c) PROVE IInv'
  <2>1. MT
    BY <1>19, <1>m2, <1>m3 DEF StopLock, StopCast
  <2>2. /\ pc[c] \in {"lock", "cast"} /\ pc'[c] \in {"cast", Return(c)}
        /\ \A d \in Callers : d # c => pc'[d] = pc[d]
        /\ pc' \in [Callers -> CloseSteps \cup BlockSteps]
        /\ UNCHANGED <<looper, job, loop, flags, persists, seen>>
    BY <1>19 DEF StopLock, StopCast
  <2> QED
    BY <2>1, <2>2 DEF MT
<1>20. CASE ConnectedChanged \/ StoppingChanged
  <2>1. MT
    BY <1>20, <1>m2, <1>m3 DEF ConnectedChanged, StoppingChanged, News
  <2> QED
    <3>1. CASE ConnectedChanged
      BY <3>1, <2>1 DEF ConnectedChanged, MT
    <3>2. CASE StoppingChanged
      BY <3>2, <2>1 DEF StoppingChanged, MT
    <3> QED
      BY <1>20, <3>1, <3>2
<1>21. CASE Resume
  <2>1. MT /\ UNCHANGED <<pc, looper, job, loop, flags, persists, seen>>
    BY <1>21, <1>m2, <1>m3 DEF Resume, StateChangedResumes
  <2> QED
    BY <2>1 DEF MT
<1> QED
  BY <1>1, <1>2, <1>3, <1>4, <1>5, <1>6, <1>7, <1>8, <1>9, <1>10, <1>11, <1>12, <1>13, <1>14, <1>15,
     <1>16, <1>17, <1>18, <1>19, <1>20, <1>21 DEF Next, Block, Close, Stop

-----------------------------------------------------------------------------
(* The invariant holds in every reachable state. *)
THEOREM Invariance == Spec => []IInv
<1> HIDE DEF IInv
<1> QED
  BY InitIInv, NextIInv, PTL DEF Spec

(* The final statistics are persisted and broadcast at most once, whichever  *)
(* of close() and the block of launch() calls stop(), and however often.     *)
THEOREM PersistsOnce == Spec => []PersistOnce
<1>1. IInv => PersistOnce
  BY DEF IInv
<1> HIDE DEF IInv, PersistOnce
<1> QED
  BY Invariance, <1>1, PTL

(* A looper that close() found in the field is over or cancelled once both   *)
(* close() and the block of launch() have returned.                          *)
THEOREM FoundStops == Spec => []FoundLooperStops
<1>1. IInv => FoundLooperStops
  BY DEF IInv, TypeOK, CloseStops, StopCancels, JobIsLoop, FoundLooperStops, Returned, LoopOver,
         Callers, Started
<1> HIDE DEF IInv, FoundLooperStops
<1> QED
  BY Invariance, <1>1, PTL

(* A loop that close() found running has ended before the box is closed, so  *)
(* that no queryStats reaches a closed box.                                  *)
THEOREM JoinsFirst == Spec => []JoinedBeforeClose
<1>1. IInv => JoinedBeforeClose
  BY DEF IInv, CloseJoins, ClosedIsDone, JoinedBeforeClose
<1> HIDE DEF IInv, JoinedBeforeClose
<1> QED
  BY Invariance, <1>1, PTL
=============================================================================
