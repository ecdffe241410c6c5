-------------------------- MODULE TestInstanceProofs --------------------------
(***************************************************************************)
(* Proofs about TestInstance, for any set of cache files: what one         *)
(* connection test leaves behind, whenever it is cancelled.                *)
(***************************************************************************)
EXTENDS TestInstance, TLAPS

(* closeAfterLateInit is still to come, or under way. *)
Late == {"inited", "late", "lateClear", "lateBox"}

(* The winner of closed's compareAndSet closes the pool, then the box; the   *)
(* deletion is hooked onto the first of the two.                             *)
CloseOrder ==
  /\ (pool = "open") <=> (close \in {"none", "pool"})
  /\ (deleter = "none") <=> (pool = "open")
  /\ deleter \in {"clear", "done"} => proc # "alive"

(* A box that init made after close() looked for one is closed by the tester. *)
BoxHasCloser ==
  /\ tester \in Late \cup {"launch", "plugins", "start"} => box # "none"
  /\ close = "done" => box \in {"none", "closed"} \/ tester \in Late

(* A new file is listed before init or launch goes on. *)
FilesListed ==
  /\ unlisted \cap cacheFiles = {}
  /\ tester \notin {"init", "plugins"} => unlisted = {}

(* Without a cancellation nobody but the tester closes the instance, at the  *)
(* end of use { }, and what is on disk until then is listed.                 *)
Uncancelled ==
  cont # "cancelled" =>
    /\ tester \notin {"late", "lateClear", "lateBox"}
    /\ close # "none" => tester \in {"closing", "done"}
    /\ IF deleter \in {"none", "hooked"} THEN disk \subseteq cacheFiles \cup unlisted
       ELSE disk = {}

IInv == TypeOK /\ CloseOrder /\ BoxHasCloser /\ FilesListed /\ Uncancelled

-----------------------------------------------------------------------------
(* A new instance satisfies the invariant. *)
LEMMA InitIInv == Init => IInv
  BY DEF Init, IInv, TypeOK, CloseOrder, BoxHasCloser, FilesListed, Uncancelled, Late

(* Every step of the tester, of its caller and of close() keeps it. *)
LEMMA NextIInv == IInv /\ [Next]_vars => IInv'
<1> SUFFICES ASSUME IInv, [Next]_vars PROVE IInv'
  OBVIOUS
<1> USE DEF IInv, TypeOK, CloseOrder, BoxHasCloser, FilesListed, Uncancelled, Late, Goto, Resume,
            CloseBox, isClosed, fileVars
<1>1. CASE Begin
  BY <1>1 DEF Begin
<1>2. ASSUME NEW f \in Files, NewCacheFile(f) PROVE IInv'
  BY <1>2 DEF NewCacheFile
<1>3. ASSUME NEW f \in Files, AddCacheFile(f) PROVE IInv'
  BY <1>3 DEF AddCacheFile
<1>4. CASE InitDone
  BY <1>4 DEF InitDone
<1>5. CASE InitFails
  BY <1>5 DEF InitFails
<1>6. CASE Inited
  BY <1>6 DEF Inited
<1>7. CASE LateDelete
  BY <1>7 DEF LateDelete
<1>8. CASE LateClear
  BY <1>8 DEF LateClear
<1>9. CASE LateCloseBox
  BY <1>9 DEF LateCloseBox
<1>10. CASE Launch
  BY <1>10 DEF Launch
<1>11. CASE LaunchPlugins
  BY <1>11 DEF LaunchPlugins
<1>12. CASE LaunchFails
  BY <1>12 DEF LaunchFails
<1>13. CASE StartBox
  BY <1>13 DEF StartBox
<1>14. CASE Test
  BY <1>14 DEF Test
<1>15. CASE UseClose
  BY <1>15 DEF UseClose
<1>16. CASE UseClosed
  BY <1>16 DEF UseClosed
<1>17. CASE Cancel
  BY <1>17 DEF Cancel
<1>18. CASE OnFatal
  BY <1>18 DEF OnFatal
<1>19. CASE ClosePool
  BY <1>19 DEF ClosePool
<1>20. CASE CloseTheBox
  BY <1>20 DEF CloseTheBox
<1>21. CASE PoolReaps
  BY <1>21 DEF PoolReaps
<1>22. CASE Delete
  BY <1>22 DEF Delete
<1>23. CASE DeleteClear
  BY <1>23 DEF DeleteClear
<1>24. CASE UNCHANGED vars
  BY <1>24 DEF vars
<1> QED
  BY <1>1, <1>2, <1>3, <1>4, <1>5, <1>6, <1>7, <1>8, <1>9, <1>10, <1>11, <1>12, <1>13, <1>14,
     <1>15, <1>16, <1>17, <1>18, <1>19, <1>20, <1>21, <1>22, <1>23, <1>24 DEF Next, Tester, Others

(* The invariant holds in every reachable state. *)
THEOREM Invariance == Spec => []IInv
<1> HIDE DEF IInv
<1> QED
  BY InitIInv, NextIInv, PTL DEF Spec

-----------------------------------------------------------------------------
(* Type correctness; a file that is being created is on disk, also when the  *)
(* deletion that close() hooked runs at the same time.                       *)
THEOREM TypeCorrect == Spec => []TypeOK
<1>1. IInv => TypeOK
  BY DEF IInv
<1> HIDE DEF IInv, TypeOK
<1> QED
  BY Invariance, <1>1, PTL

(* When a test is over its box is closed and its plugins are dead, at        *)
(* whatever step of init and launch the caller gave up.                      *)
THEOREM TestsLeaveNothing == Spec => []NothingLingers
<1>1. IInv => NothingLingers
  BY DEF IInv, TypeOK, CloseOrder, BoxHasCloser, Late, NothingLingers, Over
<1> HIDE DEF IInv, NothingLingers
<1> QED
  BY Invariance, <1>1, PTL

(* A test that runs to its end has deleted every cache file it created. *)
THEOREM TestsDeleteFiles == Spec => []FilesGoneUnlessCancelled
<1>1. IInv => FilesGoneUnlessCancelled
  BY DEF IInv, Uncancelled, FilesGoneUnlessCancelled, Over
<1> HIDE DEF IInv, FilesGoneUnlessCancelled
<1> QED
  BY Invariance, <1>1, PTL
=============================================================================
