-------------------------- MODULE GroupUpdateProofs --------------------------
(***************************************************************************)
(* Proofs about the two halves of a group update.                          *)
(*                                                                         *)
(* GroupUpdater, for any number of calls in each process.  Exclusion rests *)
(* on two facts that neither lock gives alone: a process has one call      *)
(* between updating.add and updating.remove, so nobody else closes a       *)
(* channel of the lock file in the holder's process, and so the record     *)
(* lock stays with the holder until it releases it.                        *)
(*                                                                         *)
(* SubscriptionMerge, for any subscription and any number of updates and   *)
(* other writes.  The merge rests on what uniquifyNames computes: each     *)
(* downloaded node has a display name of its own, so no two nodes choose   *)
(* one row to replace.                                                     *)
(***************************************************************************)
EXTENDS GroupUpdater, SubscriptionMerge, FiniteSetTheorems, FunctionTheorems,
        WellFoundedInduction, TLAPS

(* Calls that may have put a progress entry, or are about to remove one.     *)
Progressing == {"update", "release", "close", "finish", "unprogress"}

(* Calls whose channel may be open.                                          *)
Opened == Holding \cup {"try", "closeFailed", "close"}

OneMarked ==
  \A t \in Tasks : pc[t] \in Marked =>
    /\ Proc(t) \in updating
    /\ \A u \in Tasks : pc[u] \in Marked /\ Proc(u) = Proc(t) => u = t

HolderOwns == \A t \in Tasks : pc[t] \in Holding => owner = Proc(t)

OwnerHolds == owner # "none" => \E t \in Tasks : Proc(t) = owner /\ pc[t] \in Holding

MarkerHasCall == \A p \in updating : \E t \in Tasks : Proc(t) = p /\ pc[t] \in Marked

ProgressHasCall == \A p \in progress : \E t \in Tasks : Proc(t) = p /\ pc[t] \in Progressing

ChannelHasCall == \A t \in channels : pc[t] \in Opened

(* A confirm that has not noticed a destroyed activity has a live one.        *)
DialogIsLive == \A t \in Tasks : pc[t] \in {"confirm", "shown"} => ui = "set"

(* The inductive invariant.                                                  *)
IInv ==
  /\ TypeOK /\ OneMarked /\ HolderOwns
  /\ OwnerHolds /\ MarkerHasCall /\ ProgressHasCall /\ ChannelHasCall
  /\ DialogIsLive

(* A call belongs to one of the two processes.                               *)
LEMMA ProcType == \A t \in Tasks : Proc(t) \in Procs
  BY DEF Proc, Procs

(* No call is under way initially.                                           *)
LEMMA InitIInv == Init => IInv
  BY DEF Init, IInv, TypeOK, OneMarked, HolderOwns, OwnerHolds, MarkerHasCall, ProgressHasCall,
         ChannelHasCall, DialogIsLive, Holding, Marked, Steps, Procs, Tasks

(* Every step keeps IInv: one case per action.                               *)
LEMMA NextIInv == IInv /\ [Next]_vars => IInv'
<1> SUFFICES ASSUME IInv, [Next]_vars PROVE IInv'
  OBVIOUS
<1>0. BgTasks \subseteq Tasks
  BY DEF Tasks
<1> USE ProcType, <1>0 DEF IInv, TypeOK, OneMarked, HolderOwns, OwnerHolds, MarkerHasCall, ProgressHasCall,
        ChannelHasCall, DialogIsLive, Holding, Marked, Opened, Progressing, Steps, Goto
<1>1. ASSUME NEW t \in Tasks, AddMarker(t) PROVE IInv'
  BY <1>1 DEF AddMarker
<1>2. ASSUME NEW t \in Tasks, OpenChannel(t) PROVE IInv'
  <2>1. CASE Goto(t, "open", "try") /\ channels' = channels \cup {t}
    BY <1>2, <2>1 DEF OpenChannel
  <2>2. CASE Goto(t, "open", "drop") /\ UNCHANGED channels
    BY <1>2, <2>2 DEF OpenChannel
  <2> QED
    BY <1>2, <2>1, <2>2 DEF OpenChannel
<1>3. ASSUME NEW t \in Tasks, TryLock(t) PROVE IInv'
  <2>1. CASE owner = "none" /\ Goto(t, "try", "locked") /\ owner' = Proc(t)
    <3>1. \A u \in Tasks : pc[u] \notin Holding
      BY <2>1 DEF Procs
    <3> QED
      BY <1>3, <2>1, <3>1 DEF TryLock
  <2>2. CASE Goto(t, "try", "closeFailed") /\ UNCHANGED owner
    BY <1>3, <2>2 DEF TryLock
  <2> QED
    BY <1>3, <2>1, <2>2 DEF TryLock
<1>4. ASSUME NEW t \in Tasks, CloseFailed(t) PROVE IInv'
  BY <1>4 DEF CloseFailed, OwnerAfterClose
<1>5. ASSUME NEW t \in Tasks, DropMarker(t) PROVE IInv'
  BY <1>5 DEF DropMarker
<1>6. ASSUME NEW t \in Tasks, Begin(t) PROVE IInv'
  BY <1>6, TasksAssumption DEF Begin, Tasks
<1>7. ASSUME NEW t \in Tasks, ShowDialog(t) PROVE IInv'
  BY <1>7 DEF ShowDialog, Tasks
<1>8. ASSUME NEW t \in Tasks, Answer(t) PROVE IInv'
  <2>1. CASE Goto(t, "shown", "update")
    BY <1>8, <2>1 DEF Answer
  <2>2. CASE Goto(t, "shown", "release")
    BY <1>8, <2>2 DEF Answer
  <2> QED
    BY <1>8, <2>1, <2>2 DEF Answer
<1>9. ASSUME NEW t \in Tasks, ForceResolve(t) PROVE IInv'
  BY <1>9 DEF ForceResolve
<1>10. ASSUME NEW t \in Tasks, UpdateEnds(t) PROVE IInv'
  BY <1>10 DEF UpdateEnds
<1>11. ASSUME NEW t \in Tasks, ReleaseLock(t) PROVE IInv'
  BY <1>11 DEF ReleaseLock
<1>12. ASSUME NEW t \in Tasks, CloseChannel(t) PROVE IInv'
  BY <1>12 DEF CloseChannel, OwnerAfterClose
<1>13. ASSUME NEW t \in Tasks, FinishMarker(t) PROVE IInv'
  BY <1>13 DEF FinishMarker
<1>14. ASSUME NEW t \in Tasks, FinishProgress(t) PROVE IInv'
  BY <1>14 DEF FinishProgress
<1>15. CASE CreateActivity
  BY <1>15 DEF CreateActivity
<1>16. CASE DestroyActivity
  BY <1>16 DEF DestroyActivity
<1>17. ASSUME NEW p \in Procs, Crash(p) PROVE IInv'
  <2>1. TypeOK' /\ OneMarked' /\ HolderOwns' /\ OwnerHolds' /\ MarkerHasCall' /\ ProgressHasCall'
    BY <1>17 DEF Crash
  <2>2. ChannelHasCall'
    BY <1>17 DEF Crash
  <2>3. DialogIsLive'
    BY <1>17 DEF Crash, Proc, Tasks
  <2> QED
    BY <2>1, <2>2, <2>3
<1>18. CASE UNCHANGED vars
  BY <1>18 DEF vars
<1> QED
  BY <1>1, <1>2, <1>3, <1>4, <1>5, <1>6, <1>7, <1>8, <1>9, <1>10, <1>11, <1>12, <1>13, <1>14, <1>15,
     <1>16, <1>17, <1>18 DEF Next, Own

-----------------------------------------------------------------------------
(* The invariant holds in every reachable state.                             *)
THEOREM Invariance == Spec => []IInv
<1> HIDE DEF IInv
<1> QED
  BY InitIInv, NextIInv, PTL DEF Spec

(* No two calls of executeUpdate hold the group at the same time: in one     *)
(* process the marker keeps the second out, between processes the lock does. *)
THEOREM UpdatesExclude == Spec => []Exclusion
<1>1. IInv => Exclusion
  BY ProcType DEF IInv, HolderOwns, OneMarked, Exclusion, Marked
<1> HIDE DEF IInv, Exclusion
<1> QED
  BY Invariance, <1>1, PTL

(* When the calls of a process are over, nothing of them is left in it: the  *)
(* finally blocks of executeUpdate cover every way out.                      *)
THEOREM CleansUp == Spec => []NothingLeftBehind
<1>1. IInv => NothingLeftBehind
  BY ProcType DEF IInv, TypeOK, OwnerHolds, MarkerHasCall, ProgressHasCall, ChannelHasCall,
                  NothingLeftBehind, Holding, Marked, Opened, Progressing, Procs
<1> HIDE DEF IInv, NothingLeftBehind
<1> QED
  BY Invariance, <1>1, PTL

(* No call waits for an answer from a dialog whose activity is destroyed.    *)
THEOREM DialogsAnswered == Spec => []DialogHasActivity
<1>1. IInv => DialogHasActivity
  BY DEF IInv, DialogIsLive, DialogHasActivity
<1> HIDE DEF IInv, DialogHasActivity
<1> QED
  BY Invariance, <1>1, PTL

-----------------------------------------------------------------------------
(* A step leaves everybody's hold alone, gives the group to a call when      *)
(* nobody has it, or takes it from the one that has it.                      *)
LEMMA HoldStep ==
  ASSUME IInv, IInv', [Next]_vars
  PROVE  \/ \A u \in Tasks : (pc'[u] \in Holding) <=> (pc[u] \in Holding)
         \/ /\ \A u \in Tasks : pc[u] \notin Holding
            /\ \E t \in Tasks : pc'[t] \in Holding
         \/ /\ \E t \in Tasks : pc[t] \in Holding
            /\ \A u \in Tasks : pc'[u] \notin Holding
<1> DEFINE Goal ==
      \/ \A u \in Tasks : (pc'[u] \in Holding) <=> (pc[u] \in Holding)
      \/ /\ \A u \in Tasks : pc[u] \notin Holding
         /\ \E t \in Tasks : pc'[t] \in Holding
      \/ /\ \E t \in Tasks : pc[t] \in Holding
         /\ \A u \in Tasks : pc'[u] \notin Holding
<1> USE ProcType DEF IInv, TypeOK, HolderOwns, OneMarked, Holding, Marked, Steps, Goto
<1>1. ASSUME NEW t \in Tasks,
             AddMarker(t) \/ OpenChannel(t) \/ CloseFailed(t) \/ DropMarker(t) \/ Begin(t)
               \/ ShowDialog(t) \/ Answer(t) \/ ForceResolve(t) \/ UpdateEnds(t)
               \/ CloseChannel(t) \/ FinishMarker(t) \/ FinishProgress(t)
      PROVE Goal
  BY <1>1 DEF AddMarker, OpenChannel, CloseFailed, DropMarker, Begin, ShowDialog, Answer,
              ForceResolve, UpdateEnds, CloseChannel, FinishMarker, FinishProgress
<1>2. ASSUME NEW t \in Tasks, TryLock(t) PROVE Goal
  <2>1. CASE owner = "none" /\ Goto(t, "try", "locked")
    <3>1. \A u \in Tasks : pc[u] \notin Holding
      BY <2>1 DEF Procs
    <3>2. pc'[t] \in Holding
      BY <2>1
    <3> QED
      BY <3>1, <3>2
  <2>2. CASE Goto(t, "try", "closeFailed")
    BY <2>2
  <2> QED
    BY <1>2, <2>1, <2>2 DEF TryLock
<1>3. ASSUME NEW t \in Tasks, ReleaseLock(t) PROVE Goal
  <2>1. pc[t] \in Holding
    BY <1>3 DEF ReleaseLock
  <2>2. owner' = "none"
    BY <1>3 DEF ReleaseLock
  <2>3. \A u \in Tasks : pc'[u] \notin Holding
    BY <2>2 DEF Procs
  <2> QED
    BY <2>1, <2>3
<1>4. CASE CreateActivity \/ DestroyActivity \/ UNCHANGED vars
  BY <1>4 DEF CreateActivity, DestroyActivity, vars
<1>5. ASSUME NEW p \in Procs, Crash(p) PROVE Goal
  <2>1. CASE owner = p
    <3>1. \A u \in Tasks : pc'[u] \notin Holding
      BY <1>5, <2>1 DEF Crash
    <3> QED
      BY <1>5, <3>1
  <2>2. CASE owner # p
    BY <1>5, <2>2 DEF Crash
  <2> QED
    BY <2>1, <2>2
<1> QED
  BY <1>1, <1>2, <1>3, <1>4, <1>5 DEF Next, Own

(* Every step of GroupUpdater is a step of UpdateExclusion or a stutter.     *)
LEMMA StepRefines ==
  ASSUME IInv, IInv', [Next]_vars, Exclusion'
  PROVE  [Abstract!Next]_Holders
<1>1. CASE \A u \in Tasks : (pc'[u] \in Holding) <=> (pc[u] \in Holding)
  BY <1>1 DEF Holders
<1>2. CASE (\A u \in Tasks : pc[u] \notin Holding) /\ \E t \in Tasks : pc'[t] \in Holding
  <2>1. PICK t \in Tasks : pc'[t] \in Holding
    BY <1>2
  <2>2. Holders = {}
    BY <1>2 DEF Holders
  <2>3. Holders' = {t}
    BY <2>1 DEF Holders, Exclusion
  <2> QED
    BY <2>2, <2>3 DEF Abstract!Next, Abstract!Acquire
<1>3. CASE (\E t \in Tasks : pc[t] \in Holding) /\ \A u \in Tasks : pc'[u] \notin Holding
  <2>1. Holders # {} /\ Holders' = {}
    BY <1>3 DEF Holders
  <2> QED
    BY <2>1 DEF Abstract!Next, Abstract!Release
<1> QED
  BY <1>1, <1>2, <1>3, HoldStep

(* executeUpdate implements UpdateExclusion: initially nobody holds the      *)
(* group, and every step of the marker, the lock file, the dialog or a dying *)
(* process maps to an Acquire, a Release or a stutter.                       *)
THEOREM Implements == Spec => ImplementsExclusion
<1>1. Init => Abstract!Init
  BY DEF Init, Abstract!Init, Holders, Holding
<1>2. IInv /\ IInv' /\ [Next]_vars /\ Exclusion' => [Abstract!Next]_Holders
  BY StepRefines
<1> HIDE DEF IInv, Exclusion, Holders
<1> QED
  BY <1>1, <1>2, Invariance, UpdatesExclude, PTL DEF Spec, ImplementsExclusion, Abstract!Spec

-----------------------------------------------------------------------------
(* SubscriptionMerge: numbers *)

(* A set of numbers that is not empty has a least one. *)
LEMMA Least ==
  ASSUME NEW S, S \subseteq Nat, S # {}
  PROVE  \E m \in S : \A k \in S : m <= k
<1> DEFINE Less == OpToRel(<, Nat)
<1>1. IsWellFoundedOn(Less, Nat)
  BY NatLessThanWellFounded
<1>2. PICK m \in S : \A k \in S : <<k, m>> \notin Less
  <2> HIDE DEF Less
  <2> QED
    BY <1>1, WFMin
<1>3. ASSUME NEW k \in S PROVE m <= k
  <2>1. k \in Nat /\ m \in Nat /\ ~(k < m)
    BY <1>2 DEF OpToRel
  <2> QED
    BY <2>1
<1> QED
  BY <1>3

(* Induction, over a set of numbers. *)
LEMMA Numbers ==
  ASSUME NEW K, K \subseteq Nat, 0 \in K, \A k \in K : k + 1 \in K
  PROVE  \A n \in Nat : n \in K
<1> SUFFICES ASSUME Nat \ K # {} PROVE FALSE
  OBVIOUS
<1>1. PICK m \in Nat \ K : \A k \in Nat \ K : m <= k
  BY Least
<1>2. m \in Nat /\ m # 0 /\ m - 1 \in Nat /\ ~(m <= m - 1)
  OBVIOUS
<1>3. m - 1 \in K
  BY <1>1, <1>2
<1> QED
  BY <1>2, <1>3

(* The numbers from 1 to n. *)
LEMMA IntervalSize ==
  ASSUME NEW n \in Nat
  PROVE  IsFiniteSet(1..n) /\ Cardinality(1..n) = n
<1>1. 1 \in Int /\ n \in Int
  OBVIOUS
<1>2. IsFiniteSet(1..n) /\ Cardinality(1..n) = IF 1 > n THEN 0 ELSE n - 1 + 1
  BY ONLY <1>1, FS_Interval, Zenon
<1> QED
  BY <1>2

-----------------------------------------------------------------------------
(* No two nodes with one display name. *)
Distinct(beans) ==
  \A i, j \in 1..Len(beans) : Display(beans[i]) = Display(beans[j]) => i = j

(* A display name has a base and a number. *)
LEMMA DisplayType ==
  ASSUME NEW b, b.name \in Names, b.addr \in Hosts \cup {Ip}
  PROVE  Display(b) \in Bases \X (0..MaxLen)
  BY MergeAssumption DEF Display, Names, Bases

(* Fewer than MaxLen nodes leave one of MaxLen names free. *)
LEMMA FreeName ==
  ASSUME NEW done \in Seq(Beans), Len(done) < MaxLen, NEW base \in Bases
  PROVE  \E k \in 1..MaxLen : /\ <<base, k>> \notin Displays(done)
                              /\ \A l \in 1..(k - 1) : <<base, l>> \in Displays(done)
<1> DEFINE S == {k \in 1..MaxLen : <<base, k>> \notin Displays(done)}
<1>0. MaxLen \in Nat /\ Len(done) \in Nat /\ DOMAIN done = 1..Len(done)
  BY MergeAssumption
<1>1. S # {}
  <2> SUFFICES ASSUME S = {} PROVE FALSE
    OBVIOUS
  <2>1. \A k \in 1..MaxLen : \E i \in 1..Len(done) : Display(done[i]) = <<base, k>>
    BY <1>0 DEF Displays
  <2> DEFINE f == [k \in 1..MaxLen |-> CHOOSE i \in 1..Len(done) : Display(done[i]) = <<base, k>>]
  <2>2. \A k \in 1..MaxLen : f[k] \in 1..Len(done) /\ Display(done[f[k]]) = <<base, k>>
    BY <2>1
  <2>3. f \in [1..MaxLen -> 1..Len(done)]
    BY <2>2
  <2> HIDE DEF f
  <2>4. \A k, l \in 1..MaxLen : f[k] = f[l] => k = l
    BY <2>2
  <2>5. f \in Injection(1..MaxLen, 1..Len(done))
    BY <2>3, <2>4 DEF Injection, IsInjective
  <2>6. /\ IsFiniteSet(1..Len(done)) /\ Cardinality(1..Len(done)) = Len(done)
        /\ Cardinality(1..MaxLen) = MaxLen
    BY <1>0, IntervalSize
  <2>7. Cardinality(1..MaxLen) <= Cardinality(1..Len(done))
    BY <2>5, <2>6, FS_Injection
  <2> QED
    BY <1>0, <2>6, <2>7
<1>2. S \subseteq Nat
  OBVIOUS
<1>3. PICK k \in S : \A l \in S : k <= l
  <2> HIDE DEF S
  <2> QED
    BY <1>1, <1>2, Least
<1>4. ASSUME NEW l \in 1..(k - 1) PROVE <<base, l>> \in Displays(done)
  <2>1. l \in 1..MaxLen /\ ~(k <= l)
    BY <1>0
  <2> QED
    BY <1>3, <2>1
<1> QED
  BY <1>3, <1>4

(* A renamed node is a node, and has a name of its own. *)
LEMMA RenamedIsNew ==
  ASSUME NEW done \in Seq(Beans), Len(done) < MaxLen, NEW bean \in Beans
  PROVE  /\ Renamed(Displays(done), bean) \in Beans
         /\ Display(Renamed(Displays(done), bean)) \notin Displays(done)
<1> DEFINE d == Display(bean)
           taken == Displays(done)
           P(nm) == /\ nm[1] = d[1] /\ nm[2] > 0 /\ <<d[1], nm[2]>> \notin taken
                    /\ \A k \in 1..(nm[2] - 1) : ~(<<d[1], k>> \notin taken)
           new == CHOOSE nm \in Names : P(nm)
<1>0. bean.name \in Names /\ bean.addr \in Hosts \cup {Ip}
  BY DEF Beans
<1>1. d \in Bases \X (0..MaxLen) /\ d[1] \in Bases
  BY <1>0, DisplayType
<1>2. CASE d \notin taken
  BY <1>2 DEF Renamed
<1>3. CASE d \in taken
  <2>1. PICK k \in 1..MaxLen : /\ <<d[1], k>> \notin taken
                               /\ \A l \in 1..(k - 1) : <<d[1], l>> \in taken
    BY <1>1, FreeName
  <2>2. <<d[1], k>> \in Names /\ k > 0
    BY <1>1, MergeAssumption DEF Names
  <2>3. P(<<d[1], k>>)
    BY <2>1, <2>2
  <2>4. new \in Names /\ P(new)
    <3> HIDE DEF P
    <3> QED
      BY <2>2, <2>3
  <2>5. Renamed(taken, bean) = [bean EXCEPT !.name = new]
    BY <1>3 DEF Renamed
  <2> HIDE DEF new
  <2>6. new # <<Blank, 0>> /\ new \in Bases \X (0..MaxLen)
    BY <2>4 DEF Names
  <2>7. new = <<d[1], new[2]>> /\ new \notin taken
    BY <2>4, <2>6
  <2>8. [bean EXCEPT !.name = new] \in Beans /\ [bean EXCEPT !.name = new].name = new
    BY <2>4 DEF Beans
  <2> QED
    BY <2>5, <2>6, <2>7, <2>8 DEF Display
<1> QED
  BY <1>2, <1>3

-----------------------------------------------------------------------------
(* The recursion of UniquifyNames, *)
UniqueStep(beans, g) ==
  [n \in 0..Len(beans) |->
     IF n = 0 THEN <<>> ELSE Append(g[n - 1], Renamed(Displays(g[n - 1]), beans[n]))]

Uniques(beans) == CHOOSE g : g = UniqueStep(beans, g)

(* and that of Deduplicate. *)
DedupStep(beans, g) ==
  [n \in 0..Len(beans) |->
     IF n = 0 THEN <<>>
     ELSE IF \E i \in DOMAIN g[n - 1] : g[n - 1][i].addr = beans[n].addr
     THEN g[n - 1] ELSE Append(g[n - 1], beans[n])]

Dedups(beans) == CHOOSE g : g = DedupStep(beans, g)

(* The definitions compute the last entry. *)
LEMMA LastEntry ==
  ASSUME NEW beans
  PROVE  /\ UniquifyNames(beans) = Uniques(beans)[Len(beans)]
         /\ Deduplicate(beans) = Dedups(beans)[Len(beans)]
  BY DEF UniquifyNames, Uniques, UniqueStep, Deduplicate, Dedups, DedupStep

(* The first recursion has a solution, *)
LEMMA UniquesExist ==
  ASSUME NEW beans, Len(beans) \in Nat
  PROVE  Uniques(beans) = UniqueStep(beans, Uniques(beans))
<1> DEFINE N == Len(beans)
           next(g, n) == Append(g[n - 1], Renamed(Displays(g[n - 1]), beans[n]))
           Good(g, n) == \A m \in 0..N : m <= n => g[m] = IF m = 0 THEN <<>> ELSE next(g, m)
           K == {n \in Nat : \E g : Good(g, n)}
<1>1. 0 \in K
  <2> DEFINE g == [m \in 0..N |-> <<>>]
  <2>1. Good(g, 0)
    OBVIOUS
  <2> HIDE DEF Good, g
  <2> QED
    BY <2>1
<1>2. ASSUME NEW n \in K PROVE n + 1 \in K
  <2>0. n \in Nat
    OBVIOUS
  <2>1. PICK g : Good(g, n)
    OBVIOUS
  <2> DEFINE h == [m \in 0..N |-> IF m = n + 1 THEN next(g, m) ELSE g[m]]
  <2>2. Good(h, n + 1)
    <3> SUFFICES ASSUME NEW m \in 0..N, m <= n + 1
                 PROVE  h[m] = IF m = 0 THEN <<>> ELSE next(h, m)
      OBVIOUS
    <3>1. CASE m = 0
      <4>1. m # n + 1 /\ m <= n
        BY <2>0, <3>1
      <4>2. h[m] = g[m]
        BY <4>1
      <4> HIDE DEF h, next
      <4> QED
        BY <2>1, <3>1, <4>1, <4>2
    <3>2. CASE m # 0
      <4>1. m - 1 \in 0..N /\ m - 1 # n + 1
        BY <2>0, <3>2
      <4>2. h[m - 1] = g[m - 1]
        BY <4>1
      <4>3. next(h, m) = next(g, m)
        <5> HIDE DEF h
        <5> QED
          BY <4>2
      <4>4. h[m] = next(g, m)
        <5>1. CASE m = n + 1
          BY <5>1
        <5>2. CASE m # n + 1
          <6>1. m <= n
            BY <2>0, <5>2
          <6>2. h[m] = g[m]
            BY <5>2
          <6> HIDE DEF h, next
          <6> QED
            BY <2>1, <3>2, <6>1, <6>2
        <5> QED
          BY <5>1, <5>2
      <4> HIDE DEF h, next
      <4> QED
        BY <3>2, <4>3, <4>4
    <3> QED
      BY <3>1, <3>2
  <2> HIDE DEF Good, h
  <2> QED
    BY <2>0, <2>2
<1>3. N \in K
  <2>1. K \subseteq Nat /\ N \in Nat
    OBVIOUS
  <2> HIDE DEF K, N
  <2> QED
    BY <1>1, <1>2, <2>1, Numbers
<1>4. PICK g : Good(g, N)
  <2> HIDE DEF Good
  <2> QED
    BY <1>3
<1>5. \A m \in 0..N : g[m] = IF m = 0 THEN <<>> ELSE next(g, m)
  BY <1>4
<1> DEFINE f == [m \in 0..N |-> g[m]]
<1>6. f = UniqueStep(beans, f)
  <2>1. ASSUME NEW m \in 0..N PROVE f[m] = IF m = 0 THEN <<>> ELSE next(f, m)
    <3>1. CASE m = 0
      BY <1>5, <3>1
    <3>2. CASE m # 0
      <4>1. m - 1 \in 0..N
        BY <3>2
      <4>2. f[m - 1] = g[m - 1] /\ f[m] = g[m]
        BY <4>1
      <4> HIDE DEF f
      <4> QED
        BY <1>5, <3>2, <4>2
    <3> QED
      BY <3>1, <3>2
  <2> QED
    BY <2>1 DEF UniqueStep
<1> HIDE DEF f
<1> QED
  BY <1>6 DEF Uniques

(* and so has the second. *)
LEMMA DedupsExist ==
  ASSUME NEW beans, Len(beans) \in Nat
  PROVE  Dedups(beans) = DedupStep(beans, Dedups(beans))
<1> DEFINE N == Len(beans)
           next(g, n) == IF \E i \in DOMAIN g[n - 1] : g[n - 1][i].addr = beans[n].addr
                         THEN g[n - 1] ELSE Append(g[n - 1], beans[n])
           Good(g, n) == \A m \in 0..N : m <= n => g[m] = IF m = 0 THEN <<>> ELSE next(g, m)
           K == {n \in Nat : \E g : Good(g, n)}
<1>1. 0 \in K
  <2> DEFINE g == [m \in 0..N |-> <<>>]
  <2>1. Good(g, 0)
    OBVIOUS
  <2> HIDE DEF Good, g
  <2> QED
    BY <2>1
<1>2. ASSUME NEW n \in K PROVE n + 1 \in K
  <2>0. n \in Nat
    OBVIOUS
  <2>1. PICK g : Good(g, n)
    OBVIOUS
  <2> DEFINE h == [m \in 0..N |-> IF m = n + 1 THEN next(g, m) ELSE g[m]]
  <2>2. Good(h, n + 1)
    <3> SUFFICES ASSUME NEW m \in 0..N, m <= n + 1
                 PROVE  h[m] = IF m = 0 THEN <<>> ELSE next(h, m)
      OBVIOUS
    <3>1. CASE m = 0
      <4>1. m # n + 1 /\ m <= n
        BY <2>0, <3>1
      <4>2. h[m] = g[m]
        BY <4>1
      <4> HIDE DEF h, next
      <4> QED
        BY <2>1, <3>1, <4>1, <4>2
    <3>2. CASE m # 0
      <4>1. m - 1 \in 0..N /\ m - 1 # n + 1
        BY <2>0, <3>2
      <4>2. h[m - 1] = g[m - 1]
        BY <4>1
      <4>3. next(h, m) = next(g, m)
        <5> HIDE DEF h
        <5> QED
          BY <4>2
      <4>4. h[m] = next(g, m)
        <5>1. CASE m = n + 1
          BY <5>1
        <5>2. CASE m # n + 1
          <6>1. m <= n
            BY <2>0, <5>2
          <6>2. h[m] = g[m]
            BY <5>2
          <6> HIDE DEF h, next
          <6> QED
            BY <2>1, <3>2, <6>1, <6>2
        <5> QED
          BY <5>1, <5>2
      <4> HIDE DEF h, next
      <4> QED
        BY <3>2, <4>3, <4>4
    <3> QED
      BY <3>1, <3>2
  <2> HIDE DEF Good, h
  <2> QED
    BY <2>0, <2>2
<1>3. N \in K
  <2>1. K \subseteq Nat /\ N \in Nat
    OBVIOUS
  <2> HIDE DEF K, N
  <2> QED
    BY <1>1, <1>2, <2>1, Numbers
<1>4. PICK g : Good(g, N)
  <2> HIDE DEF Good
  <2> QED
    BY <1>3
<1>5. \A m \in 0..N : g[m] = IF m = 0 THEN <<>> ELSE next(g, m)
  BY <1>4
<1> DEFINE f == [m \in 0..N |-> g[m]]
<1>6. f = DedupStep(beans, f)
  <2>1. ASSUME NEW m \in 0..N PROVE f[m] = IF m = 0 THEN <<>> ELSE next(f, m)
    <3>1. CASE m = 0
      BY <1>5, <3>1
    <3>2. CASE m # 0
      <4>1. m - 1 \in 0..N
        BY <3>2
      <4>2. f[m - 1] = g[m - 1] /\ f[m] = g[m]
        BY <4>1
      <4> HIDE DEF f
      <4> QED
        BY <1>5, <3>2, <4>2
    <3> QED
      BY <3>1, <3>2
  <2> QED
    BY <2>1 DEF DedupStep
<1> HIDE DEF f
<1> QED
  BY <1>6 DEF Dedups

(* uniquifyNames keeps every node and gives each a name of its own. *)
LEMMA UniquifyResult ==
  ASSUME NEW beans \in Seq(Beans), Len(beans) <= MaxLen
  PROVE  /\ UniquifyNames(beans) \in Seq(Beans) /\ Len(UniquifyNames(beans)) = Len(beans)
         /\ Distinct(UniquifyNames(beans))
<1> DEFINE N == Len(beans)
           T == Uniques(beans)
           Fine(n) == T[n] \in Seq(Beans) /\ Len(T[n]) = n /\ Distinct(T[n])
           K == {n \in Nat : n <= N => Fine(n)}
<1>0. N \in Nat /\ MaxLen \in Nat /\ \A n \in 1..N : beans[n] \in Beans
  BY MergeAssumption
<1>1. \A n \in 0..N : T[n] = IF n = 0 THEN <<>>
                             ELSE Append(T[n - 1], Renamed(Displays(T[n - 1]), beans[n]))
  <2>1. T = UniqueStep(beans, T)
    BY <1>0, UniquesExist
  <2> HIDE DEF T
  <2>2. \A n \in 0..N : UniqueStep(beans, T)[n] =
          IF n = 0 THEN <<>> ELSE Append(T[n - 1], Renamed(Displays(T[n - 1]), beans[n]))
    BY DEF UniqueStep
  <2> QED
    BY <2>1, <2>2
<1> HIDE DEF T
<1>2. 0 \in K
  <2>1. T[0] = <<>>
    BY <1>0, <1>1
  <2>2. <<>> \in Seq(Beans) /\ Len(<<>>) = 0 /\ 1..0 = {}
    OBVIOUS
  <2>3. Distinct(<<>>)
    BY <2>2 DEF Distinct
  <2>4. Fine(0)
    BY <2>1, <2>2, <2>3
  <2> HIDE DEF Fine
  <2> QED
    BY <2>4
<1>3. ASSUME NEW n \in K PROVE n + 1 \in K
  <2> SUFFICES ASSUME n + 1 <= N PROVE Fine(n + 1)
    OBVIOUS
  <2>1. n \in Nat /\ n + 1 \in 1..N /\ n + 1 # 0 /\ (n + 1) - 1 = n /\ n < MaxLen
    BY <1>0
  <2>2. Fine(n)
    BY <1>0, <2>1
  <2> DEFINE b == Renamed(Displays(T[n]), beans[n + 1])
  <2>3. T[n + 1] = Append(T[n], b)
    <3>1. n + 1 \in 0..N
      BY <2>1
    <3>2. T[n + 1] = Append(T[(n + 1) - 1], Renamed(Displays(T[(n + 1) - 1]), beans[n + 1]))
      BY <1>1, <2>1, <3>1
    <3> QED
      BY <2>1, <3>2
  <2>4. b \in Beans /\ Display(b) \notin Displays(T[n])
    BY <1>0, <2>1, <2>2, RenamedIsNew
  <2> HIDE DEF b
  <2>5. /\ T[n + 1] \in Seq(Beans) /\ Len(T[n + 1]) = n + 1
        /\ T[n + 1][n + 1] = b /\ \A i \in 1..n : T[n + 1][i] = T[n][i]
    BY <2>1, <2>2, <2>3, <2>4
  <2>6. \A i \in 1..n : Display(T[n][i]) \in Displays(T[n])
    BY <2>2 DEF Displays
  <2>7. Distinct(T[n + 1])
    <3> SUFFICES ASSUME NEW i \in 1..(n + 1), NEW j \in 1..(n + 1),
                        Display(T[n + 1][i]) = Display(T[n + 1][j])
                 PROVE  i = j
      BY <2>5 DEF Distinct
    <3>1. i \in 1..n \/ i = n + 1
      BY <2>1
    <3>2. j \in 1..n \/ j = n + 1
      BY <2>1
    <3>3. CASE i \in 1..n /\ j \in 1..n
      BY <2>2, <2>5, <3>3 DEF Distinct
    <3>4. CASE i \in 1..n /\ j = n + 1
      BY <2>4, <2>5, <2>6, <3>4
    <3>5. CASE i = n + 1 /\ j \in 1..n
      BY <2>4, <2>5, <2>6, <3>5
    <3> QED
      BY <3>1, <3>2, <3>3, <3>4, <3>5
  <2> QED
    BY <2>5, <2>7
<1>4. N \in K
  <2>1. K \subseteq Nat
    OBVIOUS
  <2> HIDE DEF K, N
  <2> QED
    BY <1>0, <1>2, <1>3, <2>1, Numbers
<1>5. Fine(N)
  <2> HIDE DEF Fine
  <2> QED
    BY <1>0, <1>4
<1>6. UniquifyNames(beans) = T[N]
  BY LastEntry DEF T
<1> QED
  BY <1>5, <1>6

(* The deduplicated nodes are some of them. *)
LEMMA DeduplicateResult ==
  ASSUME NEW beans \in Seq(Beans)
  PROVE  Deduplicate(beans) \in Seq(Beans) /\ Len(Deduplicate(beans)) <= Len(beans)
<1> DEFINE N == Len(beans)
           T == Dedups(beans)
           Fine(n) == T[n] \in Seq(Beans) /\ Len(T[n]) <= n
           K == {n \in Nat : n <= N => Fine(n)}
<1>0. N \in Nat /\ \A n \in 1..N : beans[n] \in Beans
  OBVIOUS
<1>1. \A n \in 0..N : /\ n = 0 => T[n] = <<>>
                      /\ n # 0 => T[n] \in {T[n - 1], Append(T[n - 1], beans[n])}
  <2>1. T = DedupStep(beans, T)
    BY <1>0, DedupsExist
  <2> HIDE DEF T
  <2>2. \A n \in 0..N : /\ n = 0 => DedupStep(beans, T)[n] = <<>>
                        /\ n # 0 => DedupStep(beans, T)[n] \in {T[n - 1], Append(T[n - 1], beans[n])}
    BY DEF DedupStep
  <2> QED
    BY <2>1, <2>2
<1> HIDE DEF T
<1>2. 0 \in K
  <2>1. T[0] = <<>>
    BY <1>0, <1>1
  <2>2. <<>> \in Seq(Beans) /\ Len(<<>>) = 0
    OBVIOUS
  <2>3. Fine(0)
    BY <2>1, <2>2
  <2> HIDE DEF Fine
  <2> QED
    BY <2>3
<1>3. ASSUME NEW n \in K PROVE n + 1 \in K
  <2> SUFFICES ASSUME n + 1 <= N PROVE Fine(n + 1)
    OBVIOUS
  <2>1. n \in Nat /\ n + 1 \in 1..N /\ n + 1 # 0 /\ (n + 1) - 1 = n
    BY <1>0
  <2>2. Fine(n)
    BY <1>0, <2>1
  <2>3. T[n + 1] = T[n] \/ T[n + 1] = Append(T[n], beans[n + 1])
    <3>1. n + 1 \in 0..N
      BY <2>1
    <3>2. T[n + 1] \in {T[(n + 1) - 1], Append(T[(n + 1) - 1], beans[n + 1])}
      BY <1>1, <2>1, <3>1
    <3> QED
      BY <2>1, <3>2
  <2>4. CASE T[n + 1] = T[n]
    BY <2>1, <2>2, <2>4
  <2>5. CASE T[n + 1] = Append(T[n], beans[n + 1])
    <3>1. beans[n + 1] \in Beans
      BY <1>0, <2>1
    <3>2. Append(T[n], beans[n + 1]) \in Seq(Beans) /\ Len(Append(T[n], beans[n + 1])) = Len(T[n]) + 1
      BY <2>2, <3>1
    <3> QED
      BY <2>1, <2>2, <2>5, <3>2
  <2> QED
    BY <2>3, <2>4, <2>5
<1>4. N \in K
  <2>1. K \subseteq Nat
    OBVIOUS
  <2> HIDE DEF K, N
  <2> QED
    BY <1>0, <1>2, <1>3, <2>1, Numbers
<1>5. Fine(N)
  <2> HIDE DEF Fine
  <2> QED
    BY <1>0, <1>4
<1>6. Deduplicate(beans) = T[N]
  BY LastEntry DEF T
<1> QED
  BY <1>5, <1>6

-----------------------------------------------------------------------------
(* The inductive invariant *)

RowType ==
  [name : Names, addr : Hosts \cup {Ip}, custom : 0..1, stat : Nat, order : Nat]

(* A table of rows whose ids have all been given out. *)
Table(f) == DOMAIN f \subseteq 1..(nextId - 1) /\ \A i \in DOMAIN f : f[i] \in RowType

StoreTypes ==
  /\ nextId \in Nat \ {0} /\ Table(rows) /\ Table(snap)
  /\ list \in Seq(Beans) /\ Len(list) <= MaxLen

(* What is about to be committed has a name for each node. *)
PlanIsDistinct == stage = "commit" => Distinct(list)

(* Two rows that may differ in their test results only. *)
SameButStat(r, s) ==
  r.name = s.name /\ r.addr = s.addr /\ r.custom = s.custom /\ r.order = s.order

(* While nobody else has written, what the update read is what is there. *)
SnapshotIsFresh ==
  stage # "idle" /\ touched = {} =>
    DOMAIN snap = DOMAIN rows /\ \A i \in DOMAIN rows : SameButStat(rows[i], snap[i])

MergeInv == StoreTypes /\ NoOrphans /\ PlanIsDistinct /\ SnapshotIsFresh

-----------------------------------------------------------------------------
(* The plan *)

(* Of the rows with a node's name one is the target. *)
LEMMA TargetIn ==
  ASSUME StoreTypes, NEW bean
  PROVE  \/ Target(bean) = 0 /\ Matching(bean) = {}
         \/ Target(bean) \in Matching(bean)
<1> DEFINE M == Matching(bean)
<1>0. M \subseteq Nat /\ \A i \in M : i \in DOMAIN snap /\ snap[i].order \in Nat
  BY DEF Matching, StoreTypes, Table, RowType
<1>1. CASE M = {}
  BY <1>1 DEF Target
<1>2. CASE M # {}
  <2> DEFINE O == {snap[i].order : i \in M}
  <2>1. PICK m \in O : \A o \in O : m <= o
    <3>1. O \subseteq Nat /\ O # {}
      BY <1>0, <1>2
    <3> HIDE DEF O
    <3> QED
      BY <3>1, Least
  <2> DEFINE F == {i \in M : snap[i].order = m}
  <2>2. PICK i \in F : \A j \in F : i <= j
    <3>1. F \subseteq Nat /\ F # {}
      BY <1>0, <2>1
    <3> HIDE DEF F
    <3> QED
      BY <3>1, Least
  <2>3. ASSUME NEW j \in M PROVE Before(snap, i, j)
    <3>1. m \in Nat /\ snap[j].order \in Nat /\ m <= snap[j].order /\ snap[i].order = m
      BY <1>0, <2>1
    <3>2. CASE snap[j].order = m
      BY <2>2, <3>1, <3>2 DEF Before
    <3>3. CASE snap[j].order # m
      BY <3>1, <3>3 DEF Before
    <3> QED
      BY <3>2, <3>3
  <2>4. i \in M
    OBVIOUS
  <2> HIDE DEF F, O
  <2> QED
    BY <1>2, <2>3, <2>4 DEF Target
<1> QED
  BY <1>1, <1>2

(* Two nodes have not one target. *)
LEMMA TargetsDiffer ==
  ASSUME StoreTypes, Distinct(list), NEW k \in DOMAIN list, NEW l \in DOMAIN list,
         Target(list[k]) = Target(list[l]), Target(list[k]) # 0
  PROVE  k = l
<1>1. Target(list[k]) \in Matching(list[k]) /\ Target(list[l]) \in Matching(list[l])
  BY TargetIn
<1>2. Display(list[k]) = Display(list[l])
  BY <1>1 DEF Matching
<1>3. DOMAIN list = 1..Len(list)
  BY DEF StoreTypes
<1> QED
  BY <1>2, <1>3 DEF Distinct

(* New rows get ids that follow those given out, *)
LEMMA InsertedIds ==
  ASSUME StoreTypes
  PROVE  /\ Cardinality(ToInsert) \in Nat
         /\ \A k \in ToInsert : IdFor(k) \in nextId..(nextId + Cardinality(ToInsert) - 1)
         /\ \A k, l \in ToInsert : IdFor(k) = IdFor(l) => k = l
<1> DEFINE B(k) == {j \in ToInsert : j < k}
<1>0. nextId \in Nat \ {0} /\ Len(list) \in Nat /\ DOMAIN list = 1..Len(list)
  BY DEF StoreTypes
<1>1. ToInsert \subseteq 1..Len(list) /\ ToInsert \subseteq Nat
  BY <1>0 DEF ToInsert
<1>2. IsFiniteSet(ToInsert)
  BY <1>0, <1>1, IntervalSize, FS_Subset
<1>3. Cardinality(ToInsert) \in Nat
  BY <1>2, FS_CardinalityType
<1>4. \A k \in ToInsert : B(k) \in SUBSET ToInsert /\ k \notin B(k)
  BY <1>1
<1>5. ASSUME NEW k \in ToInsert PROVE IsFiniteSet(B(k)) /\ Cardinality(B(k)) \in Nat
  <2> HIDE DEF B
  <2> QED
    BY <1>2, <1>4, FS_Subset, FS_CardinalityType
<1>6. ASSUME NEW k \in ToInsert PROVE Cardinality(B(k)) < Cardinality(ToInsert)
  <2>1. B(k) # ToInsert
    BY <1>4
  <2> HIDE DEF B
  <2>2. Cardinality(B(k)) <= Cardinality(ToInsert) /\ Cardinality(B(k)) # Cardinality(ToInsert)
    BY <1>2, <1>4, <2>1, FS_Subset
  <2> QED
    BY <1>3, <1>5, <2>2
<1>7. ASSUME NEW k \in ToInsert, NEW l \in ToInsert, k < l
      PROVE  Cardinality(B(k)) < Cardinality(B(l))
  <2>1. B(k) \cup {k} \in SUBSET B(l)
    <3>1. k \in Nat /\ l \in Nat /\ k \in B(l)
      BY <1>1, <1>7
    <3>2. ASSUME NEW j \in B(k) PROVE j \in B(l)
      <4>1. j \in ToInsert /\ j \in Nat /\ j < k
        BY <1>1
      <4> QED
        BY <1>7, <3>1, <4>1
    <3> HIDE DEF B
    <3> QED
      BY <3>1, <3>2
  <2>2. k \notin B(k)
    BY <1>4
  <2> HIDE DEF B
  <2>3. Cardinality(B(k) \cup {k}) = Cardinality(B(k)) + 1
    BY <1>5, <2>2, FS_AddElement
  <2>4. Cardinality(B(k) \cup {k}) <= Cardinality(B(l))
    BY <1>5, <2>1, FS_Subset
  <2> QED
    BY <1>5, <2>3, <2>4
<1>8. \A k \in ToInsert : IdFor(k) = nextId + Cardinality(B(k))
  BY DEF IdFor
<1> HIDE DEF B
<1>9. ASSUME NEW k \in ToInsert
      PROVE  IdFor(k) \in nextId..(nextId + Cardinality(ToInsert) - 1)
  BY <1>0, <1>3, <1>5, <1>6, <1>8
<1>10. ASSUME NEW k \in ToInsert, NEW l \in ToInsert, IdFor(k) = IdFor(l) PROVE k = l
  <2>1. Cardinality(B(k)) = Cardinality(B(l)) /\ Cardinality(B(k)) \in Nat
    BY <1>0, <1>5, <1>8, <1>10
  <2>2. ~(k < l) /\ ~(l < k)
    BY <1>7, <2>1
  <2> QED
    BY <1>1, <2>2
<1> QED
  BY <1>3, <1>9, <1>10

(* What the transaction leaves in a row: a new node, *)
LEMMA WrittenInserted ==
  ASSUME StoreTypes, NEW k \in ToInsert
  PROVE  IdFor(k) \in DOMAIN Written /\ Written[IdFor(k)] = Inserted(k)
<1>1. IdFor(k) >= nextId
  BY InsertedIds DEF StoreTypes
<1>2. (CHOOSE l \in ToInsert : IdFor(l) = IdFor(k)) = k
  BY InsertedIds
<1> QED
  BY <1>1, <1>2 DEF Written

(* a node that was there with what was downloaded for it, *)
LEMMA WrittenMerged ==
  ASSUME StoreTypes, Distinct(list), NEW k \in DOMAIN list, Target(list[k]) \in DOMAIN rows
  PROVE  /\ Target(list[k]) \in DOMAIN Written
         /\ Written[Target(list[k])] = Merged(rows[Target(list[k])], snap[Target(list[k])], k)
<1> DEFINE i == Target(list[k])
<1>1. i \in 1..(nextId - 1) /\ i # 0 /\ ~(i >= nextId)
  BY DEF StoreTypes, Table
<1>2. i \in Kept
  BY DEF Kept, ToDelete
<1>3. (CHOOSE l \in DOMAIN list : Target(list[l]) = i) = k
  BY <1>1, TargetsDiffer
<1> HIDE DEF i
<1>4. Written[i] = Merged(rows[i], snap[i], CHOOSE l \in DOMAIN list : Target(list[l]) = i)
  BY <1>1, <1>2 DEF Written, i
<1> QED
  BY <1>2, <1>3, <1>4 DEF Written, i

(* or a row that the update had not read. *)
LEMMA WrittenKept ==
  ASSUME StoreTypes, NEW i \in Kept, \A k \in DOMAIN list : Target(list[k]) # i
  PROVE  i \in DOMAIN Written /\ Written[i] = rows[i]
<1>1. i \in 1..(nextId - 1) /\ ~(i >= nextId)
  BY DEF Kept, StoreTypes, Table
<1> QED
  BY <1>1 DEF Written

(* No other rows are left. *)
LEMMA WrittenDomain ==
  ASSUME StoreTypes
  PROVE  /\ DOMAIN Written = Kept \cup {IdFor(k) : k \in ToInsert}
         /\ Kept \subseteq DOMAIN rows
  BY DEF Written, Kept

-----------------------------------------------------------------------------
(* The steps *)

(* A downloaded list is a list of nodes. *)
LEMMA DownloadsType ==
  ASSUME NEW raw \in Downloads
  PROVE  raw \in Seq(Beans) /\ Len(raw) <= MaxLen
<1>1. PICK n \in 1..MaxLen :
        raw \in [1..n -> [name : {<<t, 0>> : t \in Titles \cup {Blank}}, addr : Hosts]]
  BY DEF Downloads
<1>2. n \in Nat /\ n <= MaxLen /\ 0 \in 0..MaxLen
  BY MergeAssumption
<1>3. \A i \in 1..n : raw[i] \in Beans
  <2>1. \A t \in Titles \cup {Blank} : <<t, 0>> \in Names
    BY <1>2 DEF Names, Bases
  <2> QED
    BY <1>1, <2>1 DEF Beans
<1>4. raw \in [1..n -> Beans]
  BY <1>1, <1>3
<1> QED
  BY <1>2, <1>4

(* What Merged writes is a row, with at least the results there were. *)
LEMMA MergedType ==
  ASSUME NEW cur \in RowType, NEW old \in RowType, NEW k \in Nat, list[k] \in Beans
  PROVE  Merged(cur, old, k) \in RowType /\ Merged(cur, old, k).stat = cur.stat
  BY DEF Merged, RowType, Beans

(* The rows after a commit: typed, and no test result is lost. *)
LEMMA CommitTypes ==
  ASSUME StoreTypes, Distinct(list)
  PROVE  /\ \A i \in DOMAIN Written : /\ Written[i] \in RowType
                                      /\ i \in 1..(nextId + Cardinality(ToInsert) - 1)
         /\ \A i \in DOMAIN Written : i \in 1..(nextId - 1) => i \in DOMAIN rows
         /\ \A i \in DOMAIN Written \cap DOMAIN rows : Written[i].stat = rows[i].stat
<1>0. /\ nextId \in Nat \ {0} /\ Cardinality(ToInsert) \in Nat
      /\ DOMAIN list = 1..Len(list) /\ \A k \in DOMAIN list : list[k] \in Beans
  BY InsertedIds DEF StoreTypes
<1>1. ASSUME NEW k \in ToInsert
      PROVE  /\ Written[IdFor(k)] \in RowType
             /\ IdFor(k) \in 1..(nextId + Cardinality(ToInsert) - 1)
             /\ IdFor(k) \notin 1..(nextId - 1) /\ IdFor(k) \notin DOMAIN rows
  <2>1. IdFor(k) \in nextId..(nextId + Cardinality(ToInsert) - 1)
    BY InsertedIds
  <2>2. k \in DOMAIN list /\ k \in Nat
    BY <1>0 DEF ToInsert
  <2>3. Inserted(k) \in RowType
    BY <1>0, <2>2 DEF Inserted, RowType, Beans
  <2>4. Written[IdFor(k)] \in RowType
    BY <2>3, WrittenInserted
  <2>5. IdFor(k) \notin 1..(nextId - 1) /\ IdFor(k) \in 1..(nextId + Cardinality(ToInsert) - 1)
    BY <1>0, <2>1
  <2> QED
    BY <2>4, <2>5 DEF StoreTypes, Table
<1>2. ASSUME NEW i \in Kept
      PROVE  /\ Written[i] \in RowType /\ Written[i].stat = rows[i].stat
             /\ i \in 1..(nextId + Cardinality(ToInsert) - 1) /\ i \in DOMAIN rows
  <2>1. i \in DOMAIN rows /\ rows[i] \in RowType /\ i \in 1..(nextId - 1)
    BY DEF Kept, StoreTypes, Table
  <2>2. i \in 1..(nextId + Cardinality(ToInsert) - 1)
    BY <1>0, <2>1
  <2>3. CASE \A k \in DOMAIN list : Target(list[k]) # i
    BY <2>1, <2>2, <2>3, WrittenKept
  <2>4. ASSUME NEW k \in DOMAIN list, Target(list[k]) = i
        PROVE  Written[i] \in RowType /\ Written[i].stat = rows[i].stat
    <3>1. i \in DOMAIN snap /\ snap[i] \in RowType
      <4>1. i # 0
        BY <1>0, <2>1
      <4> QED
        BY <2>4, <4>1, TargetIn DEF Matching, StoreTypes, Table
    <3>2. Written[i] = Merged(rows[i], snap[i], k)
      BY <2>1, <2>4, WrittenMerged
    <3>3. k \in Nat /\ list[k] \in Beans
      BY <1>0
    <3>4. /\ Merged(rows[i], snap[i], k) \in RowType
          /\ Merged(rows[i], snap[i], k).stat = rows[i].stat
      BY ONLY <2>1, <3>1, <3>3, MergedType
    <3> QED
      BY <3>2, <3>4
  <2> QED
    BY <2>1, <2>2, <2>3, <2>4
<1> QED
  BY <1>1, <1>2, WrittenDomain

(* The invariant holds initially, *)
LEMMA MergeInit == InitMerge => MergeInv
<1> SUFFICES ASSUME InitMerge PROVE MergeInv
  OBVIOUS
<1>1. DOMAIN rows = {} /\ DOMAIN snap = {} /\ list \in Seq(Beans) /\ Len(list) = 0
  BY DEF InitMerge
<1> QED
  BY <1>1, MergeAssumption
  DEF InitMerge, MergeInv, StoreTypes, Table, NoOrphans, PlanIsDistinct, SnapshotIsFresh

(* a write of another keeps it, *)
LEMMA WriteStep ==
  ASSUME MergeInv, NEW i \in DOMAIN rows, NEW row \in RowType, Write(i, row)
  PROVE  MergeInv'
<1>1. StoreTypes'
  BY DEF MergeInv, StoreTypes, Table, Write
<1>2. NoOrphans'
  BY DEF MergeInv, NoOrphans, Write
<1>3. PlanIsDistinct'
  BY DEF MergeInv, PlanIsDistinct, Write, Distinct
<1>4. SnapshotIsFresh'
  <2>1. touched' # {}
    BY DEF Write
  <2> QED
    BY <2>1 DEF SnapshotIsFresh
<1> QED
  BY <1>1, <1>2, <1>3, <1>4 DEF MergeInv

(* and so does every step. *)
LEMMA MergeStep == MergeInv /\ [NextMerge]_mergeVars => MergeInv'
<1> SUFFICES ASSUME MergeInv, [NextMerge]_mergeVars PROVE MergeInv'
  OBVIOUS
<1>0. /\ StoreTypes /\ NoOrphans /\ PlanIsDistinct /\ SnapshotIsFresh
      /\ nextId \in Nat \ {0} /\ list \in Seq(Beans) /\ Len(list) <= MaxLen
  BY DEF MergeInv, StoreTypes
<1>1. ASSUME NEW raw \in Downloads, Fetch(raw) PROVE MergeInv'
  <2>1. raw \in Seq(Beans) /\ Len(raw) <= MaxLen /\ MaxLen \in Nat
    BY DownloadsType, MergeAssumption
  <2>2. list' \in Seq(Beans) /\ Len(list') <= MaxLen
    <3>1. UniquifyNames(raw) \in Seq(Beans) /\ Len(UniquifyNames(raw)) = Len(raw)
      BY <2>1, UniquifyResult
    <3>2. /\ Deduplicate(UniquifyNames(raw)) \in Seq(Beans)
          /\ Len(Deduplicate(UniquifyNames(raw))) <= Len(UniquifyNames(raw))
      BY <3>1, DeduplicateResult
    <3>3. list' \in {UniquifyNames(raw), Deduplicate(UniquifyNames(raw))}
      BY <1>1 DEF Fetch
    <3>4. CASE list' = UniquifyNames(raw)
      BY <2>1, <3>1, <3>4
    <3>5. CASE list' = Deduplicate(UniquifyNames(raw))
      BY <2>1, <3>1, <3>2, <3>5
    <3> QED
      BY <3>3, <3>4, <3>5
  <2>3. StoreTypes'
    BY <1>0, <1>1, <2>2 DEF Fetch, StoreTypes, Table
  <2>4. NoOrphans' /\ PlanIsDistinct'
    BY <1>0, <1>1 DEF Fetch, NoOrphans, PlanIsDistinct
  <2>5. SnapshotIsFresh'
    BY <1>1 DEF Fetch, SnapshotIsFresh, SameButStat
  <2> QED
    BY <2>3, <2>4, <2>5 DEF MergeInv
<1>2. ASSUME NEW S \in SUBSET DOMAIN list, ResolveAddresses(S) PROVE MergeInv'
  <2>1. Resolved(S) \in Seq(Beans) /\ Len(Resolved(S)) = Len(list)
    <3>1. /\ Len(list) \in Nat /\ DOMAIN list = 1..Len(list)
          /\ \A i \in 1..Len(list) : list[i] \in Beans
      BY <1>0
    <3>2. \A b \in Beans : [b EXCEPT !.addr = Ip] \in Beans
      BY DEF Beans
    <3>3. Resolved(S) \in [1..Len(list) -> Beans]
      BY <3>1, <3>2 DEF Resolved
    <3> QED
      BY <3>1, <3>3
  <2>2. /\ UniquifyNames(Resolved(S)) \in Seq(Beans)
        /\ Len(UniquifyNames(Resolved(S))) = Len(Resolved(S))
        /\ Distinct(UniquifyNames(Resolved(S)))
    BY <1>0, <2>1, UniquifyResult
  <2>3. list' \in Seq(Beans) /\ Len(list') <= MaxLen /\ Distinct(list')
    BY <1>0, <1>2, <2>1, <2>2 DEF ResolveAddresses
  <2>4. StoreTypes'
    BY <1>0, <1>2, <2>3 DEF ResolveAddresses, StoreTypes, Table
  <2>5. NoOrphans'
    BY <1>0, <1>2 DEF ResolveAddresses, NoOrphans
  <2>6. PlanIsDistinct'
    <3>1. Distinct(list)'
      BY <2>3 DEF Distinct
    <3> QED
      BY <3>1 DEF PlanIsDistinct
  <2>7. SnapshotIsFresh'
    BY <1>0, <1>2 DEF ResolveAddresses, SnapshotIsFresh, SameButStat
  <2> QED
    BY <2>4, <2>5, <2>6, <2>7 DEF MergeInv
<1>3. CASE Abort
  <2>1. DOMAIN snap' = {} /\ list' \in Seq(Beans) /\ Len(list') = 0
    BY <1>3 DEF Abort
  <2> QED
    BY <1>0, <1>3, <2>1, MergeAssumption
    DEF Abort, MergeInv, StoreTypes, Table, NoOrphans, PlanIsDistinct, SnapshotIsFresh
<1>4. CASE Commit
  <2>1. DOMAIN snap' = {} /\ list' \in Seq(Beans) /\ Len(list') = 0
    BY <1>4 DEF Commit
  <2>2. Distinct(list) /\ Cardinality(ToInsert) \in Nat
    BY <1>0, <1>4, InsertedIds DEF Commit, PlanIsDistinct
  <2>3. rows' = Written /\ nextId' = nextId + Cardinality(ToInsert) /\ nextId' \in Nat \ {0}
    BY <1>0, <1>4, <2>2 DEF Commit
  <2>4. Table(rows)'
    BY <1>0, <2>2, <2>3, CommitTypes DEF Table
  <2>5. StoreTypes'
    BY <2>1, <2>3, <2>4, MergeAssumption DEF StoreTypes, Table
  <2> QED
    BY <1>4, <2>5 DEF Commit, MergeInv, NoOrphans, PlanIsDistinct, SnapshotIsFresh
<1>5. ASSUME NEW i \in DOMAIN rows, EditCustom(i) PROVE MergeInv'
  <2>1. rows[i] \in RowType
    BY <1>0 DEF StoreTypes, Table
  <2>2. rows[i].custom \in 0..1
    BY <2>1 DEF RowType
  <2>3. 1 - rows[i].custom \in 0..1
    BY <2>2
  <2>4. [rows[i] EXCEPT !.custom = 1 - @] \in RowType
    BY <2>1, <2>3 DEF RowType
  <2> QED
    BY <1>5, <2>4, WriteStep DEF EditCustom
<1>6. ASSUME NEW i \in DOMAIN rows, NEW t \in Titles, Rename(i, t) PROVE MergeInv'
  <2>1. <<t, 0>> \in Names
    BY MergeAssumption DEF Names, Bases
  <2>2. [rows[i] EXCEPT !.name = <<t, 0>>] \in RowType
    BY <1>0, <2>1 DEF StoreTypes, Table, RowType
  <2> QED
    BY <1>6, <2>2, WriteStep DEF Rename
<1>7. ASSUME NEW i \in DOMAIN rows, Test(i) PROVE MergeInv'
  <2>1. rows' = [rows EXCEPT ![i] = [rows[i] EXCEPT !.stat = rows[i].stat + 1]]
    BY <1>7 DEF Test
  <2>2. /\ [rows[i] EXCEPT !.stat = rows[i].stat + 1] \in RowType
        /\ SameButStat([rows[i] EXCEPT !.stat = rows[i].stat + 1], rows[i])
    <3>1. rows[i] \in RowType
      BY <1>0 DEF StoreTypes, Table
    <3> QED
      BY <3>1 DEF RowType, SameButStat
  <2>3. /\ DOMAIN rows' = DOMAIN rows
        /\ \A j \in DOMAIN rows : /\ rows'[j] \in RowType
                                  /\ SameButStat(rows'[j], rows[j])
    BY <1>0, <2>1, <2>2 DEF StoreTypes, Table, SameButStat
  <2>4. StoreTypes'
    BY <1>0, <1>7, <2>3 DEF Test, StoreTypes, Table
  <2>5. NoOrphans' /\ PlanIsDistinct'
    BY <1>0, <1>7, <2>3 DEF Test, NoOrphans, PlanIsDistinct, Distinct
  <2>6. SnapshotIsFresh'
    BY <1>0, <1>7, <2>3 DEF Test, SnapshotIsFresh, SameButStat
  <2> QED
    BY <2>4, <2>5, <2>6 DEF MergeInv
<1>8. ASSUME NEW i \in DOMAIN rows, Delete(i) PROVE MergeInv'
  <2>1. /\ DOMAIN rows' \subseteq DOMAIN rows
        /\ \A j \in DOMAIN rows' : rows'[j] \in RowType
    BY <1>0, <1>8 DEF Delete, StoreTypes, Table
  <2>2. StoreTypes'
    BY <1>0, <1>8, <2>1 DEF Delete, StoreTypes, Table
  <2>3. NoOrphans' /\ PlanIsDistinct'
    BY <1>0, <1>8, <2>1 DEF Delete, NoOrphans, PlanIsDistinct, Distinct
  <2>4. SnapshotIsFresh'
    <3>1. touched' # {}
      BY <1>8 DEF Delete
    <3> QED
      BY <3>1 DEF SnapshotIsFresh
  <2> QED
    BY <2>2, <2>3, <2>4 DEF MergeInv
<1>11. CASE Rearrange
  <2> DEFINE Rank(j) == Cardinality({k \in DOMAIN rows : Before(rows, k, j)})
  <2>1. \/ rows' = rows /\ touched' = touched
        \/ /\ DOMAIN rows # {} /\ touched' = touched \cup DOMAIN rows
           /\ rows' = [j \in DOMAIN rows |-> [rows[j] EXCEPT !.order = Rank(j)]]
    <3>1. CASE DOMAIN rows = {}
      <4>1. Cardinality(DOMAIN rows) = 0
        BY <3>1, FS_EmptySet
      <4> QED
        BY <1>11, <4>1 DEF Rearrange
    <3>2. CASE DOMAIN rows # {}
      BY <1>11, <3>2 DEF Rearrange
    <3> QED
      BY <3>1, <3>2
  <2>2. \A j \in DOMAIN rows : Rank(j) \in Nat
    <3>1. IsFiniteSet(DOMAIN rows)
      <4>1. nextId - 1 \in Nat /\ DOMAIN rows \subseteq 1..(nextId - 1)
        BY <1>0 DEF StoreTypes, Table
      <4> QED
        BY <4>1, IntervalSize, FS_Subset
    <3>2. \A j \in DOMAIN rows : IsFiniteSet({k \in DOMAIN rows : Before(rows, k, j)})
      BY <3>1, FS_Subset
    <3> QED
      BY <3>2, FS_CardinalityType
  <2> HIDE DEF Rank
  <2>3. /\ DOMAIN rows' = DOMAIN rows
        /\ \A j \in DOMAIN rows' : rows'[j] \in RowType
    <3>1. \A j \in DOMAIN rows : rows[j] \in RowType
      BY <1>0 DEF StoreTypes, Table
    <3>2. \A j \in DOMAIN rows : [rows[j] EXCEPT !.order = Rank(j)] \in RowType
      BY <2>2, <3>1 DEF RowType
    <3>3. CASE rows' = rows
      BY <3>1, <3>3
    <3>4. CASE rows' = [j \in DOMAIN rows |-> [rows[j] EXCEPT !.order = Rank(j)]]
      BY <3>2, <3>4
    <3> QED
      BY <2>1, <3>3, <3>4
  <2>4. UNCHANGED <<group, nextId, stage, list, snap>>
    BY <1>11 DEF Rearrange
  <2>5. StoreTypes'
    BY <1>0, <2>3, <2>4 DEF StoreTypes, Table
  <2>6. NoOrphans' /\ PlanIsDistinct'
    BY <1>0, <2>3, <2>4 DEF NoOrphans, PlanIsDistinct, Distinct
  <2>7. SnapshotIsFresh'
    <3>1. CASE touched' = {}
      BY <1>0, <2>1, <2>4, <3>1 DEF SnapshotIsFresh
    <3>2. CASE touched' # {}
      BY <3>2 DEF SnapshotIsFresh
    <3> QED
      BY <3>1, <3>2
  <2> QED
    BY <2>5, <2>6, <2>7 DEF MergeInv
<1>9. CASE DeleteGroup
  <2>1. DOMAIN rows' = {}
    BY <1>9 DEF DeleteGroup
  <2>2. StoreTypes'
    BY <1>0, <1>9, <2>1 DEF DeleteGroup, StoreTypes, Table
  <2>3. NoOrphans' /\ PlanIsDistinct'
    BY <1>0, <1>9, <2>1 DEF DeleteGroup, NoOrphans, PlanIsDistinct, Distinct
  <2>4. SnapshotIsFresh'
    BY <1>0, <1>9, <2>1 DEF DeleteGroup, SnapshotIsFresh
  <2> QED
    BY <2>2, <2>3, <2>4 DEF MergeInv
<1>10. CASE UNCHANGED mergeVars
  BY <1>0, <1>10
  DEF mergeVars, MergeInv, StoreTypes, Table, NoOrphans, PlanIsDistinct, Distinct,
      SnapshotIsFresh, SameButStat
<1> QED
  BY <1>1, <1>2, <1>3, <1>4, <1>5, <1>6, <1>7, <1>8, <1>9, <1>10, <1>11 DEF NextMerge

(* The invariant holds throughout. *)
THEOREM MergeInvariance == MergeSpec => []MergeInv
  BY MergeInit, MergeStep, PTL DEF MergeSpec

(* No row outlives its group: doUpdate looks the group up again in its       *)
(* transaction, and deleteGroup takes the rows along.                        *)
THEOREM DeletedGroupIsEmpty == MergeSpec => []NoOrphans
<1>1. MergeInv => NoOrphans
  BY DEF MergeInv
<1> QED
  BY <1>1, MergeInvariance, PTL

(* No step takes a test result back or brings a deleted row back: the        *)
(* transaction writes into the row as it is now, if it is still there, and   *)
(* new rows get ids nobody had.                                              *)
THEOREM MergeKeepsOthers == MergeSpec => OthersWritesStay
<1> DEFINE Stay ==
      /\ \A i \in DOMAIN rows \cap DOMAIN rows' : rows'[i].stat >= rows[i].stat
      /\ \A i \in 1..(nextId - 1) : i \in DOMAIN rows' => i \in DOMAIN rows
<1>1. MergeInv /\ [NextMerge]_mergeVars => [Stay]_mergeVars
  <2> SUFFICES ASSUME MergeInv, NextMerge PROVE Stay
    OBVIOUS
  <2>0. /\ StoreTypes /\ PlanIsDistinct
        /\ \A i \in DOMAIN rows : rows[i] \in RowType /\ rows[i].stat \in Nat
    BY DEF MergeInv, StoreTypes, Table, RowType
  <2>1. CASE rows' = rows
    BY <2>0, <2>1
  <2>2. CASE DOMAIN rows' = {}
    BY <2>2
  <2>3. CASE Commit
    <3>1. Distinct(list) /\ rows' = Written
      BY <2>0, <2>3 DEF Commit, PlanIsDistinct
    <3>2. /\ \A i \in DOMAIN Written : i \in 1..(nextId - 1) => i \in DOMAIN rows
          /\ \A i \in DOMAIN Written \cap DOMAIN rows : Written[i].stat = rows[i].stat
      BY <2>0, <3>1, CommitTypes
    <3> QED
      BY <2>0, <3>1, <3>2
  <2>4. ASSUME NEW i \in DOMAIN rows, NEW row, rows' = [rows EXCEPT ![i] = row],
               row.stat \in Nat, row.stat >= rows[i].stat
        PROVE  Stay
    BY <2>0, <2>4
  <2>5. ASSUME NEW i \in DOMAIN rows, EditCustom(i) \/ \E t \in Titles : Rename(i, t) PROVE Stay
    <3>1. PICK row : rows' = [rows EXCEPT ![i] = row] /\ row.stat = rows[i].stat
      BY <2>0, <2>5 DEF EditCustom, Rename, Write, RowType
    <3> QED
      BY <2>0, <2>4, <3>1
  <2>6. ASSUME NEW i \in DOMAIN rows, Test(i) PROVE Stay
    <3> DEFINE row == [rows[i] EXCEPT !.stat = rows[i].stat + 1]
    <3>1. rows' = [rows EXCEPT ![i] = row]
      BY <2>6 DEF Test
    <3>2. row.stat = rows[i].stat + 1
      BY <2>0 DEF RowType
    <3> HIDE DEF row
    <3> QED
      BY <2>0, <2>4, <3>1, <3>2
  <2>7. ASSUME Rearrange \/ \E i \in DOMAIN rows : Delete(i) PROVE Stay
    <3>1. /\ DOMAIN rows' \subseteq DOMAIN rows
          /\ \A j \in DOMAIN rows' : \/ rows'[j] = rows[j]
                                     \/ \E n : rows'[j] = [rows[j] EXCEPT !.order = n]
      BY <2>7 DEF Delete, Rearrange
    <3>2. \A j \in DOMAIN rows' : rows'[j].stat = rows[j].stat
      BY <2>0, <3>1 DEF RowType
    <3> QED
      BY <2>0, <3>1, <3>2
  <2>8. \/ rows' = rows \/ DOMAIN rows' = {} \/ Commit \/ Rearrange
        \/ \E i \in DOMAIN rows : \/ EditCustom(i) \/ Test(i) \/ Delete(i)
                                  \/ \E t \in Titles : Rename(i, t)
    BY DEF NextMerge, Fetch, ResolveAddresses, Abort, DeleteGroup
  <2> QED
    BY <2>1, <2>2, <2>3, <2>5, <2>6, <2>7, <2>8
<1>2. MergeSpec => [][NextMerge]_mergeVars
  BY DEF MergeSpec
<1>3. [][Stay]_mergeVars => OthersWritesStay
  BY PTL DEF OthersWritesStay
<1> QED
  BY <1>1, <1>2, <1>3, MergeInvariance, PTL

(* When nobody interfered, each downloaded node has the row where it         *)
(* belongs, *)
LEMMA EachNodeWritten ==
  ASSUME MergeInv, stage = "commit", touched = {}, NEW k \in DOMAIN list
  PROVE  LET i == IF Target(list[k]) = 0 THEN IdFor(k) ELSE Target(list[k])
         IN  /\ i \in DOMAIN Written
             /\ Display(Written[i]) = Display(list[k])
             /\ Written[i].addr = list[k].addr /\ Written[i].order = k
             /\ (\E j \in DOMAIN rows : Display(rows[j]) = Display(list[k])) =>
                  i \in DOMAIN rows /\ Written[i].custom = rows[i].custom
<1>0. /\ StoreTypes /\ Distinct(list)
      /\ DOMAIN snap = DOMAIN rows /\ \A i \in DOMAIN rows : SameButStat(rows[i], snap[i])
      /\ \A i \in DOMAIN rows : rows[i] \in RowType /\ snap[i] \in RowType
      /\ list[k] \in Beans
  BY DEF MergeInv, PlanIsDistinct, SnapshotIsFresh, StoreTypes, Table
<1>1. CASE Target(list[k]) = 0
  <2>1. k \in ToInsert
    BY <1>1 DEF ToInsert
  <2>2. Matching(list[k]) = {}
    <3>1. 0 \notin Matching(list[k])
      BY <1>0 DEF Matching, StoreTypes, Table
    <3> QED
      BY <1>0, <1>1, <3>1, TargetIn
  <2>3. ~ \E j \in DOMAIN rows : Display(rows[j]) = Display(list[k])
    BY <1>0, <2>2 DEF Matching, Display, SameButStat
  <2>4. IdFor(k) \in DOMAIN Written /\ Written[IdFor(k)] = Inserted(k)
    BY <1>0, <2>1, WrittenInserted
  <2>5. /\ Display(Inserted(k)) = Display(list[k]) /\ Inserted(k).addr = list[k].addr
        /\ Inserted(k).order = k
    BY DEF Inserted, Display
  <2> QED
    BY <1>1, <2>3, <2>4, <2>5
<1>2. CASE Target(list[k]) # 0
  <2> DEFINE i == Target(list[k])
  <2>1. i \in DOMAIN rows
    BY <1>0, <1>2, TargetIn DEF Matching
  <2>2. i \in DOMAIN Written /\ Written[i] = Merged(rows[i], snap[i], k)
    BY <1>0, <2>1, WrittenMerged
  <2> HIDE DEF i
  <2>3. rows[i] \in RowType /\ snap[i] \in RowType /\ SameButStat(rows[i], snap[i])
    BY <1>0, <2>1
  <2> DEFINE r == Merged(rows[i], snap[i], k)
  <2>4. r.name = list[k].name /\ r.addr = list[k].addr /\ r.order = k /\ r.custom = rows[i].custom
    BY <2>3 DEF Merged, SameButStat, RowType
  <2> HIDE DEF r
  <2>5. Display(r) = Display(list[k])
    BY <2>4 DEF Display
  <2>6. Written[i] = r
    BY <2>2 DEF r
  <2> QED
    BY <1>2, <2>1, <2>2, <2>4, <2>5, <2>6 DEF i
<1> QED
  BY <1>1, <1>2

(* and there is no other row. *)
LEMMA NoOtherWritten ==
  ASSUME MergeInv, stage = "commit", touched = {}
  PROVE  Cardinality(DOMAIN Written) = Len(list)
<1> DEFINE f == [k \in 1..Len(list) |->
                   IF Target(list[k]) = 0 THEN IdFor(k) ELSE Target(list[k])]
           D == DOMAIN Written
<1>0. /\ StoreTypes /\ Distinct(list) /\ DOMAIN snap = DOMAIN rows
      /\ DOMAIN rows \subseteq 1..(nextId - 1) /\ nextId \in Nat
      /\ DOMAIN list = 1..Len(list) /\ Len(list) \in Nat
  BY DEF MergeInv, PlanIsDistinct, SnapshotIsFresh, StoreTypes, Table
<1>1. f \in [1..Len(list) -> D]
  BY <1>0, EachNodeWritten
<1>2. ASSUME NEW k \in 1..Len(list), NEW l \in 1..Len(list), f[k] = f[l] PROVE k = l
  <2>1. \A m \in 1..Len(list) : \/ m \in ToInsert /\ f[m] = IdFor(m) /\ f[m] \notin DOMAIN rows
                                \/ f[m] = Target(list[m]) /\ f[m] # 0 /\ f[m] \in DOMAIN rows
    <3> TAKE m \in 1..Len(list)
    <3>1. CASE Target(list[m]) = 0
      <4>1. m \in ToInsert /\ f[m] = IdFor(m)
        BY <1>0, <3>1 DEF ToInsert
      <4> HIDE DEF f
      <4>2. Cardinality(ToInsert) \in Nat
            /\ IdFor(m) \in nextId..(nextId + Cardinality(ToInsert) - 1)
        BY <1>0, <4>1, InsertedIds
      <4>3. IdFor(m) \notin 1..(nextId - 1)
        BY <1>0, <4>2
      <4> QED
        BY <1>0, <4>1, <4>3
    <3>2. CASE Target(list[m]) # 0
      <4>1. f[m] = Target(list[m])
        BY <3>2
      <4> HIDE DEF f
      <4> QED
        BY <1>0, <3>2, <4>1, TargetIn DEF Matching
    <3> QED
      BY <3>1, <3>2
  <2> HIDE DEF f
  <2>2. CASE k \in ToInsert /\ l \in ToInsert /\ f[k] = IdFor(k) /\ f[l] = IdFor(l)
    BY <1>0, <1>2, <2>2, InsertedIds
  <2>3. CASE f[k] = Target(list[k]) /\ f[l] = Target(list[l]) /\ f[k] # 0
    BY <1>0, <1>2, <2>3, TargetsDiffer
  <2> QED
    BY <1>2, <2>1, <2>2, <2>3
<1>3. ASSUME NEW i \in D PROVE \E k \in 1..Len(list) : f[k] = i
  <2>1. CASE i \in Kept
    <3>1. i \in DOMAIN snap /\ i # 0 /\ i \notin ToDelete
      BY <1>0, <2>1 DEF Kept
    <3>2. PICK k \in 1..Len(list) : Target(list[k]) = i
      BY <1>0, <3>1 DEF ToDelete
    <3> QED
      BY <3>1, <3>2
  <2>2. ASSUME NEW k \in ToInsert, i = IdFor(k) PROVE \E l \in 1..Len(list) : f[l] = i
    BY <1>0, <2>2 DEF ToInsert
  <2> QED
    BY <1>0, <2>1, <2>2, WrittenDomain
<1> HIDE DEF f, D
<1>4. f \in Bijection(1..Len(list), D)
  BY <1>1, <1>2, <1>3, Fun_IsBij
<1>5. ExistsBijection(1..Len(list), D)
  BY <1>4 DEF ExistsBijection
<1>6. IsFiniteSet(1..Len(list)) /\ Cardinality(1..Len(list)) = Len(list)
  BY <1>0, IntervalSize
<1>7. Cardinality(D) = Cardinality(1..Len(list))
  BY <1>5, <1>6, FS_Bijection
<1> QED
  BY <1>6, <1>7 DEF D

(* An update nobody interfered with leaves exactly the downloaded nodes, in  *)
(* their order, and a node whose name was there keeps its row and overrides. *)
THEOREM MergeIsExact == MergeSpec => MergeExact
<1>1. MergeInv /\ [NextMerge]_mergeVars => [Commit /\ touched = {} => Exact]_mergeVars
  <2> SUFFICES ASSUME MergeInv, Commit, touched = {} PROVE Exact
    OBVIOUS
  <2>1. stage = "commit" /\ rows' = Written
    BY DEF Commit
  <2>2. Cardinality(DOMAIN rows') = Len(list)
    BY <2>1, NoOtherWritten
  <2>3. ASSUME NEW k \in DOMAIN list
        PROVE  \E i \in DOMAIN rows' :
                 /\ Display(rows'[i]) = Display(list[k])
                 /\ rows'[i].addr = list[k].addr /\ rows'[i].order = k
                 /\ (\E j \in DOMAIN rows : Display(rows[j]) = Display(list[k])) =>
                      i \in DOMAIN rows /\ rows'[i].custom = rows[i].custom
    BY <2>1, EachNodeWritten
  <2> QED
    BY <2>2, <2>3 DEF Exact
<1>2. MergeSpec => [][NextMerge]_mergeVars
  BY DEF MergeSpec
<1>3. [][Commit /\ touched = {} => Exact]_mergeVars => MergeExact
  BY PTL DEF MergeExact
<1> QED
  BY <1>1, <1>2, <1>3, MergeInvariance, PTL
=============================================================================
