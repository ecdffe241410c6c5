------------------------ MODULE SessionHelperProofs ------------------------
(***************************************************************************)
(* Proofs about the two helpers of a session that killProcesses ends.      *)
(*                                                                         *)
(* GuardedProcessPool, for any number of plugins and of restarts: what     *)
(* close() promises when its Job completes, and what an open pool promises *)
(* about a plugin that is down.                                            *)
(*                                                                         *)
(* NetworkListener, for any number of services and networks and any length *)
(* of its queues: the underlying network SagerNet knows ends up at the     *)
(* system's default one.                                                   *)
(***************************************************************************)
EXTENDS GuardedProcessPool, NetworkListener, SequenceTheorems, FiniteSetTheorems, TLAPS

(* close() is the only one to end the pool's Job. *)
JobFollowsClose ==
  /\ (closer = "idle") <=> (scope = "active")
  /\ (closer = "done") <=> (scope = "complete")

(* close() looks at guards of the list, and leaves the loop with none left.  *)
ReapsGuards ==
  /\ toReap \subseteq guards
  /\ closer # "reaping" => toReap = {}

(* How far start() is with a guard tells what there is of it.                *)
StartOrder ==
  \A g \in Guards :
    /\ starter[g] = "todo" => proc[g] = "none"
    /\ starter[g] = "spawned" => proc[g] # "none"
    /\ starter[g] \in {"added", "launch"} => g \in guards
    /\ starter[g] # "done" => looper[g] = "none"
    /\ proc[g] # "none" => starter[g] = "spawned" \/ g \in guards
    /\ looper[g] # "none" => proc[g] # "none"
    /\ looper[g] \in {"exited", "ended"} => proc[g] = "dead"

(* In an open pool a guard that start() is through with has a looper, unless *)
(* its process was never started or has been reported.                       *)
OpenIsGuarded ==
  scope = "active" =>
    \A g \in Guards :
      starter[g] = "done" => proc[g] = "none" \/ LooperLives(g) \/ g \in fatal

(* Once the Job is cancelled somebody is going to kill each live process:    *)
(* start() itself, its looper, or close().                                   *)
ClosingKills ==
  scope # "active" =>
    \A g \in Guards : proc[g] = "alive" =>
      \/ starter[g] \in {"spawned", "added"}
      \/ looper[g] = "waiting"
      \/ closer = "cancelled" \/ g \in toReap

IInv ==
  /\ TypeOK /\ JobFollowsClose /\ ReapsGuards /\ StartOrder /\ OpenIsGuarded
  /\ ClosingKills /\ NoRestartAfterClose

(* When close()'s Job completes no plugin is left alive, except one that a   *)
(* start() running at the same time has just spawned and will destroy when   *)
(* it looks at isActive.                                                     *)
ClosedPoolIsDead ==
  closer = "done" =>
    \A g \in Guards : proc[g] = "alive" => starter[g] \in {"spawned", "added"}

-----------------------------------------------------------------------------
(* A new pool satisfies the invariant. *)
LEMMA InitIInv == Init => IInv
  BY PoolAssumption
  DEF Init, IInv, TypeOK, JobFollowsClose, ReapsGuards, StartOrder, OpenIsGuarded, ClosingKills,
      NoRestartAfterClose, LooperLives

(* Every step of start(), of a looper and of close() keeps the invariant. *)
LEMMA NextIInv == IInv /\ [Next]_vars => IInv'
<1> SUFFICES ASSUME IInv, [Next]_vars PROVE IInv'
  OBVIOUS
<1> USE PoolAssumption
    DEF IInv, TypeOK, JobFollowsClose, ReapsGuards, StartOrder, OpenIsGuarded, ClosingKills,
        NoRestartAfterClose, LooperLives, Kill
<1>1. ASSUME NEW g \in Guards, Spawn(g) PROVE IInv'
  BY <1>1 DEF Spawn
<1>2. CASE SpawnFails
  BY <1>2 DEF SpawnFails
<1>3. ASSUME NEW g \in Guards, AddGuard(g) PROVE IInv'
  BY <1>3 DEF AddGuard
<1>4. ASSUME NEW g \in Guards, CheckActive(g) PROVE IInv'
  <2>1. CASE scope = "active"
    BY <1>4, <2>1 DEF CheckActive
  <2>2. CASE scope # "active"
    BY <1>4, <2>2 DEF CheckActive
  <2> QED
    BY <2>1, <2>2
<1>5. ASSUME NEW g \in Guards, LaunchLooper(g) PROVE IInv'
  BY <1>5 DEF LaunchLooper
<1>6. ASSUME NEW g \in Guards, Dispatch(g) PROVE IInv'
  BY <1>6 DEF Dispatch
<1>7. ASSUME NEW g \in Guards, LooperStart(g) PROVE IInv'
  BY <1>7 DEF LooperStart
<1>8. ASSUME NEW g \in Guards, Receive(g) PROVE IInv'
  BY <1>8 DEF Receive
<1>9. ASSUME NEW g \in Guards, Restart(g) PROVE IInv'
  BY <1>9 DEF Restart
<1>10. ASSUME NEW g \in Guards, GiveUp(g) PROVE IInv'
  BY <1>10 DEF GiveUp
<1>11. ASSUME NEW g \in Guards, CleanUp(g) PROVE IInv'
  BY <1>11 DEF CleanUp
<1>12. ASSUME NEW g \in Guards, Exit(g) PROVE IInv'
  BY <1>12 DEF Exit
<1>13. CASE CloseCancel
  BY <1>13 DEF CloseCancel
<1>14. CASE CloseSnapshot
  BY <1>14 DEF CloseSnapshot
<1>15. ASSUME NEW g \in Guards, CloseReap(g) PROVE IInv'
  <2>1. CASE LooperStarted(g)
    BY <1>15, <2>1 DEF CloseReap, LooperStarted
  <2>2. CASE ~LooperStarted(g)
    BY <1>15, <2>2 DEF CloseReap
  <2> QED
    BY <2>1, <2>2
<1>16. CASE CloseReaped
  BY <1>16 DEF CloseReaped
<1>17. CASE CloseJoined
  BY <1>17 DEF CloseJoined
<1>18. CASE UNCHANGED vars
  BY <1>18 DEF vars
<1> QED
  BY <1>1, <1>2, <1>3, <1>4, <1>5, <1>6, <1>7, <1>8, <1>9, <1>10, <1>11, <1>12, <1>13, <1>14,
     <1>15, <1>16, <1>17, <1>18 DEF Next, Start, Looper, Close

(* The invariant holds in every reachable state. *)
THEOREM Invariance == Spec => []IInv
<1> HIDE DEF IInv
<1> QED
  BY InitIInv, NextIInv, PTL DEF Spec

-----------------------------------------------------------------------------
(* Type correctness, and with it that guards' lateinit process is set for    *)
(* every guard of the list when close() comes to destroy it.                 *)
THEOREM TypeCorrect == Spec => []TypeOK
<1>1. IInv => TypeOK
  BY DEF IInv
<1> HIDE DEF IInv, TypeOK
<1> QED
  BY Invariance, <1>1, PTL

(* No looper is left to restart a plugin when the Job close() returned       *)
(* completes and the plugins' config files are deleted.                      *)
THEOREM ClosedRestartsNothing == Spec => []NoRestartAfterClose
<1>1. IInv => NoRestartAfterClose
  BY DEF IInv
<1> HIDE DEF IInv, NoRestartAfterClose
<1> QED
  BY Invariance, <1>1, PTL

(* A plugin that is down while the pool is open has a looper to notice it,   *)
(* is still being started, or was reported through onFatal.                  *)
THEOREM OpenNoticesDown == Spec => []DownIsNoticed
<1>1. IInv => DownIsNoticed
  BY DEF IInv, OpenIsGuarded, DownIsNoticed
<1> HIDE DEF IInv, DownIsNoticed
<1> QED
  BY Invariance, <1>1, PTL

(* No plugin outlives its pool: close() races with start() and with the      *)
(* restarts, and one of the three kills whatever is alive.                   *)
THEOREM ClosedKillsPlugins == Spec => []ClosedPoolIsDead
<1>1. IInv => ClosedPoolIsDead
  BY DEF IInv, JobFollowsClose, ReapsGuards, ClosingKills, NoRestartAfterClose, LooperLives,
         ClosedPoolIsDead
<1> HIDE DEF IInv, ClosedPoolIsDead
<1> QED
  BY Invariance, <1>1, PTL

-----------------------------------------------------------------------------
(***************************************************************************)
(* NetworkListener.  The mailbox is read as what it will make of           *)
(* `network`: the last word about the default network in it is the         *)
(* system's default network.  The definitions say so of any queue q and    *)
(* any value net that `network` has before its first message.              *)
(***************************************************************************)

(* m is onAvailable for n, or onLost for n. *)
Puts(m, n) == m.type = "Put" /\ m.net = n
Loses(m, n) == m.type = "Lost" /\ m.net = n

(* What the actor knows of the default network is said by a Put, or by       *)
(* `network` before the first message.                                       *)
Said(q, net, i, n) == IF i = 0 THEN net = n ELSE Puts(q[i], n)

(* The last word about the default network is d. *)
Settles(q, net, d) ==
  \E i \in 0..Len(q) :
    /\ Said(q, net, i, d)
    /\ \A j \in (i + 1)..Len(q) : q[j].type # "Put" /\ ~Loses(q[j], d)

(* The last word is that there is none. *)
Empties(q, net) ==
  \A i \in 0..Len(q), n \in Networks :
    Said(q, net, i, n) => \E j \in (i + 1)..Len(q) : q[j].type = "Put" \/ Loses(q[j], n)

(* A network that is gone is taken back. *)
Corrects(q, net, alive) ==
  \A i \in 0..Len(q), n \in Networks :
    Said(q, net, i, n) /\ n \notin alive => \E j \in (i + 1)..Len(q) : Loses(q[j], n)

(* What a message does to `network`. *)
Effect(m, net) ==
  IF m.type = "Put" THEN m.net ELSE IF Loses(m, net) THEN None ELSE net

(* A message at the end of the mailbox comes after all others. *)
LEMMA Appended ==
  ASSUME NEW q \in Seq(Message), NEW m \in Message
  PROVE  /\ Append(q, m) \in Seq(Message) /\ Len(Append(q, m)) = Len(q) + 1
         /\ Append(q, m)[Len(q) + 1] = m /\ \A i \in 1..Len(q) : Append(q, m)[i] = q[i]
         /\ Len(q) \in Nat
  OBVIOUS

(* The first message is taken off. *)
LEMMA Taken ==
  ASSUME NEW q \in Seq(Message), q # <<>>
  PROVE  /\ Head(q) \in Message /\ Tail(q) \in Seq(Message)
         /\ Len(q) \in Nat /\ Len(q) >= 1 /\ Len(Tail(q)) = Len(q) - 1
         /\ Head(q) = q[1] /\ \A i \in 1..(Len(q) - 1) : Tail(q)[i] = q[i + 1]
  OBVIOUS

(* A message that is no word about d leaves the last word. *)
LEMMA AppendSettles ==
  ASSUME NEW q \in Seq(Message), NEW m \in Message, NEW net, NEW d,
         Settles(q, net, d), m.type # "Put", ~Loses(m, d)
  PROVE  Settles(Append(q, m), net, d)
<1> DEFINE r == Append(q, m)
<1>1. /\ Len(r) = Len(q) + 1 /\ Len(q) \in Nat
      /\ r[Len(q) + 1] = m /\ \A i \in 1..Len(q) : r[i] = q[i]
  BY Appended
<1> HIDE DEF r
<1>2. PICK i \in 0..Len(q) :
        /\ Said(q, net, i, d)
        /\ \A j \in (i + 1)..Len(q) : q[j].type # "Put" /\ ~Loses(q[j], d)
  BY DEF Settles
<1>3. i \in 0..Len(r) /\ Said(r, net, i, d)
  BY <1>1, <1>2 DEF Said
<1>4. ASSUME NEW j \in (i + 1)..Len(r) PROVE r[j].type # "Put" /\ ~Loses(r[j], d)
  <2>1. j \in (i + 1)..Len(q) \/ j = Len(q) + 1
    BY <1>1
  <2> QED
    BY <1>1, <1>2, <2>1
<1>5. Settles(r, net, d)
  BY <1>3, <1>4 DEF Settles
<1> QED
  BY <1>5 DEF r

(* A Put at the end is the last word. *)
LEMMA AppendPut ==
  ASSUME NEW q \in Seq(Message), NEW m \in Message, NEW net, NEW d, Puts(m, d)
  PROVE  Settles(Append(q, m), net, d)
<1> DEFINE r == Append(q, m)
<1>1. Len(r) = Len(q) + 1 /\ Len(q) \in Nat /\ r[Len(q) + 1] = m
  BY Appended
<1> HIDE DEF r
<1>2. Said(r, net, Len(q) + 1, d)
  BY <1>1 DEF Said
<1>3. Len(q) + 1 \in 0..Len(r) /\ (Len(q) + 2)..Len(r) = {}
  BY <1>1
<1>4. Settles(r, net, d)
  BY <1>1, <1>2, <1>3 DEF Settles
<1> QED
  BY <1>4 DEF r

(* Without a Put at the end there is still no default network. *)
LEMMA AppendEmpties ==
  ASSUME NEW q \in Seq(Message), NEW m \in Message, NEW net, m.type # "Put",
         Empties(q, net)
  PROVE  Empties(Append(q, m), net)
<1> DEFINE r == Append(q, m)
<1>1. /\ Len(r) = Len(q) + 1 /\ Len(q) \in Nat
      /\ r[Len(q) + 1] = m /\ \A i \in 1..Len(q) : r[i] = q[i]
  BY Appended
<1> HIDE DEF r
<1>2. ASSUME NEW i \in 0..Len(r), NEW n \in Networks, Said(r, net, i, n)
      PROVE  \E j \in (i + 1)..Len(r) : r[j].type = "Put" \/ Loses(r[j], n)
  <2>1. i \in 0..Len(q) /\ Said(q, net, i, n)
    BY <1>1, <1>2 DEF Said, Puts
  <2>2. PICK j \in (i + 1)..Len(q) : q[j].type = "Put" \/ Loses(q[j], n)
    BY <2>1 DEF Empties
  <2> QED
    BY <1>1, <2>1, <2>2
<1>3. Empties(r, net)
  BY <1>2 DEF Empties
<1> QED
  BY <1>3 DEF r

(* The loss of the network that was the last word leaves none. *)
LEMMA AppendLost ==
  ASSUME NEW q \in Seq(Message), NEW m \in Message, NEW net, NEW d,
         Settles(q, net, d), Loses(m, d)
  PROVE  Empties(Append(q, m), net)
<1> DEFINE r == Append(q, m)
<1>1. /\ Len(r) = Len(q) + 1 /\ Len(q) \in Nat
      /\ r[Len(q) + 1] = m /\ \A i \in 1..Len(q) : r[i] = q[i]
  BY Appended
<1> HIDE DEF r
<1>2. PICK k \in 0..Len(q) :
        /\ Said(q, net, k, d)
        /\ \A j \in (k + 1)..Len(q) : q[j].type # "Put" /\ ~Loses(q[j], d)
  BY DEF Settles
<1>3. ASSUME NEW i \in 0..Len(r), NEW n \in Networks, Said(r, net, i, n)
      PROVE  \E j \in (i + 1)..Len(r) : r[j].type = "Put" \/ Loses(r[j], n)
  <2>1. i \in 0..Len(q) /\ Said(q, net, i, n)
    BY <1>1, <1>3 DEF Said, Puts, Loses
  <2>2. CASE i < k
    BY <1>1, <1>2, <2>1, <2>2 DEF Said, Puts
  <2>3. CASE i > k
    BY <1>1, <1>2, <2>1, <2>3 DEF Said, Puts
  <2>4. CASE i = k
    <3>1. n = d
      BY <1>2, <2>1, <2>4 DEF Said, Puts
    <3> QED
      BY <1>1, <2>1, <3>1
  <2> QED
    BY <1>1, <2>1, <2>2, <2>3, <2>4
<1>4. Empties(r, net)
  BY <1>3 DEF Empties
<1> QED
  BY <1>4 DEF r

(* A network that goes away is taken back by the message that says so. *)
LEMMA AppendCorrects ==
  ASSUME NEW q \in Seq(Message), NEW m \in Message, NEW net, NEW alive, NEW left,
         Corrects(q, net, alive),
         m.type = "Put" => m.net \in left,
         \A n \in Networks : n \notin left => n \notin alive \/ Loses(m, n)
  PROVE  Corrects(Append(q, m), net, left)
<1> DEFINE r == Append(q, m)
<1>1. /\ Len(r) = Len(q) + 1 /\ Len(q) \in Nat
      /\ r[Len(q) + 1] = m /\ \A i \in 1..Len(q) : r[i] = q[i]
  BY Appended
<1> HIDE DEF r
<1>2. ASSUME NEW i \in 0..Len(r), NEW n \in Networks, Said(r, net, i, n), n \notin left
      PROVE  \E j \in (i + 1)..Len(r) : Loses(r[j], n)
  <2>1. i \in 0..Len(q) /\ Said(q, net, i, n)
    BY <1>1, <1>2 DEF Said, Puts
  <2>2. CASE n \notin alive
    <3>1. PICK j \in (i + 1)..Len(q) : Loses(q[j], n)
      BY <2>1, <2>2 DEF Corrects
    <3> QED
      BY <1>1, <2>1, <3>1
  <2>3. CASE Loses(m, n)
    BY <1>1, <2>1, <2>3
  <2> QED
    BY <1>2, <2>2, <2>3
<1>3. Corrects(r, net, left)
  BY <1>2 DEF Corrects
<1> QED
  BY <1>3 DEF r

(* What is said after the first message was said before it. *)
LEMMA TakenSaid ==
  ASSUME NEW q \in Seq(Message), q # <<>>, NEW net, NEW i \in 0..Len(Tail(q)), NEW n,
         n # None, Said(Tail(q), Effect(Head(q), net), i, n)
  PROVE  \/ Said(q, net, i + 1, n)
         \/ i = 0 /\ Said(q, net, 0, n) /\ q[1].type # "Put" /\ ~Loses(q[1], n)
<1>1. CASE i = 0
  <2>1. Effect(q[1], net) = n
    BY <1>1, Taken DEF Said
  <2> QED
    BY <1>1, <2>1 DEF Effect, Said, Puts
<1>2. CASE i # 0
  <2>1. i \in 1..(Len(q) - 1) /\ i + 1 # 0
    BY <1>2, Taken
  <2>2. Tail(q)[i] = q[i + 1]
    BY <2>1, Taken
  <2> QED
    BY <1>2, <2>1, <2>2 DEF Said
<1> QED
  BY <1>1, <1>2

(* And what comes later still does. *)
LEMMA TakenLater ==
  ASSUME NEW q \in Seq(Message), q # <<>>, NEW i \in 0..Len(Tail(q)), NEW j \in (i + 2)..Len(q)
  PROVE  j - 1 \in (i + 1)..Len(Tail(q)) /\ Tail(q)[j - 1] = q[j]
<1>1. Len(q) \in Nat /\ Len(Tail(q)) = Len(q) - 1 /\ \A k \in 1..(Len(q) - 1) : Tail(q)[k] = q[k + 1]
  BY Taken
<1>2. j - 1 \in 1..(Len(q) - 1) /\ (j - 1) + 1 = j
  BY <1>1
<1>3. Tail(q)[j - 1] = q[(j - 1) + 1]
  BY <1>1, <1>2
<1>4. j - 1 \in (i + 1)..Len(Tail(q))
  BY <1>1
<1> QED
  BY <1>2, <1>3, <1>4

(* Handling the first message leaves the last word: that there is none, *)
LEMMA TailEmpties ==
  ASSUME NEW q \in Seq(Message), q # <<>>, NEW net, None \notin Networks, Empties(q, net)
  PROVE  Empties(Tail(q), Effect(Head(q), net))
<1>1. ASSUME NEW i \in 0..Len(Tail(q)), NEW n \in Networks,
             Said(Tail(q), Effect(Head(q), net), i, n)
      PROVE  \E j \in (i + 1)..Len(Tail(q)) : Tail(q)[j].type = "Put" \/ Loses(Tail(q)[j], n)
  <2>1. \/ Said(q, net, i + 1, n)
        \/ i = 0 /\ Said(q, net, 0, n) /\ q[1].type # "Put" /\ ~Loses(q[1], n)
    BY <1>1, TakenSaid
  <2>2. Len(q) \in Nat /\ i + 1 \in 0..Len(q) /\ 0 \in 0..Len(q)
    BY Taken
  <2>3. PICK j \in (i + 2)..Len(q) : q[j].type = "Put" \/ Loses(q[j], n)
    <3>1. CASE Said(q, net, i + 1, n)
      BY <2>2, <3>1 DEF Empties
    <3>2. CASE i = 0 /\ Said(q, net, 0, n) /\ q[1].type # "Put" /\ ~Loses(q[1], n)
      <4>1. PICK j \in 1..Len(q) : q[j].type = "Put" \/ Loses(q[j], n)
        BY <2>2, <3>2 DEF Empties
      <4>2. j # 1
        BY <3>2, <4>1
      <4> QED
        BY <2>2, <3>2, <4>1, <4>2
    <3> QED
      BY <2>1, <3>1, <3>2
  <2>4. j - 1 \in (i + 1)..Len(Tail(q)) /\ Tail(q)[j - 1] = q[j]
    BY TakenLater
  <2> QED
    BY <2>3, <2>4
<1> QED
  BY <1>1 DEF Empties

(* that what is gone is taken back, *)
LEMMA TailCorrects ==
  ASSUME NEW q \in Seq(Message), q # <<>>, NEW net, None \notin Networks, NEW alive,
         Corrects(q, net, alive)
  PROVE  Corrects(Tail(q), Effect(Head(q), net), alive)
<1>1. ASSUME NEW i \in 0..Len(Tail(q)), NEW n \in Networks,
             Said(Tail(q), Effect(Head(q), net), i, n), n \notin alive
      PROVE  \E j \in (i + 1)..Len(Tail(q)) : Loses(Tail(q)[j], n)
  <2>1. \/ Said(q, net, i + 1, n)
        \/ i = 0 /\ Said(q, net, 0, n) /\ q[1].type # "Put" /\ ~Loses(q[1], n)
    BY <1>1, TakenSaid
  <2>2. Len(q) \in Nat /\ i + 1 \in 0..Len(q) /\ 0 \in 0..Len(q)
    BY Taken
  <2>3. PICK j \in (i + 2)..Len(q) : Loses(q[j], n)
    <3>1. CASE Said(q, net, i + 1, n)
      BY <1>1, <2>2, <3>1 DEF Corrects
    <3>2. CASE i = 0 /\ Said(q, net, 0, n) /\ q[1].type # "Put" /\ ~Loses(q[1], n)
      <4>1. PICK j \in 1..Len(q) : Loses(q[j], n)
        BY <1>1, <2>2, <3>2 DEF Corrects
      <4>2. j # 1
        BY <3>2, <4>1
      <4> QED
        BY <2>2, <3>2, <4>1, <4>2
    <3> QED
      BY <2>1, <3>1, <3>2
  <2>4. j - 1 \in (i + 1)..Len(Tail(q)) /\ Tail(q)[j - 1] = q[j]
    BY TakenLater
  <2> QED
    BY <2>3, <2>4
<1> QED
  BY <1>1 DEF Corrects

(* or that it is d. *)
LEMMA TailSettles ==
  ASSUME NEW q \in Seq(Message), q # <<>>, NEW net, NEW d, Settles(q, net, d)
  PROVE  Settles(Tail(q), Effect(Head(q), net), d)
<1> DEFINE r == Tail(q)
           after == Effect(Head(q), net)
<1>1. /\ Len(q) \in Nat /\ Len(q) >= 1 /\ Len(r) = Len(q) - 1
      /\ Head(q) = q[1] /\ \A k \in 1..(Len(q) - 1) : r[k] = q[k + 1]
  BY Taken
<1>2. PICK i \in 0..Len(q) :
        /\ Said(q, net, i, d)
        /\ \A j \in (i + 1)..Len(q) : q[j].type # "Put" /\ ~Loses(q[j], d)
  BY DEF Settles
<1> DEFINE k == IF i = 0 THEN 0 ELSE i - 1
<1>3. k \in 0..(Len(q) - 1)
  BY <1>1
<1>4. Said(r, after, k, d)
  <2>1. CASE i = 0
    BY <1>1, <1>2, <2>1 DEF Said, Effect
  <2>2. CASE i = 1
    BY <1>1, <1>2, <2>2 DEF Said, Effect, Puts
  <2>3. CASE i > 1
    <3>1. k \in 1..(Len(q) - 1) /\ k + 1 = i /\ i # 0 /\ k # 0
      BY <1>1, <2>3
    <3>2. r[k] = q[i]
      BY <1>1, <3>1
    <3> QED
      BY <1>2, <3>1, <3>2 DEF Said
  <2> QED
    BY <2>1, <2>2, <2>3
<1>5. ASSUME NEW j \in (k + 1)..(Len(q) - 1) PROVE r[j].type # "Put" /\ ~Loses(r[j], d)
  <2>1. j \in 1..(Len(q) - 1) /\ j + 1 \in (i + 1)..Len(q)
    BY <1>1, <1>3
  <2>2. r[j] = q[j + 1]
    BY <1>1, <2>1
  <2> QED
    BY <1>2, <2>1, <2>2
<1> HIDE DEF r, after, k
<1>6. Settles(r, after, d)
  BY <1>1, <1>3, <1>4, <1>5 DEF Settles
<1> QED
  BY <1>6 DEF r, after

-----------------------------------------------------------------------------
(* Start messages name a service; the Stop of killProcesses names nobody     *)
(* that ever started.                                                        *)
KeysAsSent ==
  \A i \in 1..Len(mailbox) :
    /\ mailbox[i].type = "Start" => mailbox[i].key \in Services
    /\ mailbox[i].type = "Stop" => mailbox[i].key = None

(* A running service listens, or its Start is on its way. *)
Listening ==
  running = "yes" =>
    /\ service \in Services
    /\ \/ service \in listeners
       \/ \E i \in 1..Len(mailbox) : mailbox[i].type = "Start" /\ mailbox[i].key = service

(* Before the first listener the system has told nothing. *)
Unregistered ==
  listeners = {} =>
    /\ registered = "no" /\ network = None /\ serial = <<>> /\ underlying = None
    /\ \A i \in 1..Len(mailbox) : mailbox[i].type \in {"Start", "Stop"}

(* After it, the mailbox ends with the truth. *)
Informed ==
  listeners # {} =>
    /\ registered = "yes"
    /\ def # None => Settles(mailbox, network, def)
    /\ def = None => Empties(mailbox, network)
    /\ Corrects(mailbox, network, up)

(* And so do the callbacks, unless the actor is still to learn that its      *)
(* network is gone.                                                          *)
Told ==
  listeners # {} =>
    IF serial # <<>> THEN serial[Len(serial)] = network
    ELSE underlying = network \/ \E j \in 1..Len(mailbox) : Loses(mailbox[j], network)

ListenerInv ==
  /\ ListenerTypeOK /\ IsFiniteSet(listeners) /\ KeysAsSent
  /\ Listening /\ Unregistered /\ Informed /\ Told

(* Nobody listens, and the system has told nothing, initially. *)
LEMMA InitListenerInv == InitListener => ListenerInv
<1> SUFFICES ASSUME InitListener PROVE ListenerInv
  OBVIOUS
<1>1. mailbox = <<>> /\ Len(mailbox) = 0
  BY DEF InitListener
<1>2. ListenerTypeOK
  BY DEF InitListener, ListenerTypeOK
<1>3. IsFiniteSet(listeners)
  BY FS_EmptySet DEF InitListener
<1>4. KeysAsSent /\ Unregistered
  BY <1>1 DEF InitListener, KeysAsSent, Unregistered
<1> QED
  BY <1>2, <1>3, <1>4 DEF InitListener, ListenerInv, Listening, Informed, Told

(* Every listener is told the same, and the last one last. *)
LEMMA Notified ==
  ASSUME serial \in Seq(Networks \cup {None}), NEW n \in Networks \cup {None},
         NEW L, IsFiniteSet(L), Notify(L, n)
  PROVE  /\ serial' \in Seq(Networks \cup {None})
         /\ L # {} => serial' # <<>> /\ serial'[Len(serial')] = n
<1> DEFINE k == Cardinality(L)
           t == [i \in 1..k |-> n]
<1>1. k \in Nat /\ (L # {} => k # 0)
  BY FS_CardinalityType, FS_EmptySet
<1> HIDE DEF k
<1>2. t \in Seq(Networks \cup {None}) /\ Len(t) = k
  BY <1>1
<1>3. serial' = serial \o t
  BY DEF Notify, k
<1>4. ASSUME L # {} PROVE t[k] = n /\ k \in 1..Len(t)
  BY <1>1, <1>2, <1>4
<1> HIDE DEF t
<1>5. serial' \in Seq(Networks \cup {None}) /\ Len(serial') = Len(serial) + k /\ Len(serial) \in Nat
  <2>1. serial \o t \in Seq(Networks \cup {None}) /\ Len(serial \o t) = Len(serial) + Len(t)
    BY <1>2, ConcatProperties
  <2> QED
    BY <1>2, <1>3, <2>1
<1>6. ASSUME L # {} PROVE serial' # <<>> /\ serial'[Len(serial')] = n
  <2>1. Len(serial') # 0
    BY <1>1, <1>5, <1>6
  <2>2. serial'[Len(serial) + k] = t[k]
    BY <1>2, <1>3, <1>4, <1>6
  <2> QED
    BY <1>4, <1>5, <1>6, <2>1, <2>2
<1> QED
  BY <1>5, <1>6

(* The messages that are sent. *)
LEMMA Sent ==
  /\ \A s \in Services : [type |-> "Start", key |-> s] \in Message
  /\ [type |-> "Stop", key |-> None] \in Message
  /\ \A n \in Networks : /\ [type |-> "Put", net |-> n] \in Message
                         /\ [type |-> "Update", net |-> n] \in Message
                         /\ [type |-> "Lost", net |-> n] \in Message
  BY DEF Message

(* What a message from the system carries. *)
LEMMA Carried ==
  ASSUME NEW m \in Message
  PROVE  m.type \in {"Put", "Update", "Lost"} => m.net \in Networks
  BY DEF Message

(* Every message is of one of five types. *)
LEMMA MessageTypes ==
  ASSUME NEW m \in Message
  PROVE  m.type \in {"Start", "Stop", "Put", "Update", "Lost"}
  BY DEF Message

-----------------------------------------------------------------------------
(* A step that appends a message to the mailbox, or none: all but the        *)
(* actor's and the callback's.                                               *)

(* What a sent message leaves of the invariant. *)
LEMMA SendKeeps ==
  ASSUME ListenerInv, NEW m \in Message,
         m.type = "Start" => m.key \in Services,
         m.type = "Stop" => m.key = None,
         m.type \in {"Start", "Stop"} \/ listeners # {},
         mailbox' = Append(mailbox, m), UNCHANGED <<actorVars, serial, underlying>>
  PROVE  KeysAsSent' /\ Unregistered' /\ Told'
<1>0. mailbox \in Seq(Message)
  BY DEF ListenerInv, ListenerTypeOK
<1>1. /\ Len(mailbox') = Len(mailbox) + 1 /\ Len(mailbox) \in Nat
      /\ mailbox'[Len(mailbox) + 1] = m /\ \A i \in 1..Len(mailbox) : mailbox'[i] = mailbox[i]
  BY <1>0, Appended
<1>2. \A i \in 1..Len(mailbox') : i \in 1..Len(mailbox) \/ i = Len(mailbox) + 1
  BY <1>1
<1>3. KeysAsSent'
  BY <1>1, <1>2 DEF ListenerInv, KeysAsSent
<1>4. Unregistered'
  BY <1>1, <1>2 DEF ListenerInv, Unregistered, actorVars
<1>5. \A i \in 1..Len(mailbox) : i \in 1..Len(mailbox') /\ mailbox'[i] = mailbox[i]
  BY <1>1
<1>6. Told'
  <2> SUFFICES ASSUME listeners # {}
               PROVE  IF serial # <<>> THEN serial[Len(serial)] = network
                      ELSE underlying = network \/ \E j \in 1..Len(mailbox') : Loses(mailbox'[j], network)
    BY DEF Told, actorVars
  <2> QED
    BY <1>5 DEF ListenerInv, Told
<1> QED
  BY <1>3, <1>4, <1>6

(* A Start in the mailbox stays there until the actor takes it. *)
LEMMA StartsStay ==
  ASSUME ListenerInv, NEW m \in Message, mailbox' = Append(mailbox, m),
         UNCHANGED <<service, running, listeners>>
  PROVE  Listening'
<1>0. mailbox \in Seq(Message)
  BY DEF ListenerInv, ListenerTypeOK
<1>1. \A i \in 1..Len(mailbox) : i \in 1..Len(mailbox') /\ mailbox'[i] = mailbox[i]
  BY <1>0, Appended
<1> QED
  BY <1>1 DEF ListenerInv, Listening

(* A step of the system, told or not, keeps the mailbox ending with the      *)
(* truth.                                                                    *)
LEMMA SystemKeeps ==
  ASSUME ListenerInv,
         \/ \E n \in Networks : Available(n) \/ NetworkLost(n)
         \/ CapabilitiesChanged
  PROVE  ListenerInv'
<1> USE DEF actorVars, sysVars
<1>0. /\ mailbox \in Seq(Message) /\ registered \in {"yes", "no"} /\ ListenerTypeOK
      /\ IsFiniteSet(listeners) /\ listeners' = listeners
  BY DEF ListenerInv, ListenerTypeOK, Available, NetworkLost, CapabilitiesChanged
<1>u. UNCHANGED <<service, running, actorVars, serial, underlying>>
  BY DEF Available, NetworkLost, CapabilitiesChanged
<1>1. PICK m \in Message :
        /\ Deliver(m) /\ m.type \in {"Put", "Lost", "Update"}
        /\ \/ m.type = "Put" /\ m.net \in Networks /\ up' = up \cup {m.net} /\ def' = m.net
           \/ /\ m.type = "Lost" /\ m.net \in up /\ up' = up \ {m.net}
              /\ def' = IF m.net = def THEN None ELSE def
           \/ m.type = "Update" /\ UNCHANGED <<up, def>>
  <2>1. CASE CapabilitiesChanged
    <3>1. def \in Networks /\ Deliver([type |-> "Update", net |-> def]) /\ UNCHANGED <<up, def>>
      BY <2>1, <1>0 DEF CapabilitiesChanged, ListenerTypeOK
    <3>2. [type |-> "Update", net |-> def] \in Message
      BY <3>1, Sent
    <3> QED
      BY <3>1, <3>2
  <2>2. ASSUME NEW n \in Networks, Available(n)
        PROVE  /\ [type |-> "Put", net |-> n] \in Message /\ Deliver([type |-> "Put", net |-> n])
               /\ up' = up \cup {n} /\ def' = n
    BY <2>2, Sent DEF Available
  <2>3. ASSUME NEW n \in Networks, NetworkLost(n)
        PROVE  /\ [type |-> "Lost", net |-> n] \in Message /\ Deliver([type |-> "Lost", net |-> n])
               /\ n \in up /\ up' = up \ {n} /\ def' = IF n = def THEN None ELSE def
    BY <2>3, Sent DEF NetworkLost
  <2> QED
    BY <2>1, <2>2, <2>3
<1>2. up' \subseteq Networks /\ def' \in up' \cup {None}
  BY <1>0, <1>1 DEF ListenerTypeOK
<1>3. CASE registered = "no"
  <2>1. mailbox' = mailbox /\ listeners = {}
    BY <1>1, <1>3 DEF Deliver, ListenerInv, Informed
  <2>2. ListenerTypeOK'
    BY <1>0, <1>u, <1>2, <2>1 DEF ListenerTypeOK
  <2>3. KeysAsSent' /\ Listening' /\ Unregistered'
    BY <1>u, <2>1 DEF ListenerInv, KeysAsSent, Listening, Unregistered
  <2> QED
    BY <1>0, <2>1, <2>2, <2>3 DEF ListenerInv, Informed, Told
<1>4. CASE registered = "yes"
  <2>1. mailbox' = Append(mailbox, m) /\ listeners # {}
    BY <1>1, <1>4 DEF Deliver, ListenerInv, Unregistered
  <2>2. ListenerTypeOK'
    <3>1. mailbox' \in Seq(Message)
      BY <1>0, <2>1, Appended
    <3> QED
      BY <1>0, <1>u, <1>2, <3>1 DEF ListenerTypeOK
  <2>3. KeysAsSent' /\ Unregistered' /\ Told'
    BY <1>1, <1>u, <2>1, SendKeeps
  <2>4. Listening'
    BY <1>u, <2>1, StartsStay
  <2>5. /\ def # None => Settles(mailbox, network, def)
        /\ def = None => Empties(mailbox, network)
        /\ Corrects(mailbox, network, up)
    BY <2>1 DEF ListenerInv, Informed
  <2>6. Corrects(mailbox', network', up')
    <3>1. /\ m.type = "Put" => m.net \in up'
          /\ \A n \in Networks : n \notin up' => n \notin up \/ Loses(m, n)
      BY <1>1 DEF Loses
    <3> QED
      BY <1>0, <1>u, <2>1, <2>5, <3>1, AppendCorrects
  <2>7. CASE m.type = "Put"
    <3>1. Puts(m, def') /\ def' # None
      BY <1>1, <2>7, ListenerAssumption DEF Puts
    <3>2. Settles(mailbox', network', def')
      BY <1>0, <1>u, <2>1, <3>1, AppendPut
    <3> QED
      BY <1>0, <1>u, <1>4, <2>2, <2>3, <2>4, <2>6, <3>1, <3>2 DEF ListenerInv, Informed
  <2>8. CASE m.type = "Lost" /\ m.net = def
    <3>1. def' = None /\ def # None /\ Loses(m, def)
      BY <1>0, <1>1, <2>8, ListenerAssumption DEF Loses, ListenerTypeOK
    <3>2. Empties(mailbox', network')
      BY <1>0, <1>u, <2>1, <2>5, <3>1, AppendLost
    <3> QED
      BY <1>0, <1>u, <1>4, <2>2, <2>3, <2>4, <2>6, <3>1, <3>2 DEF ListenerInv, Informed
  <2>9. CASE m.type = "Update" \/ (m.type = "Lost" /\ m.net # def)
    <3>1. def' = def /\ m.type # "Put" /\ ~Loses(m, def)
      BY <1>1, <2>9 DEF Loses
    <3>2. def # None => Settles(mailbox', network', def)
      BY <1>0, <1>u, <2>1, <2>5, <3>1, AppendSettles
    <3>3. def = None => Empties(mailbox', network')
      BY <1>0, <1>u, <2>1, <2>5, <3>1, AppendEmpties
    <3> QED
      BY <1>0, <1>u, <1>4, <2>2, <2>3, <2>4, <2>6, <3>1, <3>2, <3>3 DEF ListenerInv, Informed
  <2> QED
    BY <1>1, <2>7, <2>8, <2>9
<1> QED
  BY <1>0, <1>3, <1>4

(* A start or stop of the service sends one message to the actor. *)
LEMMA ServiceKeeps ==
  ASSUME ListenerInv, (\E s \in Services : PreInit(s)) \/ KillProcesses
  PROVE  ListenerInv'
<1> USE DEF actorVars, sysVars
<1>0. mailbox \in Seq(Message) /\ ListenerTypeOK /\ IsFiniteSet(listeners)
  BY DEF ListenerInv, ListenerTypeOK
<1>u. UNCHANGED <<actorVars, serial, underlying, sysVars>>
  BY DEF PreInit, KillProcesses
<1>1. PICK m \in Message :
        /\ mailbox' = Append(mailbox, m)
        /\ \/ /\ m.type = "Start" /\ m.key \in Services /\ service' = m.key /\ running' = "yes"
           \/ m.type = "Stop" /\ m.key = None /\ service' = service /\ running' = "no"
  <2>1. CASE KillProcesses
    <3>1. /\ mailbox' = Append(mailbox, [type |-> "Stop", key |-> None])
          /\ service' = service /\ running' = "no"
      BY <2>1 DEF KillProcesses, Send, StopKey
    <3> QED
      BY <3>1, Sent
  <2>2. ASSUME NEW s \in Services, PreInit(s)
        PROVE  /\ mailbox' = Append(mailbox, [type |-> "Start", key |-> s])
               /\ service' = s /\ running' = "yes" /\ [type |-> "Start", key |-> s] \in Message
    BY <2>2, Sent DEF PreInit, Send
  <2> QED
    BY <2>1, <2>2
<1>2. ListenerTypeOK'
  <2>1. mailbox' \in Seq(Message)
    BY <1>0, <1>1, Appended
  <2> QED
    BY <1>0, <1>u, <1>1, <2>1 DEF ListenerTypeOK
<1>3. KeysAsSent' /\ Unregistered' /\ Told'
  BY <1>1, <1>u, SendKeeps
<1>4. Listening'
  <2>1. Len(mailbox') = Len(mailbox) + 1 /\ Len(mailbox) \in Nat /\ mailbox'[Len(mailbox) + 1] = m
    BY <1>0, <1>1, Appended
  <2>2. Len(mailbox) + 1 \in 1..Len(mailbox')
    BY <2>1
  <2> QED
    BY <1>1, <2>1, <2>2 DEF Listening
<1>5. Informed'
  <2> SUFFICES ASSUME listeners # {}
               PROVE  /\ registered = "yes"
                      /\ def # None => Settles(mailbox', network, def)
                      /\ def = None => Empties(mailbox', network)
                      /\ Corrects(mailbox', network, up)
    BY <1>u DEF Informed
  <2>1. /\ registered = "yes" /\ Corrects(mailbox, network, up)
        /\ def # None => Settles(mailbox, network, def)
        /\ def = None => Empties(mailbox, network)
    BY DEF ListenerInv, Informed
  <2>2. m.type \notin {"Put", "Lost"} /\ \A d : ~Loses(m, d)
    BY <1>1 DEF Loses
  <2>3. def # None => Settles(mailbox', network, def)
    BY <1>0, <1>1, <2>1, <2>2, AppendSettles
  <2>4. def = None => Empties(mailbox', network)
    BY <1>0, <1>1, <2>1, <2>2, AppendEmpties
  <2>5. Corrects(mailbox', network, up)
    BY <1>0, <1>1, <2>1, <2>2, AppendCorrects
  <2> QED
    BY <2>1, <2>3, <2>4, <2>5
<1> QED
  BY <1>0, <1>u, <1>2, <1>3, <1>4, <1>5 DEF ListenerInv

-----------------------------------------------------------------------------
(* The actor takes a message off, and nobody is the first to listen. *)
LEMMA TakeKeeps ==
  ASSUME ListenerInv, mailbox # <<>>, mailbox' = Tail(mailbox),
         network' = Effect(Head(mailbox), network),
         listeners \subseteq listeners', listeners' \subseteq Services, IsFiniteSet(listeners'),
         listeners = {} => listeners' = {} /\ UNCHANGED serial,
         Head(mailbox).type = "Start" => Head(mailbox).key \in listeners',
         serial' \in Seq(Networks \cup {None}),
         \/ UNCHANGED <<serial, network>> /\ ~Loses(Head(mailbox), network)
         \/ listeners # {} => serial' # <<>> /\ serial'[Len(serial')] = network',
         UNCHANGED <<service, running, registered, underlying, sysVars>>
  PROVE  ListenerInv'
<1> USE DEF sysVars
<1>0. mailbox \in Seq(Message) /\ ListenerTypeOK /\ None \notin Networks
  BY ListenerAssumption DEF ListenerInv, ListenerTypeOK
<1>1. /\ Head(mailbox) \in Message /\ Tail(mailbox) \in Seq(Message)
      /\ Len(mailbox) \in Nat /\ Len(mailbox) >= 1 /\ Len(mailbox') = Len(mailbox) - 1
      /\ Head(mailbox) = mailbox[1]
      /\ \A i \in 1..(Len(mailbox) - 1) : mailbox'[i] = mailbox[i + 1]
  BY <1>0, Taken
<1>2. \A i \in 1..Len(mailbox') : i + 1 \in 1..Len(mailbox) /\ mailbox'[i] = mailbox[i + 1]
  BY <1>1
<1>3. \A i \in 1..Len(mailbox) : i = 1 \/ (i - 1 \in 1..Len(mailbox') /\ mailbox'[i - 1] = mailbox[i])
  <2> SUFFICES ASSUME NEW i \in 1..Len(mailbox), i # 1
               PROVE  i - 1 \in 1..Len(mailbox') /\ mailbox'[i - 1] = mailbox[i]
    OBVIOUS
  <2>1. i - 1 \in 1..(Len(mailbox) - 1) /\ (i - 1) + 1 = i
    BY <1>1
  <2>2. mailbox'[i - 1] = mailbox[(i - 1) + 1]
    BY <1>1, <2>1
  <2> QED
    BY <1>1, <2>1, <2>2
<1>4. ListenerTypeOK'
  <2>1. network' \in Networks \cup {None}
    <3>1. Head(mailbox).type = "Put" => Head(mailbox).net \in Networks
      BY <1>1, Carried
    <3> QED
      BY <1>0, <3>1 DEF Effect, ListenerTypeOK
  <2> QED
    BY <1>0, <1>1, <2>1 DEF ListenerTypeOK
<1>5. KeysAsSent'
  BY <1>2 DEF ListenerInv, KeysAsSent
<1>6. Listening'
  <2> SUFFICES ASSUME running = "yes", service \notin listeners'
               PROVE  /\ service \in Services
                      /\ \E i \in 1..Len(mailbox') : mailbox'[i].type = "Start" /\ mailbox'[i].key = service
    BY DEF Listening, ListenerInv
  <2>1. PICK i \in 1..Len(mailbox) : mailbox[i].type = "Start" /\ mailbox[i].key = service
    BY DEF ListenerInv, Listening
  <2>2. i # 1
    BY <1>1, <2>1
  <2> QED
    BY <1>3, <2>1, <2>2 DEF ListenerInv, Listening
<1>7. Unregistered'
  <2> SUFFICES ASSUME listeners = {}, listeners' = {} PROVE Unregistered'
    BY DEF Unregistered
  <2>1. /\ registered = "no" /\ network = None /\ serial = <<>> /\ underlying = None
        /\ \A i \in 1..Len(mailbox) : mailbox[i].type \in {"Start", "Stop"}
    BY DEF ListenerInv, Unregistered
  <2>2. 1 \in 1..Len(mailbox)
    BY <1>1
  <2>3. network' = None
    BY <1>1, <2>1, <2>2 DEF Effect, Loses
  <2> QED
    BY <1>2, <2>1, <2>3 DEF Unregistered
<1>8. Informed'
  <2> SUFFICES ASSUME listeners # {} PROVE Informed'
    BY DEF Informed
  <2>1. /\ registered = "yes" /\ Corrects(mailbox, network, up)
        /\ def # None => Settles(mailbox, network, def)
        /\ def = None => Empties(mailbox, network)
    BY DEF ListenerInv, Informed
  <2>2. Corrects(mailbox', network', up)
    BY <1>0, <2>1, TailCorrects
  <2>3. def # None => Settles(mailbox', network', def)
    BY <1>0, <2>1, TailSettles
  <2>4. def = None => Empties(mailbox', network')
    BY <1>0, <2>1, TailEmpties
  <2> QED
    BY <2>1, <2>2, <2>3, <2>4 DEF Informed
<1>9. Told'
  <2> SUFFICES ASSUME listeners # {}
               PROVE  IF serial' # <<>> THEN serial'[Len(serial')] = network'
                      ELSE \/ underlying' = network'
                           \/ \E j \in 1..Len(mailbox') : Loses(mailbox'[j], network')
    BY DEF Told
  <2>1. CASE serial' # <<>> /\ serial'[Len(serial')] = network'
    BY <2>1
  <2>2. CASE UNCHANGED <<serial, network>> /\ ~Loses(Head(mailbox), network)
    <3>1. CASE serial # <<>>
      BY <2>2, <3>1 DEF ListenerInv, Told
    <3>2. CASE serial = <<>>
      <4>1. CASE underlying = network
        BY <2>2, <3>2, <4>1
      <4>2. ASSUME NEW j \in 1..Len(mailbox), Loses(mailbox[j], network)
            PROVE  \E k \in 1..Len(mailbox') : Loses(mailbox'[k], network')
        <5>1. j # 1
          BY <1>1, <2>2, <4>2
        <5> QED
          BY <1>3, <2>2, <4>2, <5>1
      <4> QED
        BY <2>2, <3>2, <4>1, <4>2 DEF ListenerInv, Told
    <3> QED
      BY <3>1, <3>2
  <2> QED
    BY <2>1, <2>2
<1> QED
  BY <1>4, <1>5, <1>6, <1>7, <1>8, <1>9 DEF ListenerInv

(* The first listener: the registration brings the default network, and      *)
(* nothing in the mailbox contradicts it.                                    *)
LEMMA FirstStartKeeps ==
  ASSUME ListenerInv, mailbox # <<>>, listeners = {},
         ActorStart(Head(mailbox), Tail(mailbox)),
         UNCHANGED <<service, running, underlying, sysVars>>
  PROVE  ListenerInv'
<1> USE DEF sysVars
<1> DEFINE rest == Tail(mailbox)
           m == Head(mailbox)
<1>0. mailbox \in Seq(Message) /\ ListenerTypeOK /\ None \notin Networks
  BY ListenerAssumption DEF ListenerInv, ListenerTypeOK
<1>1. /\ m \in Message /\ rest \in Seq(Message)
      /\ Len(mailbox) \in Nat /\ Len(mailbox) >= 1 /\ Len(rest) = Len(mailbox) - 1
      /\ m = mailbox[1]
      /\ \A i \in 1..(Len(mailbox) - 1) : rest[i] = mailbox[i + 1]
  BY <1>0, Taken
<1>2. /\ registered = "no" /\ network = None /\ serial = <<>> /\ underlying = None
      /\ \A i \in 1..Len(mailbox) : mailbox[i].type \in {"Start", "Stop"}
  BY DEF ListenerInv, Unregistered
<1>3. /\ m.type = "Start" /\ mailbox' = Register(rest) /\ registered' = "yes"
      /\ listeners' = {m.key} /\ network' = None /\ serial' = <<>>
  BY <1>2 DEF ActorStart
<1>4. m.key \in Services
  <2>1. 1 \in 1..Len(mailbox)
    BY <1>1
  <2> QED
    BY <1>1, <1>3, <2>1 DEF ListenerInv, KeysAsSent
<1> HIDE DEF rest, m
<1>5. \A i \in 1..Len(rest) : i + 1 \in 1..Len(mailbox) /\ rest[i] = mailbox[i + 1]
  BY <1>1
<1>6. \A i \in 1..Len(rest) : /\ rest[i].type \in {"Start", "Stop"}
                              /\ rest[i].type = "Start" => rest[i].key \in Services
                              /\ rest[i].type = "Stop" => rest[i].key = None
  BY <1>2, <1>5 DEF ListenerInv, KeysAsSent
<1>7. \A i \in 0..Len(rest), n \in Networks : ~Said(rest, None, i, n)
  <2> SUFFICES ASSUME NEW i \in 0..Len(rest), NEW n \in Networks, Said(rest, None, i, n) PROVE FALSE
    OBVIOUS
  <2>1. i # 0
    BY <1>0 DEF Said
  <2>2. i \in 1..Len(rest)
    BY <1>1, <2>1
  <2> QED
    BY <1>6, <2>1, <2>2 DEF Said, Puts
<1>8. Empties(rest, None) /\ Corrects(rest, None, up)
  BY <1>7 DEF Empties, Corrects
<1>9. Listening'
  <2> SUFFICES ASSUME running = "yes", service # m.key
               PROVE  /\ service \in Services
                      /\ \E i \in 1..Len(mailbox') : mailbox'[i].type = "Start" /\ mailbox'[i].key = service
    BY <1>3, <1>4 DEF Listening
  <2>1. PICK i \in 1..Len(mailbox) : mailbox[i].type = "Start" /\ mailbox[i].key = service
    BY DEF ListenerInv, Listening
  <2>2. i # 1
    BY <1>1, <2>1 DEF m
  <2>3. i - 1 \in 1..(Len(mailbox) - 1) /\ (i - 1) + 1 = i
    BY <1>1, <2>2
  <2>4. i - 1 \in 1..Len(rest) /\ rest[i - 1] = mailbox[i]
    <3>1. rest[i - 1] = mailbox[(i - 1) + 1]
      BY <1>1, <2>3
    <3> QED
      BY <1>1, <2>3, <3>1
  <2>5. i - 1 \in 1..Len(mailbox') /\ mailbox'[i - 1] = rest[i - 1]
    <3>1. CASE def = None
      BY <1>3, <2>4, <3>1 DEF Register
    <3>2. CASE def # None
      <4>1. [type |-> "Put", net |-> def] \in Message /\ mailbox' = Append(rest, [type |-> "Put", net |-> def])
        BY <1>0, <1>3, <3>2, Sent DEF Register, ListenerTypeOK
      <4> QED
        BY <1>1, <2>4, <4>1, Appended
    <3> QED
      BY <3>1, <3>2
  <2> QED
    BY <2>1, <2>4, <2>5 DEF ListenerInv, Listening
<1>10. IsFiniteSet(listeners') /\ Unregistered' /\ Told'
  BY <1>2, <1>3, FS_Singleton DEF Unregistered, Told
<1>11. CASE def = None
  <2>1. mailbox' = rest
    BY <1>3, <1>11 DEF Register
  <2>2. ListenerTypeOK' /\ KeysAsSent'
    BY <1>0, <1>1, <1>3, <1>4, <1>6, <2>1 DEF ListenerTypeOK, KeysAsSent
  <2>3. Informed'
    BY <1>3, <1>8, <1>11, <2>1 DEF Informed
  <2> QED
    BY <1>9, <1>10, <2>2, <2>3 DEF ListenerInv
<1>12. CASE def # None
  <2> DEFINE p == [type |-> "Put", net |-> def]
  <2>1. p \in Message /\ mailbox' = Append(rest, p) /\ p.type = "Put" /\ p.net = def /\ def \in up
    BY <1>0, <1>3, <1>12, Sent DEF Register, ListenerTypeOK
  <2> HIDE DEF p
  <2>2. /\ mailbox' \in Seq(Message) /\ Len(mailbox') = Len(rest) + 1 /\ Len(rest) \in Nat
        /\ mailbox'[Len(rest) + 1] = p /\ \A i \in 1..Len(rest) : mailbox'[i] = rest[i]
    BY <1>1, <2>1, Appended
  <2>3. ListenerTypeOK'
    BY <1>0, <1>3, <1>4, <2>2 DEF ListenerTypeOK
  <2>4. KeysAsSent'
    <3>1. \A i \in 1..Len(mailbox') : i \in 1..Len(rest) \/ i = Len(rest) + 1
      BY <2>2
    <3> QED
      BY <1>6, <2>1, <2>2, <3>1 DEF KeysAsSent
  <2>5. Settles(mailbox', None, def)
    BY <1>1, <2>1, AppendPut DEF Puts
  <2>6. Corrects(mailbox', None, up)
    BY <1>1, <1>8, <2>1, AppendCorrects
  <2> QED
    BY <1>3, <1>9, <1>10, <1>12, <2>3, <2>4, <2>5, <2>6 DEF ListenerInv, Informed
<1> QED
  BY <1>11, <1>12

(* Every message the actor handles. *)
LEMMA ActorKeeps ==
  ASSUME ListenerInv, Actor
  PROVE  ListenerInv'
<1> DEFINE m == Head(mailbox)
           rest == Tail(mailbox)
<1> USE DEF actorVars
<1>0. /\ mailbox \in Seq(Message) /\ mailbox # <<>> /\ listeners \subseteq Services
      /\ IsFiniteSet(listeners) /\ serial \in Seq(Networks \cup {None})
      /\ network \in Networks \cup {None} /\ None \notin Networks \cup Services
  BY ListenerAssumption DEF Actor, ListenerInv, ListenerTypeOK
<1>u. UNCHANGED <<service, running, underlying, sysVars>>
  BY DEF Actor
<1>1. m \in Message /\ Len(mailbox) \in Nat /\ Len(mailbox) >= 1 /\ m = mailbox[1]
  BY <1>0, Taken
<1>2. /\ m.type = "Start" => m.key \in Services
      /\ m.type = "Stop" => m.key = None
  <2>1. 1 \in 1..Len(mailbox)
    BY <1>1
  <2> QED
    BY <1>1, <2>1 DEF ListenerInv, KeysAsSent
<1>3. listeners = {} => m.type \in {"Start", "Stop"} /\ network = None
  <2>1. 1 \in 1..Len(mailbox)
    BY <1>1
  <2> QED
    BY <1>1, <2>1 DEF ListenerInv, Unregistered
<1>4. m.type \in {"Put", "Update", "Lost"} => m.net \in Networks
  BY <1>1, Carried
<1> HIDE DEF m, rest
<1>5. CASE ActorStart(m, rest)
  <2>1. CASE listeners = {}
    BY <1>0, <1>u, <1>5, <2>1, FirstStartKeeps DEF m, rest
  <2>2. CASE listeners # {}
    <3>1. /\ mailbox' = Tail(mailbox) /\ registered' = registered /\ m.type = "Start"
          /\ listeners' = listeners \cup {m.key} /\ network' = network
          /\ network = None => serial' = serial
          /\ network # None => Notify({m.key}, network)
      BY <1>5, <2>2 DEF ActorStart, rest
    <3>2. IsFiniteSet(listeners') /\ IsFiniteSet({m.key})
      BY <1>0, <3>1, FS_AddElement, FS_Singleton
    <3>3. network' = Effect(m, network) /\ ~Loses(m, network)
      BY <3>1 DEF Effect, Loses
    <3>4. /\ serial' \in Seq(Networks \cup {None})
          /\ \/ UNCHANGED <<serial, network>> /\ ~Loses(m, network)
             \/ listeners # {} => serial' # <<>> /\ serial'[Len(serial')] = network'
      <4>1. CASE network = None
        BY <1>0, <3>1, <3>3, <4>1
      <4>2. CASE network # None
        BY <1>0, <3>1, <3>2, <4>2, Notified
      <4> QED
        BY <4>1, <4>2
    <3> QED
      BY <1>0, <1>u, <1>2, <2>2, <3>1, <3>2, <3>3, <3>4, TakeKeeps DEF m
  <2> QED
    BY <2>1, <2>2
<1>6. CASE ActorStop(m, rest)
  <2>1. /\ mailbox' = Tail(mailbox) /\ m.type = "Stop" /\ listeners' = listeners /\ serial' = serial
        /\ UNCHANGED <<network, registered>>
    BY <1>0, <1>2, <1>6 DEF ActorStop, rest
  <2>2. network' = Effect(m, network) /\ ~Loses(m, network)
    BY <2>1 DEF Effect, Loses
  <2> QED
    BY <1>0, <1>u, <2>1, <2>2, TakeKeeps DEF m
<1>7. CASE ActorPut(m, rest)
  <2>1. /\ mailbox' = Tail(mailbox) /\ m.type = "Put" /\ network' = m.net /\ Notify(listeners, m.net)
        /\ UNCHANGED <<listeners, registered>>
    BY <1>7 DEF ActorPut, rest
  <2>2. network' = Effect(m, network) /\ listeners # {} /\ m.net \in Networks
    BY <1>3, <1>4, <2>1 DEF Effect
  <2>3. serial' \in Seq(Networks \cup {None}) /\ serial' # <<>> /\ serial'[Len(serial')] = m.net
    BY <1>0, <2>1, <2>2, Notified
  <2> QED
    BY <1>0, <1>u, <2>1, <2>2, <2>3, TakeKeeps DEF m
<1>8. CASE ActorUpdate(m, rest)
  <2>1. /\ mailbox' = Tail(mailbox) /\ m.type = "Update"
        /\ network = m.net => Notify(listeners, network)
        /\ network # m.net => serial' = serial
        /\ UNCHANGED <<listeners, network, registered>>
    BY <1>8 DEF ActorUpdate, rest
  <2>2. network' = Effect(m, network) /\ ~Loses(m, network) /\ listeners # {}
    BY <1>3, <2>1 DEF Effect, Loses
  <2>3. /\ serial' \in Seq(Networks \cup {None})
        /\ \/ UNCHANGED <<serial, network>> /\ ~Loses(m, network)
           \/ listeners # {} => serial' # <<>> /\ serial'[Len(serial')] = network'
    <3>1. CASE network = m.net
      BY <1>0, <2>1, <2>2, <3>1, Notified
    <3>2. CASE network # m.net
      BY <1>0, <2>1, <2>2, <3>2
    <3> QED
      BY <3>1, <3>2
  <2> QED
    BY <1>0, <1>u, <2>1, <2>2, <2>3, TakeKeeps DEF m
<1>9. CASE ActorLost(m, rest)
  <2>1. /\ mailbox' = Tail(mailbox) /\ m.type = "Lost"
        /\ network = m.net => network' = None /\ Notify(listeners, None)
        /\ network # m.net => network' = network /\ serial' = serial
        /\ UNCHANGED <<listeners, registered>>
    BY <1>9 DEF ActorLost, rest
  <2>2. network' = Effect(m, network) /\ listeners # {}
    BY <1>3, <2>1 DEF Effect, Loses
  <2>3. /\ serial' \in Seq(Networks \cup {None})
        /\ \/ UNCHANGED <<serial, network>> /\ ~Loses(m, network)
           \/ listeners # {} => serial' # <<>> /\ serial'[Len(serial')] = network'
    <3>1. CASE network = m.net
      BY <1>0, <2>1, <2>2, <3>1, Notified
    <3>2. CASE network # m.net
      BY <1>0, <2>1, <2>2, <3>2 DEF Loses
    <3> QED
      BY <3>1, <3>2
  <2> QED
    BY <1>0, <1>u, <2>1, <2>2, <2>3, TakeKeeps DEF m
<1> QED
  BY <1>5, <1>6, <1>7, <1>8, <1>9 DEF Actor, m, rest

(* The service's callback: when the last one finds its network gone, the     *)
(* actor has still to be told so.                                            *)
LEMMA CallbackKeeps ==
  ASSUME ListenerInv, Callback
  PROVE  ListenerInv'
<1> USE DEF actorVars, sysVars
<1>0. /\ serial \in Seq(Networks \cup {None}) /\ serial # <<>> /\ ListenerTypeOK
      /\ IsFiniteSet(listeners)
  BY DEF Callback, ListenerInv, ListenerTypeOK
<1>1. /\ serial' = Tail(serial)
      /\ underlying' = IF Head(serial) \in up \cup {None} THEN Head(serial) ELSE underlying
      /\ UNCHANGED <<service, running, mailbox, actorVars, sysVars>>
  BY DEF Callback
<1>2. /\ serial' \in Seq(Networks \cup {None}) /\ Head(serial) = serial[1]
      /\ Len(serial) \in Nat /\ Len(serial) >= 1 /\ Len(serial') = Len(serial) - 1
      /\ \A i \in 1..(Len(serial) - 1) : serial'[i] = serial[i + 1]
  BY <1>0, <1>1
<1>3. ListenerTypeOK'
  BY <1>0, <1>1, <1>2 DEF ListenerTypeOK
<1>4. listeners # {}
  BY <1>0 DEF ListenerInv, Unregistered
<1>5. KeysAsSent' /\ Listening' /\ Unregistered' /\ Informed'
  BY <1>1, <1>4 DEF ListenerInv, KeysAsSent, Listening, Unregistered, Informed
<1>6. serial[Len(serial)] = network
  BY <1>0, <1>4 DEF ListenerInv, Told
<1>7. CASE Len(serial) = 1
  <2>1. serial' = <<>> /\ Head(serial) = network
    BY <1>2, <1>6, <1>7, EmptySeq
  <2>2. CASE network \in up \cup {None}
    BY <1>0, <1>1, <1>3, <1>5, <2>1, <2>2 DEF ListenerInv, Told
  <2>3. CASE network \notin up \cup {None}
    <3>1. Said(mailbox, network, 0, network) /\ network \in Networks /\ Len(mailbox) \in Nat
      BY <1>0, <2>3 DEF Said, ListenerTypeOK
    <3>2. \E j \in (0 + 1)..Len(mailbox) : Loses(mailbox[j], network)
      BY <1>4, <2>3, <3>1 DEF ListenerInv, Informed, Corrects
    <3> QED
      BY <1>0, <1>1, <1>3, <1>5, <2>1, <3>2 DEF ListenerInv, Told
  <2> QED
    BY <2>2, <2>3
<1>8. CASE Len(serial) > 1
  <2>1. Len(serial') \in 1..(Len(serial) - 1) /\ Len(serial') + 1 = Len(serial)
    BY <1>2, <1>8
  <2>2. serial'[Len(serial')] = network /\ serial' # <<>>
    BY <1>2, <1>6, <2>1
  <2> QED
    BY <1>0, <1>1, <1>3, <1>5, <2>2 DEF ListenerInv, Told
<1> QED
  BY <1>2, <1>7, <1>8

(* Every step keeps the invariant. *)
LEMMA NextListenerInv == ListenerInv /\ [NextListener]_listenerVars => ListenerInv'
<1> SUFFICES ASSUME ListenerInv, [NextListener]_listenerVars PROVE ListenerInv'
  OBVIOUS
<1>1. CASE OnDestroy
  <2>1. ListenerTypeOK' /\ IsFiniteSet(listeners')
    BY <1>1 DEF ListenerInv, ListenerTypeOK, OnDestroy, actorVars, sysVars
  <2> QED
    BY <1>1, <2>1 DEF OnDestroy, actorVars, sysVars, ListenerInv, KeysAsSent, Listening,
      Unregistered, Informed, Told
<1>2. CASE UNCHANGED listenerVars
  <2>1. ListenerTypeOK' /\ IsFiniteSet(listeners')
    BY <1>2 DEF ListenerInv, ListenerTypeOK, listenerVars, actorVars, sysVars
  <2> QED
    BY <1>2, <2>1 DEF listenerVars, actorVars, sysVars, ListenerInv, KeysAsSent, Listening,
      Unregistered, Informed, Told
<1> QED
  BY <1>1, <1>2, ActorKeeps, CallbackKeeps, ServiceKeeps, SystemKeeps DEF NextListener

(* The inductive invariant of the listener. *)
THEOREM ListenerInvariance == ListenerSpec => []ListenerInv
  BY InitListenerInv, NextListenerInv, PTL DEF ListenerSpec

(* Every variable of the listener keeps its type. *)
THEOREM ListenerTypes == ListenerSpec => []ListenerTypeOK
<1>1. ListenerInv => ListenerTypeOK
  BY DEF ListenerInv
<1> QED
  BY <1>1, ListenerInvariance, PTL

(* Whatever networks came and went, the tunnel's underlying network is the   *)
(* default one once the actor and the callbacks have caught up, for any      *)
(* number of networks, listeners and queued messages.                        *)
THEOREM UnderlyingIsDefault == ListenerSpec => []UnderlyingFollowsDefault
<1>1. ListenerInv => UnderlyingFollowsDefault
  <2> SUFFICES ASSUME ListenerInv, running = "yes", mailbox = <<>>, serial = <<>>
               PROVE  underlying = def
    BY DEF UnderlyingFollowsDefault, Quiet
  <2>1. Len(mailbox) = 0 /\ 1..Len(mailbox) = {}
    OBVIOUS
  <2>2. listeners # {}
    BY <2>1 DEF ListenerInv, Listening
  <2>3. underlying = network
    BY <2>1, <2>2 DEF ListenerInv, Told
  <2>4. CASE def # None
    <3>1. PICK i \in 0..Len(mailbox) : Said(mailbox, network, i, def)
      BY <2>2, <2>4 DEF ListenerInv, Informed, Settles
    <3> QED
      BY <2>1, <2>3, <3>1 DEF Said
  <2>5. CASE def = None
    <3>1. network \in Networks => ~Said(mailbox, network, 0, network)
      BY <2>1, <2>2, <2>5 DEF ListenerInv, Informed, Empties
    <3> QED
      BY <2>3, <2>5, <3>1 DEF Said, ListenerInv, ListenerTypeOK
  <2> QED
    BY <2>4, <2>5
<1> QED
  BY <1>1, ListenerInvariance, PTL
=============================================================================
