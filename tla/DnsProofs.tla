------------------------------ MODULE DnsProofs ------------------------------
(***************************************************************************)
(* Proofs about the DNS client and the DNS router.                         *)
(*                                                                         *)
(* DnsClient, for any number of calls, networks and network changes:       *)
(* cacheLock has one owner for each key, lets one query through, and       *)
(* finishCacheKey keeps answers of another network out of the cache.       *)
(*                                                                         *)
(* DnsRouter, for any servers and any rule lists: a rule asks its server   *)
(* once, nothing stays in flight for a query that has returned, and the    *)
(* result is one that the order of the rules allows.                       *)
(***************************************************************************)
EXTENDS DnsClient, DnsRouter, WellFoundedInduction, TLAPS

(* The places of a call between LoadOrStore and Delete, if it has the lock.  *)
Inside == {"load", "asking", "finish", "release"}

(* cacheLock holds the call that stored itself there, and no other.          *)
LockOwner ==
  /\ \A k \in Keys, c \in Calls :
       (lock[k] = c) <=> (call[c].holds /\ call[c].key = k /\ call[c].pc \in Inside)
  /\ \A c \in Calls :
       /\ call[c].holds => call[c].pc \in Inside \cup {"close"}
       /\ call[c].pc \in {"release", "close"} => call[c].holds
       /\ call[c].pc = "waiting" => call[c].on \in Calls

-----------------------------------------------------------------------------
(* Where an answer that the record was not behind may come from, by the      *)
(* changes of the record since its key was made: with none, from the key's   *)
(* network; with one, from the network before or after.                      *)
Traced(key, born, from) ==
  /\ born <= changes
  /\ changes = born => network = key /\ from \in {key, Behind}
  /\ changes = born + 1 => from \in {key, network, Behind}

Located(key, born) == born <= changes /\ (changes = born => network = key)

AnswersTraced ==
  /\ \A c \in Calls :
       /\ call[c].pc = "load" => Located(call[c].key, call[c].born)
       /\ call[c].pc \in {"asking", "finish"} =>
            Traced(call[c].key, call[c].born, call[c].from)
  /\ \A k \in Keys :
       refresh[k].state = "asking" => Traced(k, refresh[k].born, refresh[k].from)

-----------------------------------------------------------------------------
CallAnswered == cache[network].state # "none"

(* As long as nothing was disturbed: every key is the record's, nothing is   *)
(* stale, and no refresh runs.                                               *)
CalmKeys ==
  calm =>
    /\ \A c \in Calls : call[c].pc \in Inside => call[c].key = network
    /\ \A k \in Keys : cache[k].state # "stale" /\ refresh[k].state = "idle"

(* The one query is under way, or is answered.  Whoever goes on without the  *)
(* lock does so after the answer is in the cache.                            *)
CalmQuery ==
  calm =>
    /\ \A c \in Calls :
         /\ call[c].pc \in {"asking", "finish"} => call[c].holds /\ ~CallAnswered
         /\ call[c].pc \in {"release", "close"} => CallAnswered
         /\ call[c].pc = "load" /\ ~call[c].holds => CallAnswered
         /\ call[c].pc = "waiting" /\ ~call[call[c].on].holds => CallAnswered
    /\ asks = 1 /\ ~CallAnswered => \E c \in Calls : call[c].pc \in {"asking", "finish"}

(* A nested call waits for the query around it. *)
CalmNested ==
  calm /\ call[Nested].pc \notin {"idle", "done"} =>
    call[Nested].pc \in {"peek", "begin", "waiting"} /\ call[Outer].pc = "asking"

IInv ==
  /\ TypeOK /\ LockOwner /\ AnswersTraced /\ NoForeignAnswer
  /\ CalmKeys /\ CalmQuery /\ CalmNested /\ SingleFlight

-----------------------------------------------------------------------------
(* A client that has just been made satisfies the invariant. *)
LEMMA InitIInv == Init => IInv
  BY CallsAssumption
  DEF Init, IInv, TypeOK, LockOwner, AnswersTraced, NoForeignAnswer, CalmKeys, CalmQuery,
      CalmNested, SingleFlight, CallAnswered, Inside, Keys, Sources, Empty, Resting, Fresh, CacheEntry, Refresh,
      Operation, NoCall

(* What is sent or answered now comes from the recorded network, if the      *)
(* record is not behind.                                                     *)
LEMMA SourceNow == TypeOK => Source \in {network, Behind} /\ Source \in Sources
  BY DEF Source, Sources, TypeOK

(* What a step does to the call that takes it, and to no other.              *)
LEMMA MovesOne ==
  ASSUME TypeOK, NEW c \in Calls, NEW r \in Operation, Moves(c, r)
  PROVE  /\ call' \in [Calls -> Operation]
         /\ call'[c] = r
         /\ \A d \in Calls : d # c => call'[d] = call[d]
  BY DEF TypeOK, Moves

(* operation.release() leads to Delete when the call has the lock and to its *)
(* return when it has not.                                                   *)
LEMMA LeaveFields ==
  ASSUME NEW r \in Operation
  PROVE  /\ Leave(r) \in Operation
         /\ Leave(r).holds = r.holds
         /\ r.holds => Leave(r).pc = "release" /\ Leave(r).key = r.key
         /\ ~r.holds => Leave(r).pc = "done"
  BY CallsAssumption DEF Leave, Returned, Fresh, Operation, Keys, Sources, NoCall

(* Types are kept by every step; that a count of changes is not negative     *)
(* needs to know that keys are made before answers are stored.               *)
LEMMA NextTypeOK == TypeOK /\ AnswersTraced /\ [Next]_vars => TypeOK'
<1> SUFFICES ASSUME TypeOK, AnswersTraced, [Next]_vars PROVE TypeOK'
  OBVIOUS
<1> USE CallsAssumption DEF TypeOK
<1>k. 0 \in Keys
  BY DEF Keys
<1>s. 0 \in Sources /\ Source \in Sources
  BY <1>k, SourceNow DEF Sources
<1>0. Fresh \in Operation /\ Returned \in Operation
  BY <1>k, <1>s DEF Fresh, Returned, Operation, NoCall
<1>1. ASSUME NEW c \in Calls, Start(c) PROVE TypeOK'
  <2>1. \A async \in BOOLEAN : [call[c] EXCEPT !.pc = "begin", !.async = async] \in Operation
    BY DEF Operation
  <2>2. [call[c] EXCEPT !.pc = "peek"] \in Operation
    BY DEF Operation
  <2>3. call' \in [Calls -> Operation]
    BY <1>1, <2>1, <2>2 DEF Start, Moves
  <2> QED
    BY <1>1, <2>3 DEF Start
<1>2. ASSUME NEW c \in Calls, Peek(c) PROVE TypeOK'
  BY <1>0, <1>2, <1>s DEF Peek, Moves, Serve, StartRefresh, EnvironmentHash, Asks, Operation, Refresh
<1>3. ASSUME NEW c \in Calls, Begin(c) PROVE TypeOK'
  <2>1. \A r \in Operation : /\ [Keyed(r, "load") EXCEPT !.holds = TRUE] \in Operation
                           /\ [r EXCEPT !.async = FALSE] \in Operation
    BY DEF Keyed, EnvironmentHash, Operation
  <2>2. \A r \in Operation, on \in Calls \cup {NoCall} :
          [Keyed(r, "waiting") EXCEPT !.on = on] \in Operation
    BY DEF Keyed, EnvironmentHash, Operation
  <2> QED
    <3>1. call[c] \in Operation /\ lock[network] \in Calls \cup {NoCall}
      OBVIOUS
    <3>2. PICK r \in Operation : Moves(c, r)
      <4>1. CASE lock[network] = NoCall
        BY <1>0, <1>3, <2>1, <4>1 DEF Begin, EnvironmentHash
      <4>2. CASE lock[network] # NoCall
        BY <1>3, <2>1, <2>2, <3>1, <4>2 DEF Begin, EnvironmentHash
      <4> QED
        BY <4>1, <4>2
    <3>3. lock' \in [Keys -> Calls \cup {NoCall}]
      BY <1>3 DEF Begin, EnvironmentHash
    <3> QED
      BY <1>3, <3>2, <3>3 DEF Begin, Moves
<1>4. ASSUME NEW c \in Calls, Waited(c) PROVE TypeOK'
  <2>1. Keyed(Fresh, "load") \in Operation
    BY <1>0 DEF Keyed, EnvironmentHash, Operation
  <2> QED
    BY <1>0, <1>4, <2>1 DEF Waited, Moves
<1>5. ASSUME NEW c \in Calls, Load(c) PROVE TypeOK'
  <2>1. [call[c] EXCEPT !.pc = "asking", !.from = Source] \in Operation
    BY <1>s DEF Operation
  <2>2. refresh' \in [Keys -> Refresh] /\ asks' \in Nat
    BY <1>5, <1>s DEF Load, Serve, StartRefresh, Asks, Refresh, Operation
  <2> QED
    BY <1>5, <2>1, <2>2, LeaveFields DEF Load, Moves
<1>6. ASSUME NEW c \in Calls, Finish(c) PROVE TypeOK'
  <2>1. cache' \in [Keys -> CacheEntry]
    <3>1. call[c].from \in Sources /\ call[c].born \in Nat /\ call[c].born <= changes
      BY <1>6 DEF Finish, At, AnswersTraced, Traced, Operation
    <3>2. [state |-> "fresh", from |-> call[c].from, changes |-> changes - call[c].born]
            \in CacheEntry
      BY <3>1 DEF CacheEntry
    <3> QED
      BY <1>6, <3>2 DEF Finish, Stored, EnvironmentHash
  <2> QED
    BY <1>6, <2>1, LeaveFields DEF Finish, Moves
<1>7. ASSUME NEW c \in Calls, Delete(c) PROVE TypeOK'
  BY <1>7 DEF Delete, Moves, Operation
<1>8. ASSUME NEW c \in Calls, CloseCond(c) PROVE TypeOK'
  BY <1>0, <1>8 DEF CloseCond, Moves
<1>9. ASSUME NEW c \in Calls, Answer(c) PROVE TypeOK'
  <2>1. \A from \in Sources : [call[c] EXCEPT !.pc = "finish", !.from = from] \in Operation
    BY DEF Operation
  <2>2. call[c].from \in Sources
    BY DEF Operation
  <2>3. call' \in [Calls -> Operation]
    <3>1. PICK r \in Operation : Moves(c, r)
      BY <1>9, <2>1, <2>2, <1>s, LeaveFields DEF Answer
    <3> QED
      BY <3>1 DEF Moves
  <2>4. calm' \in BOOLEAN
    BY <1>9 DEF Answer, Disturbed
  <2> QED
    BY <1>9, <2>3, <2>4 DEF Answer
<1>10. ASSUME NEW c \in Calls, Timeout(c) PROVE TypeOK'
  BY <1>10, LeaveFields DEF Timeout, Moves, Disturbed
<1>11. ASSUME NEW c \in Calls, GiveUp(c) PROVE TypeOK'
  <2>1. call' \in [Calls -> Operation]
    BY <1>0, <1>11, LeaveFields DEF GiveUp, Moves
  <2>2. calm' \in BOOLEAN
    BY <1>11 DEF GiveUp, Disturbed
  <2> QED
    BY <1>11, <2>1, <2>2 DEF GiveUp
<1>12. ASSUME NEW k \in Keys, RefreshAnswer(k) PROVE TypeOK'
  <2>1. refresh' \in [Keys -> Refresh]
    BY <1>k, <1>s, <1>12 DEF RefreshAnswer, Resting, Refresh
  <2>2. cache' \in [Keys -> CacheEntry]
    <3>1. refresh[k].from \in Sources /\ refresh[k].born \in Nat /\ refresh[k].born <= changes
      BY <1>12 DEF RefreshAnswer, AnswersTraced, Traced, Refresh
    <3>2. \A from \in Sources :
            [state |-> "fresh", from |-> from, changes |-> changes - refresh[k].born] \in CacheEntry
      BY <3>1 DEF CacheEntry
    <3> QED
      BY <1>12, <3>1, <3>2, <1>s DEF RefreshAnswer, Stored, EnvironmentHash
  <2> QED
    BY <1>12, <2>1, <2>2 DEF RefreshAnswer
<1>13. ASSUME NEW k \in Keys, Age(k) PROVE TypeOK'
  <2>1. cache' \in [Keys -> CacheEntry] /\ ages' \in Nat
    BY <1>k, <1>s, <1>13 DEF Age, Empty, CacheEntry
  <2>2. calm' \in BOOLEAN
    BY <1>13 DEF Age, Disturbed
  <2> QED
    BY <1>13, <2>1, <2>2 DEF Age
<1>14. CASE ChangeNetwork
  BY <1>14 DEF ChangeNetwork
<1>17. CASE RecordEnvironment
  <2>1. network' \in Keys /\ changes' \in Nat
    BY <1>17 DEF RecordEnvironment
  <2>2. calm' \in BOOLEAN
    BY <1>17 DEF RecordEnvironment, Disturbed
  <2>3. UNCHANGED <<link, cache, ages, lock, refresh, call, asks>>
    BY <1>17 DEF RecordEnvironment
  <2> QED
    BY <2>1, <2>2, <2>3
<1>15. CASE ClearCache
  <2>1. cache' \in [Keys -> CacheEntry] /\ ages' \in Nat
    BY <1>k, <1>s, <1>15 DEF ClearCache, Empty, CacheEntry
  <2>2. calm' \in BOOLEAN
    BY <1>15 DEF ClearCache, Disturbed
  <2> QED
    BY <1>15, <2>1, <2>2 DEF ClearCache
<1>16. CASE UNCHANGED vars
  BY <1>16 DEF vars
<1> QED
  BY <1>1, <1>2, <1>3, <1>4, <1>5, <1>6, <1>7, <1>8, <1>9, <1>10, <1>11, <1>12, <1>13, <1>14,
     <1>15, <1>16, <1>17 DEF Next, Step

-----------------------------------------------------------------------------
(* What the steps of a call do to its fields. *)

Others(c) == \A d \in Calls : d # c => call'[d] = call[d]

CallEnds(c) == call'[c].pc = "done" /\ ~call'[c].holds

(* operation.release() *)
Leaves(c) ==
  \/ call[c].holds /\ call'[c].holds /\ call'[c].pc = "release" /\ call'[c].key = call[c].key
  \/ ~call[c].holds /\ CallEnds(c)

(* The call goes on to p with its key and its lock. *)
GoesOn(c, p) ==
  /\ call'[c].pc = p /\ call'[c].holds = call[c].holds
  /\ call'[c].key = call[c].key /\ call'[c].born = call[c].born

(* The call goes on to the cache with a new key. *)
Loads(c, holds) ==
  /\ call'[c].pc = "load" /\ call'[c].holds = holds
  /\ call'[c].key = network /\ call'[c].born = changes

(* A call begins at Exchange or at the look into the cache. *)
LEMMA StartShape ==
  ASSUME TypeOK, NEW c \in Calls, Start(c)
  PROVE  Others(c) /\ (GoesOn(c, "begin") \/ GoesOn(c, "peek"))
<1> DEFINE b(async) == [call[c] EXCEPT !.pc = "begin", !.async = async]
           p == [call[c] EXCEPT !.pc = "peek"]
           Like(r, place) == /\ r \in Operation /\ r.pc = place /\ r.holds = call[c].holds
                             /\ r.key = call[c].key /\ r.born = call[c].born
<1>1. Like(p, "peek") /\ \A async \in BOOLEAN : Like(b(async), "begin")
  BY DEF TypeOK, Operation
<1>2. Moves(c, p) \/ \E async \in BOOLEAN : Moves(c, b(async))
  BY DEF Start
<1> HIDE DEF b, p
<1> QED
  BY <1>1, <1>2, MovesOne DEF Others, GoesOn

(* questionCache serves what is cached and leaves the rest to Exchange. *)
LEMMA PeekShape ==
  ASSUME TypeOK, NEW c \in Calls, Peek(c)
  PROVE  /\ Others(c)
         /\ \/ cache[network].state = "none" /\ GoesOn(c, "begin") /\ UNCHANGED <<refresh, asks>>
            \/ cache[network].state # "none" /\ CallEnds(c) /\ Serve(network, changes)
<1>1. CASE cache[network].state = "none"
  <2>1. [call[c] EXCEPT !.pc = "begin"] \in Operation
    BY DEF TypeOK, Operation
  <2> QED
    BY <1>1, <2>1, MovesOne DEF Peek, EnvironmentHash, Others, GoesOn, TypeOK, Operation
<1>2. CASE cache[network].state # "none"
  <2>1. Returned \in Operation /\ Returned.pc = "done" /\ ~Returned.holds
    BY DEF Returned, Fresh, Operation, Keys, Sources
  <2> QED
    BY <1>2, <2>1, MovesOne DEF Peek, EnvironmentHash, Others, CallEnds
<1> QED
  BY <1>1, <1>2

(* LoadOrStore: the lock is taken, or the call waits for its owner. *)
LEMMA BeginShape ==
  ASSUME TypeOK, NEW c \in Calls, Begin(c)
  PROVE  /\ Others(c)
         /\ \/ lock[network] = NoCall /\ Loads(c, TRUE) /\ lock' = [lock EXCEPT ![network] = c]
            \/ lock[network] # NoCall /\ GoesOn(c, "begin") /\ lock' = lock
            \/ /\ lock[network] # NoCall /\ lock' = lock
               /\ call'[c].pc = "waiting" /\ call'[c].on = lock[network]
               /\ call'[c].holds = call[c].holds
<1>1. CASE lock[network] = NoCall
  <2> DEFINE r == [Keyed(Fresh, "load") EXCEPT !.holds = TRUE]
  <2>1. /\ r \in Operation /\ r.pc = "load" /\ r.holds = TRUE
        /\ r.key = network /\ r.born = changes
    BY DEF TypeOK, Keyed, Fresh, EnvironmentHash, Operation, Keys, Sources
  <2>2. Moves(c, r) /\ lock' = [lock EXCEPT ![network] = c]
    BY <1>1 DEF Begin, EnvironmentHash
  <2> HIDE DEF r
  <2> QED
    BY <1>1, <2>1, <2>2, MovesOne DEF Others, Loads
<1>2. CASE lock[network] # NoCall /\ call[c].async
  <2> DEFINE r == [call[c] EXCEPT !.async = FALSE]
  <2>1. /\ r \in Operation /\ r.pc = call[c].pc /\ r.holds = call[c].holds
        /\ r.key = call[c].key /\ r.born = call[c].born
    BY DEF TypeOK, Operation
  <2>2. Moves(c, r) /\ lock' = lock /\ call[c].pc = "begin"
    BY <1>2 DEF Begin, EnvironmentHash, At
  <2> HIDE DEF r
  <2> QED
    BY <1>2, <2>1, <2>2, MovesOne DEF Others, GoesOn
<1>3. CASE lock[network] # NoCall /\ ~call[c].async
  <2> DEFINE r == [Keyed(call[c], "waiting") EXCEPT !.on = lock[network]]
  <2>1. lock[network] \in Calls \cup {NoCall} /\ call[c] \in Operation
    BY DEF TypeOK
  <2>2. r \in Operation /\ r.pc = "waiting" /\ r.on = lock[network] /\ r.holds = call[c].holds
    BY <2>1 DEF TypeOK, Keyed, EnvironmentHash, Operation
  <2>3. Moves(c, r) /\ lock' = lock
    BY <1>3 DEF Begin, EnvironmentHash
  <2> HIDE DEF r
  <2> QED
    BY <1>3, <2>2, <2>3, MovesOne DEF Others
<1> QED
  BY <1>1, <1>2, <1>3

(* The call that waited goes on with a new key and without the lock. *)
LEMMA WaitedShape ==
  ASSUME TypeOK, NEW c \in Calls, Waited(c)
  PROVE  /\ Others(c)
         /\ \/ Loads(c, FALSE) /\ ~call[call[c].on].holds
            \/ CallEnds(c) /\ c = Nested /\ ~At(Outer, "asking")
<1>1. /\ Keyed(Fresh, "load") \in Operation /\ Keyed(Fresh, "load").pc = "load"
      /\ Keyed(Fresh, "load").holds = FALSE /\ Keyed(Fresh, "load").key = network
      /\ Keyed(Fresh, "load").born = changes
  BY DEF TypeOK, Keyed, Fresh, EnvironmentHash, Operation, Keys, Sources
<1>2. Returned \in Operation /\ Returned.pc = "done" /\ ~Returned.holds
  BY DEF Returned, Fresh, Operation, Keys, Sources
<1> QED
  BY <1>1, <1>2, MovesOne DEF Waited, Others, Loads, CallEnds

(* A call that is over releases the lock if it has it. *)
LEMMA LeaveShape ==
  ASSUME TypeOK, NEW c \in Calls, Moves(c, Leave(call[c]))
  PROVE  Others(c) /\ Leaves(c)
<1>1. call[c] \in Operation
  BY DEF TypeOK
<1> QED
  BY <1>1, LeaveFields, MovesOne DEF Others, Leaves, CallEnds

(* The response comes from the cache, or the query is sent. *)
LEMMA LoadShape ==
  ASSUME TypeOK, NEW c \in Calls, Load(c)
  PROVE  /\ Others(c)
         /\ \/ /\ cache[call[c].key].state # "none" /\ Leaves(c)
               /\ Serve(call[c].key, call[c].born)
            \/ /\ cache[call[c].key].state = "none" /\ c = Nested /\ Leaves(c)
               /\ UNCHANGED <<refresh, asks>>
            \/ /\ cache[call[c].key].state = "none" /\ c # Nested
               /\ GoesOn(c, "asking") /\ call'[c].from = Source
               /\ Asks /\ UNCHANGED refresh
<1> DEFINE r == [call[c] EXCEPT !.pc = "asking", !.from = Source]
<1>1. /\ r \in Operation /\ r.pc = "asking" /\ r.holds = call[c].holds /\ r.key = call[c].key
      /\ r.born = call[c].born /\ r.from = Source
  BY SourceNow DEF TypeOK, Operation
<1> HIDE DEF r
<1>2. Moves(c, r) => Others(c) /\ GoesOn(c, "asking") /\ call'[c].from = Source
  BY <1>1, MovesOne DEF Others, GoesOn
<1> QED
  BY <1>2, LeaveShape DEF Load, r

(* An answer leads to finishExchange, anything else ends the call. *)
LEMMA AnswerShape ==
  ASSUME TypeOK, NEW c \in Calls, Answer(c)
  PROVE  /\ Others(c)
         /\ \/ /\ GoesOn(c, "finish") /\ call'[c].from \in {call[c].from, Source}
               /\ UNCHANGED calm
            \/ Leaves(c) /\ calm' = FALSE
<1> DEFINE r(from) == [call[c] EXCEPT !.pc = "finish", !.from = from]
<1>1. \A from \in Sources :
        /\ r(from) \in Operation /\ r(from).pc = "finish" /\ r(from).holds = call[c].holds
        /\ r(from).key = call[c].key /\ r(from).born = call[c].born /\ r(from).from = from
  BY DEF TypeOK, Operation
<1>2. call[c].from \in Sources /\ Source \in Sources
  BY SourceNow DEF TypeOK, Operation
<1> HIDE DEF r
<1>3. \A from \in Sources : Moves(c, r(from)) =>
         Others(c) /\ GoesOn(c, "finish") /\ call'[c].from = from
  BY <1>1, MovesOne DEF Others, GoesOn
<1>4. \/ \E from \in {call[c].from, Source} : Moves(c, r(from)) /\ UNCHANGED calm
      \/ Moves(c, Leave(call[c])) /\ calm' = FALSE
  BY DEF Answer, r, Disturbed
<1> QED
  BY <1>2, <1>3, <1>4, LeaveShape

(* The lock is deleted before its channel is closed. *)
LEMMA DeleteShape ==
  ASSUME TypeOK, NEW c \in Calls, Delete(c)
  PROVE  Others(c) /\ GoesOn(c, "close")
<1>1. [call[c] EXCEPT !.pc = "close"] \in Operation
  BY DEF TypeOK, Operation
<1> QED
  BY <1>1, MovesOne DEF Delete, Others, GoesOn, TypeOK, Operation

(* A call that returns has no lock. *)
LEMMA ReturnShape ==
  ASSUME TypeOK, NEW c \in Calls, Moves(c, Returned)
  PROVE  Others(c) /\ CallEnds(c)
<1>1. Returned \in Operation /\ Returned.pc = "done" /\ ~Returned.holds
  BY DEF Returned, Fresh, Operation, Keys, Sources
<1> QED
  BY <1>1, MovesOne DEF Others, CallEnds

-----------------------------------------------------------------------------
(* cacheLock.LoadOrStore and Delete keep one owner for each key. *)
LEMMA NextLockOwner == TypeOK /\ LockOwner /\ [Next]_vars => LockOwner'
<1> SUFFICES ASSUME TypeOK, LockOwner, [Next]_vars PROVE LockOwner'
  OBVIOUS
<1> USE CallsAssumption DEF LockOwner, Inside, Others, CallEnds, Leaves, GoesOn, Loads, At
<1>0. /\ \A c \in Calls : call[c].key \in Keys /\ call[c].holds \in BOOLEAN
      /\ network \in Keys /\ \A k \in Keys : lock[k] \in Calls \cup {NoCall}
  BY DEF TypeOK, Operation
<1>1. ASSUME NEW c \in Calls, Start(c) PROVE LockOwner'
  <2>1. /\ lock' = lock /\ call[c].pc = "idle" /\ Others(c)
        /\ GoesOn(c, "begin") \/ GoesOn(c, "peek")
    BY <1>1, StartShape DEF Start
  <2> QED
    BY <1>0, <2>1
<1>2. ASSUME NEW c \in Calls, Peek(c) PROVE LockOwner'
  BY <1>2, PeekShape DEF Peek
<1>3. ASSUME NEW c \in Calls, Begin(c) PROVE LockOwner'
  <2>1. ~call[c].holds
    BY <1>3 DEF Begin
  <2>2. CASE lock[network] = NoCall
    <3>1. Others(c) /\ Loads(c, TRUE) /\ lock' = [lock EXCEPT ![network] = c]
      BY <1>3, <2>2, BeginShape
    <3> QED
      BY <1>0, <2>1, <2>2, <3>1 DEF TypeOK
  <2>3. CASE lock[network] # NoCall
    <3>1. /\ lock' = lock /\ Others(c)
          /\ \/ GoesOn(c, "begin")
             \/ /\ call'[c].pc = "waiting" /\ call'[c].on = lock[network]
                /\ call'[c].holds = call[c].holds
      BY <1>3, <2>3, BeginShape
    <3> QED
      BY <1>0, <2>1, <2>3, <3>1
  <2> QED
    BY <2>2, <2>3
<1>4. ASSUME NEW c \in Calls, Waited(c) PROVE LockOwner'
  <2>1. lock' = lock /\ call[c].pc = "waiting" /\ Others(c) /\ (Loads(c, FALSE) \/ CallEnds(c))
    BY <1>4, WaitedShape DEF Waited
  <2> QED
    BY <1>0, <2>1
<1>5. ASSUME NEW c \in Calls, Load(c) PROVE LockOwner'
  <2>1. lock' = lock /\ call[c].pc = "load" /\ Others(c) /\ (GoesOn(c, "asking") \/ Leaves(c))
    BY <1>5, LoadShape DEF Load
  <2> QED
    BY <1>0, <2>1
<1>6. ASSUME NEW c \in Calls, Finish(c) PROVE LockOwner'
  BY <1>6, LeaveShape DEF Finish
<1>7. ASSUME NEW c \in Calls, Delete(c) PROVE LockOwner'
  <2>1. Others(c) /\ GoesOn(c, "close") /\ lock' = [lock EXCEPT ![call[c].key] = NoCall]
    BY <1>7, DeleteShape DEF Delete
  <2> QED
    BY <1>0, <1>7, <2>1 DEF Delete, TypeOK
<1>8. ASSUME NEW c \in Calls, CloseCond(c) PROVE LockOwner'
  BY <1>8, ReturnShape DEF CloseCond
<1>9. ASSUME NEW c \in Calls, Answer(c) PROVE LockOwner'
  <2>1. lock' = lock /\ call[c].pc = "asking" /\ Others(c) /\ (GoesOn(c, "finish") \/ Leaves(c))
    BY <1>9, AnswerShape DEF Answer
  <2> QED
    BY <1>0, <2>1
<1>10. ASSUME NEW c \in Calls, Timeout(c) PROVE LockOwner'
  BY <1>10, LeaveShape DEF Timeout
<1>11. ASSUME NEW c \in Calls, GiveUp(c) PROVE LockOwner'
  BY <1>11, LeaveShape, ReturnShape DEF GiveUp
<1>12. CASE UNCHANGED <<lock, call>>
  BY <1>12
<1> QED
  BY <1>1, <1>2, <1>3, <1>4, <1>5, <1>6, <1>7, <1>8, <1>9, <1>10, <1>11, <1>12
  DEF Next, Step, RefreshAnswer, Age, ChangeNetwork, RecordEnvironment, ClearCache, vars

-----------------------------------------------------------------------------
(* The types of the fields that AnswersTraced speaks of. *)
LEMMA TraceTypes ==
  ASSUME TypeOK
  PROVE  /\ network \in Keys /\ changes \in Nat
         /\ \A c \in Calls : call[c].key \in Keys /\ call[c].born \in Nat
         /\ \A c \in Calls : call[c].from \in Sources
         /\ \A k \in Keys : refresh[k].born \in Nat /\ refresh[k].from \in Sources
  BY DEF TypeOK, Operation, Refresh

(* A refresh begins with the key of the call that found the response stale.  *)
LEMMA ServeTraced ==
  ASSUME TypeOK, AnswersTraced, NEW k \in Keys, NEW born \in Nat, Located(k, born),
         Serve(k, born), UNCHANGED <<network, changes>>
  PROVE  \A q \in Keys :
           refresh'[q].state = "asking" => Traced(q, refresh'[q].born, refresh'[q].from)
<1>1. CASE UNCHANGED refresh
  BY <1>1 DEF AnswersTraced
<1>2. CASE refresh' = [refresh EXCEPT ![k] = [state |-> "asking", from |-> Source, born |-> born]]
  <2>1. Traced(k, born, Source)
    BY SourceNow, TraceTypes DEF Located, Traced
  <2> QED
    BY <1>2, <2>1 DEF AnswersTraced, TypeOK
<1> QED
  BY <1>1, <1>2 DEF Serve, StartRefresh

(* What finishExchange stores for a network comes from it, or the record was *)
(* behind, or it changed twice.                                              *)
LEMMA StoredHome ==
  ASSUME TypeOK, NoForeignAnswer, NEW key \in Keys, NEW born \in Nat, NEW from \in Sources,
         Storable(key), Traced(key, born, from), cache' = Stored(from, born)
  PROVE  NoForeignAnswer'
<1>1. /\ cache'[network].from = from /\ cache'[network].changes = changes - born
      /\ \A k \in Keys : k # network => cache'[k] = cache[k]
  BY TraceTypes DEF TypeOK, Stored, EnvironmentHash
<1>2. network # 0 => from \in {network, 0, Behind} \/ changes - born >= 2
  BY TraceTypes, CallsAssumption DEF Traced, Storable, EnvironmentHash
<1> QED
  BY <1>1, <1>2, CallsAssumption DEF NoForeignAnswer, Keys

(* Another environment is recorded: what was traced stays traced. *)
LEMMA ChangeTraced ==
  ASSUME TypeOK, RecordEnvironment, NEW key \in Keys, NEW born \in Nat
  PROVE  /\ Located(key, born) => Located(key, born)'
         /\ \A from \in Sources : Traced(key, born, from) => Traced(key, born, from)'
  BY TraceTypes DEF RecordEnvironment, Located, Traced

(* Keys, answers and the cache agree on where an answer comes from. *)
LEMMA NextTraced ==
  TypeOK /\ AnswersTraced /\ NoForeignAnswer /\ [Next]_vars =>
    AnswersTraced' /\ NoForeignAnswer'
<1> SUFFICES ASSUME TypeOK, AnswersTraced, NoForeignAnswer, [Next]_vars
             PROVE  AnswersTraced' /\ NoForeignAnswer'
  OBVIOUS
<1> USE CallsAssumption DEF Others, CallEnds, Leaves, GoesOn, Loads, At
<1> DEFINE Stays == UNCHANGED <<network, changes, cache>>
<1>0. Stays => NoForeignAnswer'
  BY DEF NoForeignAnswer
<1>1. ASSUME NEW c \in Calls, Start(c) PROVE AnswersTraced' /\ NoForeignAnswer'
  <2>1. Stays /\ UNCHANGED refresh
    BY <1>1 DEF Start
  <2> QED
    BY <1>0, <1>1, <2>1, StartShape DEF AnswersTraced, Located, Traced
<1>2. ASSUME NEW c \in Calls, Peek(c) PROVE AnswersTraced' /\ NoForeignAnswer'
  <2>1. Stays
    BY <1>2 DEF Peek
  <2>2. \A k \in Keys :
          refresh'[k].state = "asking" => Traced(k, refresh'[k].born, refresh'[k].from)
    <3>1. Located(network, changes)
      BY TraceTypes DEF Located
    <3>2. UNCHANGED refresh \/ Serve(network, changes)
      BY <1>2, PeekShape
    <3> QED
      BY <2>1, <3>1, <3>2, ServeTraced, TraceTypes DEF AnswersTraced
  <2> QED
    BY <1>0, <1>2, <2>1, <2>2, PeekShape DEF AnswersTraced, Located, Traced
<1>3. ASSUME NEW c \in Calls, Begin(c) PROVE AnswersTraced' /\ NoForeignAnswer'
  <2>1. Stays /\ UNCHANGED refresh
    BY <1>3 DEF Begin
  <2>2. /\ Others(c)
        /\ Loads(c, TRUE) \/ call'[c].pc \in {"begin", "waiting"}
    BY <1>3, BeginShape
  <2> QED
    BY <1>0, <2>1, <2>2, TraceTypes DEF AnswersTraced, Located, Traced
<1>4. ASSUME NEW c \in Calls, Waited(c) PROVE AnswersTraced' /\ NoForeignAnswer'
  <2>1. Stays /\ UNCHANGED refresh
    BY <1>4 DEF Waited
  <2>2. Others(c) /\ (Loads(c, FALSE) \/ CallEnds(c))
    BY <1>4, WaitedShape
  <2> QED
    BY <1>0, <2>1, <2>2, TraceTypes DEF AnswersTraced, Located, Traced
<1>5. ASSUME NEW c \in Calls, Load(c) PROVE AnswersTraced' /\ NoForeignAnswer'
  <2>1. Stays /\ call[c].pc = "load"
    BY <1>5 DEF Load
  <2>2. Located(call[c].key, call[c].born)
    BY <2>1 DEF AnswersTraced
  <2>3. \A k \in Keys :
          refresh'[k].state = "asking" => Traced(k, refresh'[k].born, refresh'[k].from)
    <3>1. UNCHANGED refresh \/ Serve(call[c].key, call[c].born)
      BY <1>5, LoadShape
    <3> QED
      BY <2>1, <2>2, <3>1, ServeTraced, TraceTypes DEF AnswersTraced
  <2>4. /\ Others(c)
        /\ Leaves(c) \/ (GoesOn(c, "asking") /\ call'[c].from = Source)
    BY <1>5, LoadShape
  <2>5. call'[c].pc = "asking" => Traced(call'[c].key, call'[c].born, call'[c].from)
    BY <2>2, <2>4, SourceNow, TraceTypes DEF Located, Traced
  <2> QED
    BY <1>0, <2>1, <2>3, <2>4, <2>5 DEF AnswersTraced, Located, Traced
<1>6. ASSUME NEW c \in Calls, Finish(c) PROVE AnswersTraced' /\ NoForeignAnswer'
  <2>1. /\ UNCHANGED <<network, changes, refresh>> /\ call[c].pc = "finish"
        /\ Others(c) /\ Leaves(c)
    BY <1>6, LeaveShape DEF Finish
  <2>2. AnswersTraced'
    BY <2>1 DEF AnswersTraced, Located, Traced
  <2>3. NoForeignAnswer'
    <3>1. Traced(call[c].key, call[c].born, call[c].from)
      BY <2>1 DEF AnswersTraced
    <3>2. \/ cache' = cache
          \/ Storable(call[c].key) /\ cache' = Stored(call[c].from, call[c].born)
      BY <1>6 DEF Finish
    <3> QED
      BY <3>1, <3>2, StoredHome, TraceTypes DEF NoForeignAnswer
  <2> QED
    BY <2>2, <2>3
<1>7. ASSUME NEW c \in Calls, Delete(c) PROVE AnswersTraced' /\ NoForeignAnswer'
  <2>1. Stays /\ UNCHANGED refresh
    BY <1>7 DEF Delete
  <2> QED
    BY <1>0, <1>7, <2>1, DeleteShape DEF AnswersTraced, Located, Traced
<1>8. ASSUME NEW c \in Calls, CloseCond(c) PROVE AnswersTraced' /\ NoForeignAnswer'
  <2>1. Stays /\ UNCHANGED refresh /\ Others(c) /\ CallEnds(c)
    BY <1>8, ReturnShape DEF CloseCond
  <2> QED
    BY <1>0, <2>1 DEF AnswersTraced, Located, Traced
<1>9. ASSUME NEW c \in Calls, Answer(c) PROVE AnswersTraced' /\ NoForeignAnswer'
  <2>1. Stays /\ UNCHANGED refresh /\ call[c].pc = "asking"
    BY <1>9 DEF Answer
  <2>2. /\ Others(c)
        /\ \/ Leaves(c)
           \/ GoesOn(c, "finish") /\ call'[c].from \in {call[c].from, Source}
    BY <1>9, AnswerShape
  <2>3. Traced(call[c].key, call[c].born, call[c].from)
    BY <2>1 DEF AnswersTraced
  <2>4. call'[c].pc = "finish" => Traced(call'[c].key, call'[c].born, call'[c].from)
    BY <2>2, <2>3, SourceNow, TraceTypes DEF Traced
  <2> QED
    BY <1>0, <2>1, <2>2, <2>4 DEF AnswersTraced, Located, Traced
<1>10. ASSUME NEW c \in Calls, Timeout(c) PROVE AnswersTraced' /\ NoForeignAnswer'
  <2>1. Stays /\ UNCHANGED refresh /\ Others(c) /\ Leaves(c)
    BY <1>10, LeaveShape DEF Timeout
  <2> QED
    BY <1>0, <2>1 DEF AnswersTraced, Located, Traced
<1>11. ASSUME NEW c \in Calls, GiveUp(c) PROVE AnswersTraced' /\ NoForeignAnswer'
  <2>1. Stays /\ UNCHANGED refresh /\ Others(c) /\ (CallEnds(c) \/ Leaves(c))
    BY <1>11, LeaveShape, ReturnShape DEF GiveUp
  <2> QED
    BY <1>0, <2>1 DEF AnswersTraced, Located, Traced
<1>12. ASSUME NEW k \in Keys, RefreshAnswer(k) PROVE AnswersTraced' /\ NoForeignAnswer'
  <2>1. UNCHANGED <<network, changes, call>> /\ refresh' = [refresh EXCEPT ![k] = Resting]
    BY <1>12 DEF RefreshAnswer
  <2>2. refresh'[k].state = "idle" /\ \A q \in Keys : q # k => refresh'[q] = refresh[q]
    BY <2>1 DEF TypeOK, Resting
  <2>3. AnswersTraced'
    BY <2>1, <2>2 DEF AnswersTraced, Located, Traced
  <2>4. NoForeignAnswer'
    <3>1. Traced(k, refresh[k].born, refresh[k].from)
      BY <1>12 DEF RefreshAnswer, AnswersTraced
    <3>2. Traced(k, refresh[k].born, Source)
      BY <3>1, SourceNow, TraceTypes DEF Traced
    <3>3. \/ cache' = cache
          \/ \E from \in {refresh[k].from, Source} :
               Storable(k) /\ cache' = Stored(from, refresh[k].born)
      BY <1>12 DEF RefreshAnswer
    <3> QED
      BY <3>1, <3>2, <3>3, StoredHome, SourceNow, TraceTypes DEF NoForeignAnswer
  <2> QED
    BY <2>3, <2>4
<1>13. ASSUME NEW k \in Keys, Age(k) PROVE AnswersTraced' /\ NoForeignAnswer'
  <2>1. UNCHANGED <<network, changes, call, refresh>>
    BY <1>13 DEF Age
  <2>2. \A q \in Keys :
          \/ cache'[q].state = "none"
          \/ cache'[q].state # "none" /\ cache[q].state # "none"
               /\ cache'[q].from = cache[q].from /\ cache'[q].changes = cache[q].changes
    BY <1>13 DEF Age, Empty, TypeOK, CacheEntry
  <2> QED
    BY <2>1, <2>2 DEF AnswersTraced, Located, Traced, NoForeignAnswer, Keys
<1>14. CASE ChangeNetwork
  <2>1. Stays /\ UNCHANGED <<call, refresh>>
    BY <1>14 DEF ChangeNetwork
  <2> QED
    BY <1>0, <2>1 DEF AnswersTraced, Located, Traced
<1>17. CASE RecordEnvironment
  <2>1. UNCHANGED <<cache, call, refresh>>
    BY <1>17 DEF RecordEnvironment
  <2> QED
    BY <1>17, <2>1, ChangeTraced, TraceTypes DEF AnswersTraced, NoForeignAnswer
<1>15. CASE ClearCache
  <2>1. UNCHANGED <<network, changes, call, refresh>>
    BY <1>15 DEF ClearCache
  <2>2. \A q \in Keys : cache'[q].state = "none"
    BY <1>15 DEF ClearCache, Empty
  <2> QED
    BY <2>1, <2>2 DEF AnswersTraced, Located, Traced, NoForeignAnswer, Keys
<1>16. CASE UNCHANGED vars
  BY <1>16 DEF vars, AnswersTraced, Located, Traced, NoForeignAnswer
<1> QED
  BY <1>1, <1>2, <1>3, <1>4, <1>5, <1>6, <1>7, <1>8, <1>9, <1>10, <1>11, <1>12, <1>13, <1>14,
     <1>15, <1>16, <1>17 DEF Next, Step

-----------------------------------------------------------------------------
Calm == CalmKeys /\ CalmQuery /\ CalmNested /\ SingleFlight

(* Once disturbed, a client stays so and no query is counted any more. *)
LEMMA DisturbedStays ==
  ASSUME TypeOK, Calm, [Next]_vars, ~calm \/ (calm' = FALSE /\ UNCHANGED asks)
  PROVE  Calm'
<1>1. ~calm => calm' = FALSE /\ UNCHANGED asks
  BY DEF TypeOK, Next, Step, Start, Peek, Begin, Waited, Load, Finish, Delete, CloseCond, Answer,
         Timeout, GiveUp, RefreshAnswer, Age, ChangeNetwork, RecordEnvironment, ClearCache, Disturbed, Asks, Serve,
         StartRefresh, vars
<1>2. calm' = FALSE /\ UNCHANGED asks
  BY <1>1
<1> QED
  BY <1>2 DEF Calm, CalmKeys, CalmQuery, CalmNested, SingleFlight

(* As long as nothing is disturbed the lock lets one query through. *)
LEMMA NextCalm == TypeOK /\ LockOwner /\ Calm /\ [Next]_vars => Calm'
<1> SUFFICES ASSUME TypeOK, LockOwner, Calm, [Next]_vars PROVE Calm'
  OBVIOUS
<1>0. CASE ~calm
  BY <1>0, DisturbedStays
<1>a. CASE calm
  <2> USE CallsAssumption DEF Others, CallEnds, Leaves, GoesOn, Loads, At, Inside, CallAnswered
  <2>0. /\ \A c \in Calls : call[c].key \in Keys /\ call[c].holds \in BOOLEAN
        /\ network \in Keys /\ asks \in Nat /\ \A k \in Keys : lock[k] \in Calls \cup {NoCall}
    BY DEF TypeOK, Operation
  <2> DEFINE Stays == UNCHANGED <<network, cache, calm>>
             Quiet == Stays /\ UNCHANGED <<refresh, asks>>
  <2>1. ASSUME NEW c \in Calls, Start(c) PROVE Calm'
    <3>1. /\ Quiet /\ call[c].pc = "idle" /\ Others(c)
          /\ GoesOn(c, "begin") \/ GoesOn(c, "peek")
          /\ c = Nested => call[Outer].pc = "asking"
      BY <2>1, StartShape DEF Start
    <3> QED
      BY <1>a, <2>0, <3>1 DEF Calm, CalmKeys, CalmQuery, CalmNested, SingleFlight, LockOwner
  <2>2. ASSUME NEW c \in Calls, Peek(c) PROVE Calm'
    <3>1. Stays /\ call[c].pc = "peek" /\ Others(c) /\ ((CallEnds(c) /\ CallAnswered) \/ GoesOn(c, "begin"))
      BY <2>2, PeekShape DEF Peek
    <3>2. UNCHANGED <<refresh, asks>>
      BY <1>a, <2>0, <2>2, PeekShape DEF Serve, Calm, CalmKeys
    <3> QED
      BY <1>a, <2>0, <3>1, <3>2 DEF Calm, CalmKeys, CalmQuery, CalmNested, SingleFlight, LockOwner
  <2>3. ASSUME NEW c \in Calls, Begin(c) PROVE Calm'
    <3>1. Quiet /\ call[c].pc = "begin" /\ ~call[c].holds
      BY <2>3 DEF Begin, LockOwner
    <3>2. CASE lock[network] = NoCall
      <4>1. Others(c) /\ Loads(c, TRUE)
        BY <2>3, <3>2, BeginShape
      <4>2. c # Nested
        BY <1>a, <2>0, <3>1, <3>2 DEF Calm, CalmKeys, CalmQuery, CalmNested, LockOwner
      <4> QED
        BY <1>a, <2>0, <3>1, <4>1, <4>2
        DEF Calm, CalmKeys, CalmQuery, CalmNested, SingleFlight, LockOwner
    <3>3. CASE lock[network] # NoCall
      <4>1. /\ Others(c)
            /\ \/ GoesOn(c, "begin")
               \/ /\ call'[c].pc = "waiting" /\ call'[c].on = lock[network]
                  /\ call'[c].holds = call[c].holds
        BY <2>3, <3>3, BeginShape
      <4>2. lock[network] \in Calls /\ call[lock[network]].holds
        BY <2>0, <3>3 DEF LockOwner
      <4> QED
        BY <1>a, <2>0, <3>1, <4>1, <4>2
        DEF Calm, CalmKeys, CalmQuery, CalmNested, SingleFlight, LockOwner
    <3> QED
      BY <3>2, <3>3
  <2>4. ASSUME NEW c \in Calls, Waited(c) PROVE Calm'
    <3>1. Quiet /\ call[c].pc = "waiting" /\ Others(c)
      BY <2>4, WaitedShape DEF Waited
    <3>2. Loads(c, FALSE) /\ CallAnswered /\ c # Nested
      BY <1>a, <2>4, <3>1, WaitedShape DEF Calm, CalmQuery, CalmNested
    <3> QED
      BY <1>a, <2>0, <3>1, <3>2 DEF Calm, CalmKeys, CalmQuery, CalmNested, SingleFlight, LockOwner
  <2>5. ASSUME NEW c \in Calls, Load(c) PROVE Calm'
    <3>1. Stays /\ call[c].pc = "load" /\ Others(c) /\ call[c].key = network /\ c # Nested
      BY <1>a, <2>5, LoadShape DEF Load, Calm, CalmKeys, CalmNested
    <3>2. CASE CallAnswered
      <4>1. Leaves(c) /\ UNCHANGED <<refresh, asks>>
        BY <1>a, <2>0, <2>5, <3>1, <3>2, LoadShape DEF Serve, Calm, CalmKeys
      <4> QED
        BY <1>a, <2>0, <3>1, <3>2, <4>1
        DEF Calm, CalmKeys, CalmQuery, CalmNested, SingleFlight, LockOwner
    <3>3. CASE ~CallAnswered
      <4>1. GoesOn(c, "asking") /\ asks' = asks + 1 /\ UNCHANGED refresh
        BY <1>a, <2>5, <3>1, <3>3, LoadShape DEF Asks
      <4>2. call[c].holds /\ lock[network] = c
        BY <1>a, <2>0, <3>1, <3>3 DEF Calm, CalmQuery, LockOwner
      <4>3. \A d \in Calls : call[d].pc \notin {"asking", "finish"}
        BY <1>a, <2>0, <3>1, <4>2 DEF Calm, CalmKeys, CalmQuery, LockOwner
      <4>4. asks = 0
        BY <1>a, <2>0, <3>3, <4>3 DEF Calm, CalmQuery, SingleFlight
      <4>5. CalmKeys'
        BY <1>a, <2>0, <3>1, <4>1 DEF Calm, CalmKeys
      <4>6. CalmQuery'
        <5>1. ~CallAnswered' /\ call'[c].pc = "asking" /\ call'[c].holds
          BY <3>1, <3>3, <4>1, <4>2
        <5>2. \A d \in Calls : call'[d].holds = call[d].holds
          BY <3>1, <4>1
        <5>3. ASSUME NEW d \in Calls, d # c
              PROVE  /\ call'[d].pc \notin {"asking", "finish", "release", "close"}
                     /\ call'[d].pc = "load" => call'[d].holds
                     /\ call'[d].pc = "waiting" => call'[call'[d].on].holds
          BY <1>a, <3>1, <3>3, <4>3, <5>2, <5>3 DEF Calm, CalmQuery, LockOwner
        <5> QED
          BY <5>1, <5>3 DEF CalmQuery
      <4>7. CalmNested'
        BY <1>a, <3>1, <4>1, <4>3 DEF Calm, CalmNested
      <4>8. SingleFlight'
        BY <4>1, <4>4 DEF SingleFlight
      <4> QED
        BY <4>5, <4>6, <4>7, <4>8 DEF Calm
    <3> QED
      BY <3>2, <3>3
  <2>6. ASSUME NEW c \in Calls, Finish(c) PROVE Calm'
    <3>1. UNCHANGED <<network, calm, refresh, asks>> /\ call[c].pc = "finish" /\ Others(c) /\ Leaves(c)
      BY <2>6, LeaveShape DEF Finish
    <3>2. call[c].holds /\ call[c].key = network /\ c # Nested
      BY <1>a, <3>1 DEF Calm, CalmKeys, CalmQuery, CalmNested
    <3>3. cache' = Stored(call[c].from, call[c].born)
      BY <2>6, <3>2 DEF Finish, Storable, EnvironmentHash
    <3>4. cache'[network].state = "fresh" /\ \A k \in Keys : cache'[k].state # "stale"
      BY <1>a, <2>0, <3>3 DEF Stored, EnvironmentHash, TypeOK, Calm, CalmKeys
    <3>5. \A d \in Calls : d # c => call[d].pc \notin {"asking", "finish"}
      BY <1>a, <2>0, <3>1, <3>2 DEF Calm, CalmKeys, CalmQuery, LockOwner
    <3>6. call[Nested].pc \in {"idle", "done"}
      BY <1>a, <3>1, <3>5 DEF Calm, CalmNested
    <3> QED
      BY <1>a, <2>0, <3>1, <3>2, <3>4, <3>5, <3>6
      DEF Calm, CalmKeys, CalmQuery, CalmNested, SingleFlight, LockOwner
  <2>7. ASSUME NEW c \in Calls, Delete(c) PROVE Calm'
    <3>1. Quiet /\ call[c].pc = "release" /\ Others(c) /\ GoesOn(c, "close")
      BY <2>7, DeleteShape DEF Delete
    <3> QED
      BY <1>a, <2>0, <3>1 DEF Calm, CalmKeys, CalmQuery, CalmNested, SingleFlight, LockOwner
  <2>8. ASSUME NEW c \in Calls, CloseCond(c) PROVE Calm'
    <3>1. Quiet /\ call[c].pc = "close" /\ Others(c) /\ CallEnds(c)
      BY <2>8, ReturnShape DEF CloseCond
    <3> QED
      BY <1>a, <2>0, <3>1 DEF Calm, CalmKeys, CalmQuery, CalmNested, SingleFlight, LockOwner
  <2>9. ASSUME NEW c \in Calls, Answer(c) PROVE Calm'
    <3>1. CASE calm' = FALSE
      BY <2>9, <3>1, DisturbedStays DEF Answer
    <3>2. CASE calm' # FALSE
      <4>1. /\ Quiet /\ call[c].pc = "asking" /\ Others(c) /\ GoesOn(c, "finish")
            /\ c = Outer => call[Nested].pc \in {"idle", "done"}
        BY <2>9, <3>2, AnswerShape DEF Answer
      <4> QED
        BY <1>a, <2>0, <4>1 DEF Calm, CalmKeys, CalmQuery, CalmNested, SingleFlight, LockOwner
    <3> QED
      BY <3>1, <3>2
  <2>10. ASSUME NEW k \in Keys, RefreshAnswer(k) PROVE Calm'
    BY <1>a, <2>10 DEF RefreshAnswer, Calm, CalmKeys
  <2>11. CASE \/ \E c \in Calls : Timeout(c) \/ GiveUp(c)
              \/ \E k \in Keys : Age(k)
              \/ RecordEnvironment \/ ClearCache
    BY <2>11, DisturbedStays DEF Timeout, GiveUp, Age, RecordEnvironment, ClearCache, Disturbed
  <2>12. CASE ChangeNetwork \/ UNCHANGED vars
    BY <2>12 DEF ChangeNetwork, vars, Calm, CalmKeys, CalmQuery, CalmNested, SingleFlight
  <2> QED
    BY <2>1, <2>2, <2>3, <2>4, <2>5, <2>6, <2>7, <2>8, <2>9, <2>10, <2>11, <2>12 DEF Next, Step
<1> QED
  BY <1>0, <1>a

-----------------------------------------------------------------------------
(* The invariant holds in every reachable state. *)
THEOREM Invariance == Spec => []IInv
<1>1. IInv /\ [Next]_vars => IInv'
  BY NextTypeOK, NextLockOwner, NextTraced, NextCalm DEF IInv, Calm
<1> HIDE DEF IInv
<1> QED
  BY InitIInv, <1>1, PTL DEF Spec

(* Type correctness. *)
THEOREM TypeCorrect == Spec => []TypeOK
<1>1. IInv => TypeOK
  BY DEF IInv
<1> HIDE DEF IInv, TypeOK
<1> QED
  BY Invariance, <1>1, PTL

(* cacheLock does what it is for: however many calls are made at once, one   *)
(* query is sent as long as none fails, nothing ages and no other            *)
(* environment is recorded.                                                  *)
THEOREM OneQuery == Spec => []SingleFlight
<1>1. IInv => SingleFlight
  BY DEF IInv
<1> HIDE DEF IInv, SingleFlight
<1> QED
  BY Invariance, <1>1, PTL

(* finishCacheKey keeps what another network answered out of the cache,      *)
(* unless the record was behind the network, changed and changed back        *)
(* meanwhile, or did not know the network yet.                               *)
THEOREM CacheIsHome == Spec => []NoForeignAnswer
<1>1. IInv => NoForeignAnswer
  BY DEF IInv
<1> HIDE DEF IInv, NoForeignAnswer
<1> QED
  BY Invariance, <1>1, PTL

(* The lock of a key belongs to the one call that is between LoadOrStore and *)
(* Delete with it: two never hold it, and none deletes another's.            *)
THEOREM LockHasOneOwner == Spec => []LockOwner
<1>1. IInv => LockOwner
  BY DEF IInv
<1> HIDE DEF IInv, LockOwner
<1> QED
  BY Invariance, <1>1, PTL

-----------------------------------------------------------------------------
(***************************************************************************)
(* DnsRouter.  A future belongs to the rule that launched it: an evaluate  *)
(* rule, which the walk leaves behind at once, or a speculative route      *)
(* rule, which is walked again.                                            *)
(***************************************************************************)

Future ==
  [rule : Nat, tag : Tags \cup {"anon", "terminal"}, server : Servers,
   state : {"flying", "closed", "signalled"}, cancelled : BOOLEAN, out : Answers]

Stages == {"legacy", "walk", "judge", "act", "sweep", "settle", "resume", "wait", "asking", "done"}

ArmedRules == [rule : Nat, anon : Nat, future : Nat]

Sweeps == [at : Nat \ {0}, back : {"walk", "resume"}]

Suspensions ==
  [kind : {"none", "await", "drain", "pending", "commit"}, future : Nat, rule : Nat]

AskKinds == {"pending", "commit"}

WalkTypes ==
  /\ rules \in Lists
  /\ answer \in [Servers -> Answers]
  /\ pc \in Stages
  /\ idx \in Nat \ {0}
  /\ futures \in Seq(Future)
  /\ armed \in Seq(ArmedRules)
  /\ anon \in Nat
  /\ sweep \in Sweeps
  /\ susp \in Suspensions
  /\ ctxDone \in BOOLEAN

(* The rule the walk is at while it judges or performs it. *)
AtRule ==
  /\ pc \in {"judge", "act"} => idx <= Len(rules) /\ Bound(Rule)
  /\ pc = "act" => ~Rule.race

(* A future stands for an evaluate rule that the walk has passed, or for a   *)
(* route rule that sent its query ahead, which no race rule does.            *)
Passed(future, list, at) ==
  LET i == future.rule
  IN /\ i \in 1..Len(list) /\ i <= at
     /\ future.tag # "terminal" => list[i].action = "evaluate" /\ i < at
     /\ future.tag = "terminal" =>
          list[i].action = "route" /\ ~(Bound(list[i]) /\ list[i].race)

Launched == \A f \in 1..Len(futures) : Passed(futures[f], rules, idx)

Once ==
  \A f, g \in 1..Len(futures) :
    /\ futures[f].rule = futures[g].rule => f = g
    /\ futures[f].tag = "terminal" /\ futures[g].tag = "terminal" => f = g

ArmedAreRaces ==
  \A a \in 1..Len(armed) :
    LET i == armed[a].rule
    IN i \in 1..Len(rules) /\ Bound(rules[i]) /\ rules[i].race

(* Only a suspension leads to asking a server, *)
AskPlace ==
  /\ pc \in {"walk", "judge", "act"} => susp.kind \notin AskKinds
  /\ pc = "sweep" /\ sweep.back = "walk" => susp.kind \notin AskKinds
  /\ pc = "asking" => susp.kind \in AskKinds

(* and it waits for what its rule sent ahead. *)
AskOwn ==
  susp.kind \in AskKinds =>
    \A f \in 1..Len(futures) : futures[f].rule = susp.rule => susp.future = f

NothingFlies ==
  pc = "done" => \A f \in 1..Len(futures) : Resolved(f) \/ futures[f].cancelled

WalkInv ==
  /\ WalkTypes /\ AtRule /\ Launched /\ Once /\ ArmedAreRaces /\ AskPlace /\ AskOwn
  /\ NothingFlies

-----------------------------------------------------------------------------
(* A step that launches no query. *)
SameQueries ==
  /\ futures' \in Seq(Future) /\ Len(futures') = Len(futures)
  /\ \A f \in 1..Len(futures) :
       futures'[f].rule = futures[f].rule /\ futures'[f].tag = futures[f].tag

LaunchesNone ==
  /\ UNCHANGED <<rules, answer>> /\ idx' \in Nat /\ idx' >= idx
  /\ SameQueries /\ pc' \in Stages /\ anon' \in Nat /\ sweep' \in Sweeps
  /\ susp' \in Suspensions /\ ctxDone' \in BOOLEAN

(* Such a step has only its own places to keep. *)
LEMMA MoveKeeps ==
  ASSUME WalkInv, LaunchesNone, armed' \in Seq(ArmedRules), ArmedAreRaces',
         AtRule', AskPlace', NothingFlies',
         susp'.kind \in AskKinds =>
           \/ susp' = susp
           \/ \A f \in 1..Len(futures) : futures[f].rule = susp'.rule => susp'.future = f
  PROVE  WalkInv'
<1>1. WalkTypes /\ Len(futures) \in Nat
  BY DEF WalkInv, WalkTypes
<1>2. WalkTypes'
  BY <1>1 DEF WalkTypes, LaunchesNone, SameQueries
<1>3. Launched'
  <2>1. /\ rules' = rules /\ Len(futures') = Len(futures)
        /\ \A f \in 1..Len(futures) :
             futures'[f].rule = futures[f].rule /\ futures'[f].tag = futures[f].tag
    BY DEF LaunchesNone, SameQueries
  <2>2. \A i \in Nat : (i <= idx => i <= idx') /\ (i < idx => i < idx')
    BY <1>1 DEF WalkTypes, LaunchesNone
  <2>3. ASSUME NEW f \in 1..Len(futures) PROVE futures[f].rule \in Nat
    <3>1. futures[f] \in Future
      BY <1>1 DEF WalkTypes
    <3> QED
      BY <3>1 DEF Future
  <2> SUFFICES ASSUME NEW f \in 1..Len(futures)
               PROVE  Passed(futures[f], rules, idx')
    BY <2>1 DEF Launched, Passed
  <2>4. Passed(futures[f], rules, idx) /\ futures[f].rule \in Nat
    BY <2>3 DEF WalkInv, Launched
  <2> QED
    BY <2>2, <2>4 DEF Passed
<1>4. Once'
  BY DEF WalkInv, Once, LaunchesNone, SameQueries
<1>5. AskOwn'
  BY DEF WalkInv, AskOwn, LaunchesNone, SameQueries
<1> QED
  BY <1>2, <1>3, <1>4, <1>5 DEF WalkInv

(* Without a change of the futures. *)
LEMMA SameFutures ==
  ASSUME WalkInv, futures' = futures
  PROVE  SameQueries
  BY DEF WalkInv, WalkTypes, SameQueries

(* cancelDNSFutures changes no future but for its context. *)
LEMMA CancelSame ==
  ASSUME WalkInv, NEW S, futures' = Cancelled(S)
  PROVE  SameQueries /\ \A f \in 1..Len(futures) : f \in S => futures'[f].cancelled
<1>1. futures \in Seq(Future) /\ Len(futures) \in Nat /\ DOMAIN futures = 1..Len(futures)
  BY DEF WalkInv, WalkTypes
<1>2. ASSUME NEW f \in 1..Len(futures)
      PROVE  /\ futures'[f] \in Future
             /\ futures'[f].rule = futures[f].rule /\ futures'[f].tag = futures[f].tag
             /\ f \in S => futures'[f].cancelled
  <2>1. futures[f] \in Future
    BY <1>1
  <2>2. futures'[f] = [futures[f] EXCEPT !.cancelled = @ \/ f \in S]
    BY <1>1 DEF Cancelled
  <2> QED
    BY <2>1, <2>2 DEF Future
<1>3. futures' = [f \in 1..Len(futures) |-> futures'[f]]
  BY <1>1 DEF Cancelled
<1>4. futures' \in Seq(Future) /\ Len(futures') = Len(futures)
  BY <1>1, <1>2, <1>3
<1> QED
  BY <1>2, <1>4 DEF SameQueries

(* Rules stay armed or are disarmed. *)
LEMMA StayArmed ==
  ASSUME WalkInv, UNCHANGED rules,
         \/ armed' = armed
         \/ armed' = <<>>
         \/ sweep.at <= Len(armed) /\ armed' = Disarmed
  PROVE  armed' \in Seq(ArmedRules) /\ ArmedAreRaces'
<1>1. armed \in Seq(ArmedRules) /\ Len(armed) \in Nat /\ sweep.at \in Nat \ {0}
  BY DEF WalkInv, WalkTypes, Sweeps
<1>2. CASE armed' = armed
  BY <1>2 DEF WalkInv, WalkTypes, ArmedAreRaces
<1>3. CASE armed' = <<>>
  BY <1>3 DEF ArmedAreRaces
<1>4. CASE sweep.at <= Len(armed) /\ armed' = Disarmed
  <2> DEFINE at(i) == IF i < sweep.at THEN i ELSE i + 1
  <2>1. Len(armed) - 1 \in Nat
    BY <1>1, <1>4
  <2>2. \A i \in 1..(Len(armed) - 1) : at(i) \in 1..Len(armed)
    BY <1>1
  <2>3. armed' = [i \in 1..(Len(armed) - 1) |-> armed[at(i)]]
    BY <1>4 DEF Disarmed
  <2> HIDE DEF at
  <2>4. \A i \in 1..(Len(armed) - 1) : armed[at(i)] \in ArmedRules
    BY <1>1, <2>2
  <2>5. armed' \in Seq(ArmedRules) /\ Len(armed') = Len(armed) - 1
    BY <2>1, <2>3, <2>4
  <2> QED
    BY <2>2, <2>3, <2>5 DEF WalkInv, ArmedAreRaces
<1> QED
  BY <1>2, <1>3, <1>4

(* A query that returns. *)
LEMMA ReturnKeeps ==
  ASSUME WalkInv, NEW i, NEW out, Return(i, out),
         UNCHANGED <<config, susp, anon, sweep, ctxDone>>,
         idx' = idx, armed' \in Seq(ArmedRules), ArmedAreRaces'
  PROVE  WalkInv'
<1>1. SameQueries /\ \A f \in 1..Len(futures) : f \in DOMAIN futures => futures'[f].cancelled
  BY CancelSame DEF Return
<1>2. DOMAIN futures = 1..Len(futures) /\ pc' = "done"
  BY DEF Return, WalkInv, WalkTypes
<1>3. LaunchesNone
  BY <1>1, <1>2 DEF LaunchesNone, WalkInv, WalkTypes, Stages, config
<1>4. NothingFlies'
  BY <1>1, <1>2 DEF NothingFlies, SameQueries
<1>5. AtRule' /\ AskPlace'
  BY <1>2 DEF AtRule, AskPlace
<1> QED
  BY <1>3, <1>4, <1>5, MoveKeeps

(* The walk goes on. *)
LEMMA GoOn ==
  ASSUME WalkInv, UNCHANGED <<config, futures, ctxDone>>, pc' \in Stages \ {"done"},
         idx' \in {idx, idx + 1}, anon' \in Nat, sweep' \in Sweeps, susp' \in Suspensions,
         armed' \in Seq(ArmedRules), ArmedAreRaces', AtRule', AskPlace',
         susp'.kind \in AskKinds =>
           \/ susp' = susp
           \/ \A f \in 1..Len(futures) : futures[f].rule = susp'.rule => susp'.future = f
  PROVE  WalkInv'
<1>1. LaunchesNone
  <2>1. SameQueries
    BY SameFutures
  <2> QED
    BY <2>1 DEF LaunchesNone, config, WalkInv, WalkTypes
<1>2. NothingFlies'
  BY DEF NothingFlies
<1> QED
  BY <1>1, <1>2, MoveKeeps

(* What the invariant says of the types, for a step that leaves armed alone. *)
LEMMA Typed ==
  ASSUME WalkInv
  PROVE  /\ pc \in Stages /\ idx \in Nat \ {0} /\ anon \in Nat /\ sweep \in Sweeps
         /\ susp \in Suspensions /\ ctxDone \in BOOLEAN /\ rules \in Lists /\ Len(rules) \in Nat
         /\ Len(futures) \in Nat /\ DOMAIN futures = 1..Len(futures) /\ Len(armed) \in Nat
         /\ sweep.at \in Nat \ {0} /\ sweep.back \in {"walk", "resume"}
         /\ futures \in Seq(Future) /\ armed \in Seq(ArmedRules)
  BY ListsAssumption DEF WalkInv, WalkTypes, Sweeps

(* What a rule refers to is a future or none. *)
LEMMA ReferredNat ==
  ASSUME WalkInv, NEW r, NEW a \in Nat
  PROVE  Referred(r, a) \in Nat /\ TerminalFuture \in Nat
<1>1. Len(futures) \in Nat /\ DOMAIN futures = 1..Len(futures)
  BY Typed
<1>2. ASSUME NEW t PROVE NamedFuture(t) \in Nat
  <2>1. CASE {f \in DOMAIN futures : futures[f].tag = t} = {}
    BY <2>1 DEF NamedFuture
  <2>2. CASE {f \in DOMAIN futures : futures[f].tag = t} # {}
    <3>1. NamedFuture(t) \in {f \in DOMAIN futures : futures[f].tag = t}
      BY <2>2 DEF NamedFuture
    <3> QED
      BY <1>1, <3>1
  <2> QED
    BY <2>1, <2>2
<1>3. TerminalFuture = NamedFuture("terminal")
  BY DEF TerminalFuture, NamedFuture
<1> QED
  BY <1>2, <1>3 DEF Referred

(* A suspension that asks nobody. *)
LEMMA SuspendKeeps ==
  ASSUME WalkInv, NEW kind \in {"await", "drain"}, NEW f \in Nat, Suspend(kind, f, idx),
         UNCHANGED <<config, idx, futures, anon, armed, sweep, ctxDone>>
  PROVE  WalkInv'
<1>1. pc' = "settle" /\ susp' = [kind |-> kind, future |-> f, rule |-> idx]
  BY DEF Suspend
<1>2. pc' \in Stages \ {"done"} /\ susp' \in Suspensions /\ susp'.kind \notin AskKinds
  BY <1>1, Typed DEF Stages, Suspensions, AskKinds
<1>3. AtRule' /\ AskPlace'
  BY <1>1 DEF AtRule, AskPlace
<1>4. armed' \in Seq(ArmedRules) /\ ArmedAreRaces'
  BY StayArmed DEF config
<1> QED
  BY <1>2, <1>3, <1>4, GoOn, Typed

(* An action that waits for the races. *)
LEMMA HoldKeeps ==
  ASSUME WalkInv, Hold
  PROVE  WalkInv'
  BY SuspendKeeps DEF Hold

(* On to the next rule. *)
LEMMA NextKeeps ==
  ASSUME WalkInv, NextRule, susp.kind \notin AskKinds, anon' \in Nat,
         UNCHANGED <<config, susp, futures, armed, sweep, ctxDone>>
  PROVE  WalkInv'
<1>1. pc' = "walk" /\ idx' = idx + 1
  BY DEF NextRule
<1>2. pc' \in Stages \ {"done"}
  BY <1>1 DEF Stages
<1>3. AtRule' /\ AskPlace'
  BY <1>1 DEF AtRule, AskPlace
<1>4. armed' \in Seq(ArmedRules) /\ ArmedAreRaces'
  BY StayArmed DEF config
<1> QED
  BY <1>1, <1>2, <1>3, <1>4, GoOn, Typed

(* Only the place changes. *)
LEMMA StepKeeps ==
  ASSUME WalkInv, pc' \in Stages \ {"done"}, AtRule', AskPlace', sweep' \in Sweeps,
         UNCHANGED <<config, idx, susp, futures, anon, armed, ctxDone>>
  PROVE  WalkInv'
<1>1. armed' \in Seq(ArmedRules) /\ ArmedAreRaces'
  BY StayArmed DEF config
<1> QED
  BY <1>1, GoOn, Typed

(* The rule whose action is performed. *)
LEMMA ActingRule ==
  ASSUME WalkInv, NEW action, Acting(action)
  PROVE  /\ idx \in 1..Len(rules) /\ Rule.action = action /\ ~(Bound(Rule) /\ Rule.race)
         /\ susp.kind \notin AskKinds
  BY Typed DEF WalkInv, AtRule, AskPlace, Acting

(* A rule with match_response. *)
LEMMA JudgeKeeps ==
  ASSUME WalkInv, SettleRule \/ Arm \/ Await \/ Judge
  PROVE  WalkInv'
<1>0. rules' = rules
  BY DEF SettleRule, Arm, Await, Judge, config
<1>1. CASE SettleRule
  <2>1. /\ pc = "walk" /\ pc' = "judge" /\ idx <= Len(rules) /\ Bound(Rule)
        /\ UNCHANGED <<config, idx, susp, futures, anon, armed, sweep, ctxDone>>
    BY <1>1 DEF SettleRule
  <2>2. AtRule' /\ AskPlace' /\ pc' \in Stages \ {"done"} /\ sweep' \in Sweeps
    BY <1>0, <2>1, Typed DEF AtRule, AskPlace, Stages, Rule, Bound, WalkInv
  <2> QED
    BY <2>1, <2>2, StepKeeps
<1>2. CASE Arm
  <2> DEFINE a == [rule |-> idx, anon |-> anon,
                   future |-> IF Pending(Referred(Rule, anon)) THEN Referred(Rule, anon) ELSE 0]
  <2>1. /\ pc = "judge" /\ pc' \in {"walk", "sweep"} /\ idx' = idx + 1 /\ Rule.race
        /\ armed' = Append(armed, a) /\ sweep' = [at |-> 1, back |-> "walk"]
        /\ UNCHANGED <<config, susp, futures, anon, ctxDone>>
    BY <1>2 DEF Arm
  <2>2. a \in ArmedRules /\ a.rule = idx
    BY ReferredNat, Typed DEF ArmedRules
  <2> HIDE DEF a
  <2>3. /\ armed' \in Seq(ArmedRules) /\ Len(armed') = Len(armed) + 1
        /\ armed'[Len(armed) + 1] = a /\ \A b \in 1..Len(armed) : armed'[b] = armed[b]
    BY <2>1, <2>2, Typed
  <2>4. idx \in 1..Len(rules) /\ Bound(rules[idx]) /\ rules[idx].race
    BY <2>1, Typed DEF WalkInv, AtRule, Rule
  <2>5. \A b \in 1..Len(armed') : b \in 1..Len(armed) \/ b = Len(armed) + 1
    BY <2>3, Typed
  <2>6. ArmedAreRaces'
    BY <1>0, <2>2, <2>3, <2>4, <2>5 DEF WalkInv, ArmedAreRaces
  <2>7. susp.kind \notin AskKinds
    BY <2>1 DEF WalkInv, AskPlace
  <2>8. /\ AtRule' /\ AskPlace' /\ pc' \in Stages \ {"done"} /\ sweep' \in Sweeps
        /\ anon' \in Nat /\ susp' \in Suspensions
    BY <2>1, <2>7, Typed DEF AtRule, AskPlace, Stages, Sweeps
  <2> QED
    BY <2>1, <2>3, <2>6, <2>7, <2>8, GoOn
<1>3. CASE Await
  <2>1. Referred(Rule, anon) \in Nat
    BY ReferredNat, Typed
  <2> QED
    BY <1>3, <2>1, SuspendKeeps DEF Await
<1>4. CASE Judge
  <2>1. susp.kind \notin AskKinds /\ pc = "judge" /\ idx <= Len(rules) /\ Bound(Rule)
    BY <1>4 DEF Judge, WalkInv, AskPlace, AtRule
  <2>2. CASE NextRule
    <3>1. anon' \in Nat
      BY <1>4, Typed DEF Judge
    <3> QED
      BY <1>4, <2>1, <2>2, <3>1, NextKeeps DEF Judge
  <2>3. CASE ~NextRule
    <3>1. /\ pc' = "act" /\ ~Rule.race
          /\ UNCHANGED <<config, idx, susp, futures, anon, armed, sweep, ctxDone>>
      BY <1>4, <2>3 DEF Judge
    <3>2. AtRule' /\ AskPlace' /\ pc' \in Stages \ {"done"} /\ sweep' \in Sweeps
      BY <1>0, <2>1, <3>1, Typed DEF AtRule, AskPlace, Stages, Rule, Bound, WalkInv
    <3> QED
      BY <3>1, <3>2, StepKeeps
  <2> QED
    BY <2>2, <2>3
<1> QED
  BY <1>1, <1>2, <1>3, <1>4

(* launchDNSEvaluate, by an evaluate rule that the walk leaves behind or by  *)
(* a route rule that sends its query ahead.                                  *)
LEMMA LaunchKeeps ==
  ASSUME WalkInv, NEW tag, Launch(tag), Rule.server \in Servers, idx \in 1..Len(rules),
         \/ /\ tag = "terminal" /\ Rule.action = "route" /\ ~(Bound(Rule) /\ Rule.race)
            /\ idx' = idx /\ TerminalFuture = 0
         \/ tag \in Tags \cup {"anon"} /\ Rule.action = "evaluate" /\ idx' = idx + 1,
         UNCHANGED <<config, armed, sweep, ctxDone>>, anon' \in Nat,
         susp' \in Suspensions, susp'.kind \notin AskKinds, pc' \in {"walk", "settle"}
  PROVE  WalkInv'
<1> DEFINE n == [rule |-> idx, tag |-> tag, server |-> Rule.server,
                 state |-> "flying", cancelled |-> ctxDone, out |-> "err"]
           k == Len(futures) + 1
<1>1. /\ rules' = rules /\ Len(futures) \in Nat /\ futures \in Seq(Future)
      /\ idx \in Nat /\ "terminal" \notin Tags \cup {"anon"}
      /\ DOMAIN futures = 1..Len(futures)
  BY Typed, ListsAssumption DEF config
<1>2. n \in Future /\ n.rule = idx /\ n.tag = tag
  <2>1. ctxDone \in BOOLEAN /\ tag \in Tags \cup {"anon", "terminal"}
    BY Typed
  <2> QED
    BY <1>1, <2>1 DEF Future, Answers
<1>3. futures' = Append(futures, n)
  BY DEF Launch
<1> HIDE DEF n
<1>4. /\ futures' \in Seq(Future) /\ Len(futures') = k
      /\ futures'[k] = n /\ \A f \in 1..Len(futures) : futures'[f] = futures[f]
  BY <1>1, <1>2, <1>3
<1>5. \A f \in 1..Len(futures') : f \in 1..Len(futures) \/ f = k
  BY <1>1, <1>4
<1>6. \A f \in 1..Len(futures) : Passed(futures[f], rules, idx)
  BY DEF WalkInv, Launched
<1>7. \A f \in 1..Len(futures) : futures[f].rule # idx /\ (tag = "terminal" => futures[f].tag # "terminal")
  <2>1. ASSUME NEW f \in 1..Len(futures), tag = "terminal", futures[f].tag = "terminal" PROVE FALSE
    <3>1. {g \in DOMAIN futures : futures[g].tag = "terminal"} # {}
      BY <1>1, <2>1
    <3>2. TerminalFuture \in {g \in DOMAIN futures : futures[g].tag = "terminal"}
      BY <3>1 DEF TerminalFuture
    <3>3. TerminalFuture \in 1..Len(futures)
      BY <1>1, <3>2
    <3> QED
      BY <1>1, <2>1, <3>3
  <2>2. ASSUME NEW f \in 1..Len(futures), futures[f].rule = idx PROVE FALSE
    <3>1. futures[f].tag = "terminal" /\ rules[idx].action = "route"
      BY <1>1, <1>6, <2>2 DEF Passed
    <3>2. tag = "terminal"
      BY <1>1, <3>1 DEF Rule
    <3> QED
      BY <2>1, <3>1, <3>2
  <2> QED
    BY <2>1, <2>2
<1>8. Launched'
  <2>1. Passed(n, rules, idx')
    BY <1>1, <1>2 DEF Passed, Rule
  <2>2. ASSUME NEW f \in 1..Len(futures) PROVE Passed(futures[f], rules, idx')
    <3>1. futures[f].rule \in Nat /\ idx' \in Nat /\ idx' >= idx
      <4>1. futures[f] \in Future
        BY <1>1
      <4>2. futures[f].rule \in Nat
        BY <4>1 DEF Future
      <4> QED
        BY <1>1, <4>2
    <3>2. Passed(futures[f], rules, idx)
      BY <1>6
    <3> QED
      BY <1>1, <3>1, <3>2 DEF Passed
  <2> QED
    BY <1>1, <1>4, <1>5, <2>1, <2>2 DEF Launched
<1>9. Once'
  <2> SUFFICES ASSUME NEW f \in 1..Len(futures'), NEW g \in 1..Len(futures')
               PROVE  /\ futures'[f].rule = futures'[g].rule => f = g
                      /\ futures'[f].tag = "terminal" /\ futures'[g].tag = "terminal" => f = g
    BY DEF Once
  <2>1. CASE f = k /\ g = k
    BY <2>1
  <2>2. CASE f = k /\ g \in 1..Len(futures)
    BY <1>2, <1>4, <1>7, <2>2
  <2>3. CASE g = k /\ f \in 1..Len(futures)
    BY <1>2, <1>4, <1>7, <2>3
  <2>4. CASE f \in 1..Len(futures) /\ g \in 1..Len(futures)
    BY <1>4, <2>4 DEF WalkInv, Once
  <2> QED
    BY <1>5, <2>1, <2>2, <2>3, <2>4
<1>10. armed' \in Seq(ArmedRules) /\ ArmedAreRaces'
  BY StayArmed DEF config
<1>11. WalkTypes'
  BY <1>1, <1>4, <1>10 DEF WalkInv, WalkTypes, Stages, config
<1>12. AtRule' /\ AskPlace' /\ AskOwn' /\ NothingFlies'
  BY DEF AtRule, AskPlace, AskOwn, NothingFlies
<1> QED
  BY <1>8, <1>9, <1>10, <1>11, <1>12 DEF WalkInv

(* What a matching rule does. *)
LEMMA ActionKeeps ==
  ASSUME WalkInv, RouteOptions \/ Evaluate \/ Respond \/ Route \/ Reply \/ RulesEnd
  PROVE  WalkInv'
<1>1. CASE RouteOptions
  <2>1. susp.kind \notin AskKinds /\ anon' \in Nat
    BY <1>1, ActingRule, Typed DEF RouteOptions
  <2> QED
    BY <1>1, <2>1, NextKeeps DEF RouteOptions
<1>2. CASE Evaluate
  <2>1. idx \in 1..Len(rules) /\ Rule.action = "evaluate" /\ susp.kind \notin AskKinds
    BY <1>2, ActingRule DEF Evaluate
  <2>2. CASE Hold
    BY <2>2, HoldKeeps
  <2>3. CASE Rule.server \notin Servers /\ ~Hold
    <3>1. anon' \in Nat /\ NextRule /\ UNCHANGED <<config, susp, futures, armed, sweep, ctxDone>>
      BY <1>2, <2>3, Typed DEF Evaluate
    <3> QED
      BY <2>1, <3>1, NextKeeps
  <2>4. CASE Rule.server \in Servers /\ ~Hold
    <3>1. /\ Launch(Rule.tag) /\ NextRule /\ UNCHANGED <<config, susp, armed, sweep, ctxDone>>
          /\ anon' = IF Rule.tag = "anon" THEN Len(futures) + 1 ELSE anon
      BY <1>2, <2>4 DEF Evaluate
    <3>2. anon' \in Nat /\ susp' \in Suspensions
      BY <3>1, Typed
    <3>3. Rule.tag \in Tags \cup {"anon"}
      BY <2>1, ListsAssumption, Typed DEF Rule
    <3> QED
      BY <2>1, <2>4, <3>1, <3>2, <3>3, LaunchKeeps DEF NextRule
  <2> QED
    BY <2>2, <2>3, <2>4
<1>3. CASE Respond
  <2>1. CASE Hold
    BY <2>1, HoldKeeps
  <2>2. CASE Suspend("await", anon, idx)
              /\ UNCHANGED <<config, idx, futures, anon, armed, sweep, ctxDone>>
    BY <2>2, SuspendKeeps, Typed
  <2>3. ASSUME NEW out, Return(idx, out),
               UNCHANGED <<config, idx, susp, anon, armed, sweep, ctxDone>>
        PROVE  WalkInv'
    <3>1. armed' \in Seq(ArmedRules) /\ ArmedAreRaces'
      BY <2>3, StayArmed DEF config
    <3> QED
      BY <2>3, <3>1, ReturnKeeps
  <2> QED
    BY <1>3, <2>1, <2>2, <2>3 DEF Respond
<1>4. CASE Route
  <2>1. /\ idx \in 1..Len(rules) /\ Rule.action = "route" /\ ~(Bound(Rule) /\ Rule.race)
        /\ susp.kind \notin AskKinds
    BY <1>4, ActingRule DEF Route
  <2>2. CASE Hold
    BY <2>2, HoldKeeps
  <2>3. CASE NextRule /\ UNCHANGED <<config, susp, futures, anon, armed, sweep, ctxDone>>
    BY <2>1, <2>3, NextKeeps, Typed
  <2>4. CASE /\ Usable(Rule.server) /\ TerminalFuture = 0 /\ Launch("terminal")
             /\ Suspend("drain", 0, idx)
             /\ UNCHANGED <<config, idx, anon, armed, sweep, ctxDone>>
    <3>1. /\ pc' = "settle" /\ susp' = [kind |-> "drain", future |-> 0, rule |-> idx]
          /\ Rule.server \in Servers
      BY <2>4 DEF Suspend, Usable
    <3>2. susp' \in Suspensions /\ susp'.kind \notin AskKinds /\ anon' \in Nat
      BY <2>4, <3>1, Typed DEF Suspensions, AskKinds
    <3> QED
      BY <2>1, <2>4, <3>1, <3>2, LaunchKeeps
  <2>5. CASE /\ IF TerminalFuture # 0 /\ futures[TerminalFuture].rule = idx
                  THEN Suspend("commit", TerminalFuture, idx)
                  ELSE Suspend(IF Rule.fallback THEN "pending" ELSE "commit", 0, idx)
             /\ UNCHANGED <<config, idx, futures, anon, armed, sweep, ctxDone>>
    <3> DEFINE t == TerminalFuture
    <3>1. /\ pc' = "settle" /\ susp' \in Suspensions
          /\ susp'.rule = idx
          /\ t # 0 /\ futures[t].rule = idx => susp'.future = t
      <4>1. t \in Nat /\ idx \in Nat
        BY ReferredNat, Typed
      <4> QED
        BY <2>5, <4>1 DEF Suspend, Suspensions
    <3>2. ASSUME NEW f \in 1..Len(futures), futures[f].rule = idx PROVE susp'.future = f
      <4>1. Passed(futures[f], rules, idx)
        BY DEF WalkInv, Launched
      <4>2. futures[f].tag = "terminal"
        BY <3>2, <4>1, Typed DEF Passed
      <4>3. {g \in DOMAIN futures : futures[g].tag = "terminal"} # {}
        BY <4>2, Typed
      <4>4. t \in {g \in DOMAIN futures : futures[g].tag = "terminal"}
        BY <4>3 DEF TerminalFuture
      <4>5. t \in 1..Len(futures) /\ futures[t].tag = "terminal"
        BY <4>4, Typed
      <4>6. t = f
        BY <4>2, <4>5 DEF WalkInv, Once
      <4>7. t # 0
        BY <4>5, Typed
      <4> QED
        BY <3>1, <3>2, <4>6, <4>7
    <3>3. AtRule' /\ AskPlace' /\ pc' \in Stages \ {"done"}
      BY <3>1 DEF AtRule, AskPlace, Stages
    <3>4. armed' \in Seq(ArmedRules) /\ ArmedAreRaces'
      BY <2>5, StayArmed DEF config
    <3> QED
      BY <2>5, <3>1, <3>2, <3>3, <3>4, GoOn, Typed
  <2> QED
    BY <1>4, <2>2, <2>3, <2>4, <2>5 DEF Route
<1>5. CASE Reply
  <2>1. CASE Hold
    BY <2>1, HoldKeeps
  <2>2. CASE Return(idx, Rule.action) /\ UNCHANGED <<config, idx, susp, anon, armed, sweep, ctxDone>>
    <3>1. armed' \in Seq(ArmedRules) /\ ArmedAreRaces'
      BY <2>2, StayArmed DEF config
    <3> QED
      BY <2>2, <3>1, ReturnKeeps
  <2> QED
    BY <1>5, <2>1, <2>2 DEF Reply
<1>6. CASE RulesEnd
  <2>1. CASE Hold
    BY <2>1, HoldKeeps
  <2>2. CASE ~Hold
    <3>1. /\ pc' = "settle" /\ susp' = [kind |-> "commit", future |-> 0, rule |-> idx]
          /\ idx > Len(rules) /\ UNCHANGED <<config, idx, futures, anon, armed, sweep, ctxDone>>
      BY <1>6, <2>2 DEF RulesEnd, Suspend
    <3>2. \A f \in 1..Len(futures) : futures[f].rule # idx
      BY <3>1, Typed DEF WalkInv, Launched, Passed
    <3>3. AtRule' /\ AskPlace' /\ pc' \in Stages \ {"done"} /\ susp' \in Suspensions /\ susp'.rule = idx
      BY <3>1, Typed DEF AtRule, AskPlace, Stages, Suspensions
    <3>4. armed' \in Seq(ArmedRules) /\ ArmedAreRaces'
      BY <3>1, StayArmed DEF config
    <3> QED
      BY <3>1, <3>2, <3>3, <3>4, GoOn, Typed
  <2> QED
    BY <2>1, <2>2
<1> QED
  BY <1>1, <1>2, <1>3, <1>4, <1>5, <1>6

(* An armed rule has sent nothing ahead. *)
LEMMA ArmedSentNothing ==
  ASSUME WalkInv, NEW a \in 1..Len(armed), rules[armed[a].rule].action = "route"
  PROVE  \A f \in 1..Len(futures) : futures[f].rule # armed[a].rule
<1> SUFFICES ASSUME NEW f \in 1..Len(futures), futures[f].rule = armed[a].rule PROVE FALSE
  OBVIOUS
<1>1. Passed(futures[f], rules, idx)
  BY DEF WalkInv, Launched
<1>2. Bound(rules[armed[a].rule]) /\ rules[armed[a].rule].race
  BY DEF WalkInv, ArmedAreRaces
<1> QED
  BY <1>1, <1>2 DEF Passed

(* A server is asked: all other futures are cancelled. *)
LEMMA BeginKeeps ==
  ASSUME WalkInv, NEW s \in Suspensions, s.kind \in AskKinds, BeginExchange(s),
         UNCHANGED <<config, idx, anon, sweep, ctxDone>>,
         armed' \in Seq(ArmedRules), ArmedAreRaces',
         \/ s = susp
         \/ \A f \in 1..Len(futures) : futures[f].rule = s.rule => s.future = f
  PROVE  WalkInv'
<1>1. SameQueries /\ pc' = "asking" /\ susp' = s
  BY CancelSame DEF BeginExchange
<1>2. LaunchesNone
  BY <1>1, Typed DEF LaunchesNone, config, Stages, WalkInv, WalkTypes
<1>3. AtRule' /\ AskPlace' /\ NothingFlies'
  BY <1>1 DEF AtRule, AskPlace, NothingFlies
<1> QED
  BY <1>1, <1>2, <1>3, MoveKeeps

(* sweepArmedDNSRules *)
LEMMA SweepKeeps ==
  ASSUME WalkInv, SweepEnd \/ SweepPast \/ SweepJudge
  PROVE  WalkInv'
<1>1. CASE SweepEnd
  <2>1. /\ pc = "sweep" /\ pc' = sweep.back
        /\ UNCHANGED <<config, idx, susp, futures, anon, armed, sweep, ctxDone>>
    BY <1>1 DEF SweepEnd
  <2>2. pc' \in Stages \ {"done"} /\ sweep' \in Sweeps /\ pc' \in {"walk", "resume"}
    BY <2>1, Typed DEF Stages
  <2>3. AtRule' /\ AskPlace'
    BY <2>1, <2>2 DEF AtRule, AskPlace, WalkInv
  <2> QED
    BY <2>1, <2>2, <2>3, StepKeeps
<1>2. CASE SweepPast
  <2>1. /\ pc = "sweep" /\ pc' = pc /\ sweep' = [sweep EXCEPT !.at = @ + 1]
        /\ UNCHANGED <<config, idx, susp, futures, anon, armed, ctxDone>>
    BY <1>2 DEF SweepPast
  <2>2. sweep' \in Sweeps /\ sweep'.back = sweep.back /\ pc' \in Stages \ {"done"}
    BY <2>1, Typed DEF Sweeps, Stages
  <2>3. AtRule' /\ AskPlace'
    BY <2>1, <2>2 DEF AtRule, AskPlace, WalkInv
  <2> QED
    BY <2>1, <2>2, <2>3, StepKeeps
<1>3. CASE SweepJudge
  <2> DEFINE i == ArmedRule.rule
  <2>1. /\ pc = "sweep" /\ sweep.at <= Len(armed)
        /\ UNCHANGED <<config, idx, anon, sweep, ctxDone>>
    BY <1>3 DEF SweepJudge
  <2>2. sweep.at \in 1..Len(armed) /\ ArmedRule = armed[sweep.at]
    BY <2>1, Typed DEF ArmedRule
  <2>3. i \in Nat
    <3>1. armed[sweep.at] \in ArmedRules
      BY <2>2, Typed
    <3> QED
      BY <2>2, <3>1 DEF ArmedRules
  <2>4. rules[i].action = "route" => \A f \in 1..Len(futures) : futures[f].rule # i
    BY <2>2, ArmedSentNothing
  <2>5. armed' \in {<<>>, Disarmed} => armed' \in Seq(ArmedRules) /\ ArmedAreRaces'
    BY <2>1, StayArmed DEF config
  <2> HIDE DEF i
  <2>6. CASE armed' = Disarmed /\ UNCHANGED <<pc, susp, futures, result>>
    <3>1. AtRule' /\ AskPlace' /\ pc' \in Stages \ {"done"}
      BY <2>1, <2>6 DEF AtRule, AskPlace, WalkInv, Stages
    <3> QED
      BY <2>1, <2>5, <2>6, <3>1, GoOn, Typed
  <2>7. CASE rules[i].action = "route" /\ CommitRoute(i)
    <3> DEFINE s == [kind |-> "commit", future |-> 0, rule |-> i]
    <3>1. s \in Suspensions /\ s.kind \in AskKinds /\ s.rule = i
      BY <2>3 DEF Suspensions, AskKinds
    <3>2. CASE sweep.back = "walk"
      <4>1. armed' = <<>> /\ pc' = "settle" /\ susp' = s /\ futures' = futures
        BY <2>7, <3>2 DEF CommitRoute, Suspend
      <4>2. AtRule' /\ AskPlace' /\ pc' \in Stages \ {"done"}
        BY <4>1 DEF AtRule, AskPlace, Stages
      <4> HIDE DEF s
      <4> QED
        BY <2>1, <2>4, <2>5, <2>7, <3>1, <4>1, <4>2, GoOn, Typed
    <3>3. CASE sweep.back # "walk"
      <4>1. armed' = Disarmed /\ BeginExchange(s)
        BY <2>7, <3>3 DEF CommitRoute
      <4> HIDE DEF s
      <4> QED
        BY <2>1, <2>4, <2>5, <2>7, <3>1, <4>1, BeginKeeps
    <3> QED
      BY <3>2, <3>3
  <2>8. ASSUME NEW out, armed' = Disarmed, Return(i, out), UNCHANGED susp PROVE WalkInv'
    BY <2>1, <2>5, <2>8, ReturnKeeps
  <2> QED
    BY <1>3, <2>6, <2>7, <2>8 DEF SweepJudge, i
<1> QED
  BY <1>1, <1>2, <1>3

(* resumeExchangeWithRules *)
LEMMA ResumeKeeps ==
  ASSUME WalkInv, SettleAll \/ Resume \/ Wait \/ Asked \/ AskedInVain
  PROVE  WalkInv'
<1>a. armed' = armed /\ rules' = rules => armed' \in Seq(ArmedRules) /\ ArmedAreRaces'
  BY StayArmed
<1>1. CASE SettleAll
  <2>1. /\ pc' = "sweep" /\ sweep' = [at |-> 1, back |-> "resume"]
        /\ UNCHANGED <<config, idx, susp, futures, anon, armed, ctxDone>>
    BY <1>1 DEF SettleAll
  <2>2. AtRule' /\ AskPlace' /\ pc' \in Stages \ {"done"} /\ sweep' \in Sweeps
    BY <2>1 DEF AtRule, AskPlace, Stages, Sweeps
  <2> QED
    BY <2>1, <2>2, StepKeeps
<1>2. CASE Resume
  <2>1. UNCHANGED <<config, idx, anon, armed, sweep, ctxDone>>
    BY <1>2 DEF Resume
  <2>2. CASE susp.kind \in AskKinds /\ BeginExchange(susp)
    <3>1. susp \in Suspensions
      BY Typed
    <3> QED
      BY <1>a, <2>1, <2>2, <3>1, BeginKeeps DEF config
  <2>3. CASE pc' \in {"wait", "walk"} /\ UNCHANGED <<susp, futures>> /\ susp.kind \notin AskKinds
    <3>1. AtRule' /\ AskPlace' /\ pc' \in Stages \ {"done"} /\ sweep' \in Sweeps
      BY <2>1, <2>3, Typed DEF AtRule, AskPlace, Stages
    <3> QED
      BY <2>1, <2>3, <3>1, StepKeeps
  <2> QED
    BY <1>2, <2>2, <2>3 DEF Resume, AskKinds
<1>3. CASE Wait
  <2>1. UNCHANGED <<config, idx, susp, anon, armed, sweep, ctxDone>>
    BY <1>3 DEF Wait
  <2>2. CASE pc' = "settle" /\ futures' = futures
    <3>1. AtRule' /\ AskPlace' /\ pc' \in Stages \ {"done"} /\ sweep' \in Sweeps
      BY <2>1, <2>2, Typed DEF AtRule, AskPlace, Stages
    <3> QED
      BY <2>1, <2>2, <3>1, StepKeeps
  <2>3. CASE Return(0, "err")
    BY <1>a, <2>1, <2>3, ReturnKeeps DEF config
  <2> QED
    BY <1>3, <2>2, <2>3 DEF Wait
<1>4. CASE Asked
  <2>1. UNCHANGED <<config, anon, armed, sweep, ctxDone>>
    BY <1>4 DEF Asked
  <2>2. CASE /\ idx' = idx + 1 /\ pc' = "settle" /\ futures' = futures
             /\ susp' = [kind |-> "none", future |-> 0, rule |-> 0]
    <3>1. /\ AtRule' /\ AskPlace' /\ pc' \in Stages \ {"done"}
          /\ susp' \in Suspensions /\ susp'.kind \notin AskKinds
      BY <2>2 DEF AtRule, AskPlace, Stages, Suspensions, AskKinds
    <3> QED
      BY <1>a, <2>1, <2>2, <3>1, GoOn, Typed DEF config
  <2>3. ASSUME NEW i, NEW out, Return(i, out), UNCHANGED <<idx, susp>> PROVE WalkInv'
    BY <1>a, <2>1, <2>3, ReturnKeeps DEF config
  <2> QED
    BY <1>4, <2>2, <2>3 DEF Asked
<1>5. CASE AskedInVain
  BY <1>5, <1>a, ReturnKeeps DEF AskedInVain, config
<1> QED
  BY <1>1, <1>2, <1>3, <1>4, <1>5

(* Legacy mode launches nothing. *)
LEMMA LegacyKeeps ==
  ASSUME WalkInv, LegacySkip \/ LegacyReply \/ LegacyAsk
  PROVE  WalkInv'
<1>1. /\ pc = "legacy"
      /\ UNCHANGED <<config, susp, anon, armed, sweep, ctxDone>>
  BY DEF LegacySkip, LegacyReply, LegacyAsk
<1>a. armed' \in Seq(ArmedRules) /\ ArmedAreRaces'
  BY <1>1, StayArmed DEF config
<1>2. CASE idx' = idx + 1 /\ UNCHANGED <<pc, futures, result>>
  <2>1. AtRule' /\ AskPlace' /\ pc' \in Stages \ {"done"}
    BY <1>1, <1>2 DEF AtRule, AskPlace, Stages
  <2> QED
    BY <1>1, <1>a, <1>2, <2>1, GoOn, Typed
<1>3. ASSUME NEW i, NEW out, Return(i, out), idx' = idx PROVE WalkInv'
  BY <1>1, <1>a, <1>3, ReturnKeeps
<1> QED
  BY <1>2, <1>3 DEF LegacySkip, LegacyReply, LegacyAsk

(* A future changes state, or the caller gives up. *)
LEMMA WorldKeeps ==
  ASSUME WalkInv, Callback \/ CallerGone
  PROVE  WalkInv'
<1>u. UNCHANGED <<config, pc, idx, susp, anon, armed, sweep>>
  BY DEF Callback, Resolve, Signal, CallerGone
<1>a. armed' \in Seq(ArmedRules) /\ ArmedAreRaces'
  BY <1>u, StayArmed DEF config
<1>p. AtRule' /\ AskPlace'
  BY <1>u DEF AtRule, AskPlace, WalkInv, config, Rule, Bound
<1>1. CASE CallerGone
  <2>1. SameQueries /\ ctxDone' = TRUE /\ pc # "done"
    BY <1>1, CancelSame DEF CallerGone
  <2>2. LaunchesNone /\ NothingFlies'
    BY <1>u, <2>1, Typed DEF LaunchesNone, NothingFlies, config, WalkInv, WalkTypes
  <2> QED
    BY <1>u, <1>a, <1>p, <2>2, MoveKeeps
<1>2. CASE Callback
  <2>1. PICK f \in 1..Len(futures) : Resolve(f) \/ Signal(f)
    BY <1>2 DEF Callback
  <2>2. futures[f] \in Future /\ ctxDone' = ctxDone
    BY <2>1, Typed DEF Resolve, Signal
  <2>3. PICK n \in Future :
          /\ futures' = [futures EXCEPT ![f] = n]
          /\ n.rule = futures[f].rule /\ n.tag = futures[f].tag
          /\ n.state # "flying"
    <3>1. CASE Resolve(f)
      <4>1. futures[f].server \in Servers
        BY <2>2 DEF Future
      <4>2. answer[futures[f].server] \in Answers /\ "err" \in Answers
        BY <4>1 DEF WalkInv, WalkTypes, Answers
      <4>3. PICK out \in Answers : futures' = [futures EXCEPT ![f].state = "closed", ![f].out = out]
        BY <3>1, <4>2 DEF Resolve
      <4> DEFINE n == [futures[f] EXCEPT !.state = "closed", !.out = out]
      <4>4. futures' = [futures EXCEPT ![f] = n]
        BY <4>3, Typed
      <4>5. n \in Future
        BY <2>2 DEF Future
      <4>6. n.rule = futures[f].rule /\ n.tag = futures[f].tag /\ n.state = "closed"
        BY <2>2 DEF Future
      <4> HIDE DEF n
      <4> QED
        BY <4>4, <4>5, <4>6
    <3>2. CASE Signal(f)
      <4> DEFINE n == [futures[f] EXCEPT !.state = "signalled"]
      <4>1. futures' = [futures EXCEPT ![f] = n]
        BY <3>2 DEF Signal
      <4>2. n \in Future
        BY <2>2 DEF Future
      <4>3. n.rule = futures[f].rule /\ n.tag = futures[f].tag /\ n.state = "signalled"
        BY <2>2 DEF Future
      <4> HIDE DEF n
      <4> QED
        BY <4>1, <4>2, <4>3
    <3> QED
      BY <2>1, <3>1, <3>2
  <2>4. futures' \in Seq(Future) /\ Len(futures') = Len(futures)
    BY <2>3, Typed
  <2>5. \A g \in 1..Len(futures) : futures'[g] = IF g = f THEN n ELSE futures[g]
    BY <2>3, Typed
  <2>6. SameQueries
    BY <2>3, <2>4, <2>5 DEF SameQueries
  <2>7. LaunchesNone
    BY <1>u, <2>2, <2>6, Typed DEF LaunchesNone, config, WalkInv, WalkTypes
  <2>8. NothingFlies'
    BY <1>u, <2>3, <2>4, <2>5 DEF WalkInv, NothingFlies, Resolved
  <2> QED
    BY <1>u, <1>a, <1>p, <2>7, <2>8, MoveKeeps
<1> QED
  BY <1>1, <1>2

(* A query starts with nothing under way. *)
LEMMA InitWalkInv == InitWalk => WalkInv
<1> SUFFICES ASSUME InitWalk PROVE WalkInv
  OBVIOUS
<1>1. futures = <<>> /\ armed = <<>> /\ Len(futures) = 0 /\ Len(armed) = 0
  BY DEF InitWalk
<1>2. pc \in {"legacy", "walk"} /\ susp = [kind |-> "none", future |-> 0, rule |-> 0]
  BY DEF InitWalk
<1>3. WalkTypes
  <2>1. rules \in Lists /\ answer \in [Servers -> Answers] /\ ctxDone \in BOOLEAN
    BY Zenon DEF InitWalk
  <2>2. pc \in Stages /\ idx \in Nat \ {0} /\ anon \in Nat
    BY <1>2 DEF InitWalk, Stages
  <2>3. sweep \in Sweeps /\ susp \in Suspensions
    BY <1>2 DEF InitWalk, Sweeps, Suspensions
  <2> QED
    BY <1>1, <2>1, <2>2, <2>3 DEF WalkTypes
<1>4. Launched /\ Once /\ ArmedAreRaces
  BY <1>1 DEF Launched, Once, ArmedAreRaces
<1> QED
  BY <1>1, <1>2, <1>3, <1>4 DEF WalkInv, AtRule, AskPlace, AskOwn, NothingFlies, AskKinds

(* Every step keeps it. *)
LEMMA NextWalkInv == WalkInv /\ [NextWalk]_walkVars => WalkInv'
<1> SUFFICES ASSUME WalkInv, [NextWalk]_walkVars PROVE WalkInv'
  OBVIOUS
<1>1. CASE UNCHANGED walkVars
  BY <1>1 DEF walkVars, config, WalkInv, WalkTypes, AtRule, Launched, Once, ArmedAreRaces,
    AskPlace, AskOwn, NothingFlies, Passed, Rule, Bound, Resolved
<1> QED
  BY <1>1, JudgeKeeps, ActionKeeps, SweepKeeps, ResumeKeeps, LegacyKeeps, WorldKeeps
  DEF NextWalk, Walk

(* The inductive invariant of the walk. *)
THEOREM WalkInvariance == WalkSpec => []WalkInv
  BY InitWalkInv, NextWalkInv, PTL DEF WalkSpec

(* For every rule list, and however the answers, the walk and the caller     *)
(* interleave: walkDNSRules launches at most one query for each rule, what   *)
(* finishPendingExchange asks was not asked before, and when the query       *)
(* returns nothing is left in flight uncancelled.                            *)
THEOREM QueriesAreUsed == WalkSpec => []NoWastedQuery
<1>1. WalkInv => NoWastedQuery
  <2> SUFFICES ASSUME WalkInv PROVE NoWastedQuery
    OBVIOUS
  <2>1. DOMAIN futures = 1..Len(futures)
    BY Typed
  <2> QED
    BY <2>1 DEF WalkInv, Once, AskPlace, AskOwn, NothingFlies, NoWastedQuery
<1> QED
  BY <1>1, WalkInvariance, PTL

-----------------------------------------------------------------------------
(* The walk in legacy mode, which launches nothing and tries the rules one   *)
(* after another.                                                            *)

(* Rule i ends the query. *)
LegacyStops(i) ==
  LET r == rules[i]
  IN \/ r.action \in {"reject", "predefined"}
     \/ r.action = "route" /\ Usable(r.server) /\ ~LegacyRejects(r, answer[r.server])

LegacyOut(i) ==
  IF i > Len(rules) THEN answer[Default]
  ELSE IF rules[i].action = "route" THEN answer[rules[i].server] ELSE rules[i].action

(* The rules before the one at hand did not end the query, and the result is *)
(* that of the first that does.                                              *)
LegacyWalk ==
  LegacyMode(rules) =>
    /\ pc \in {"legacy", "done"} /\ DOMAIN futures = {}
    /\ idx \in 1..(Len(rules) + 1)
    /\ ~ctxDone => \A j \in 1..(idx - 1) : ~LegacyStops(j)
    /\ pc = "done" /\ ~ctxDone =>
         /\ idx <= Len(rules) => LegacyStops(idx)
         /\ result = [rule |-> idx, out |-> LegacyOut(idx)]

(* In legacy mode no rule looks at a response. *)
LEMMA LegacyRules ==
  ASSUME LegacyMode(rules), rules \in Lists
  PROVE  /\ Len(rules) \in Nat
         /\ \A i \in 1..Len(rules) : ~Bound(rules[i]) /\ rules[i].action \notin {"evaluate", "respond"}
<1>1. Len(rules) \in Nat /\ DOMAIN rules = 1..Len(rules)
  BY ListsAssumption
<1>2. \A i \in DOMAIN rules : ~DisablesLegacy(rules[i])
  BY DEF LegacyMode, Has
<1> QED
  BY <1>1, <1>2 DEF DisablesLegacy

(* So what the walk does to a rule is what the documentation says of it, but *)
(* for the fallback.                                                         *)
LEMMA LegacyMeaning ==
  ASSUME LegacyMode(rules), rules \in Lists
  PROVE  /\ \A i \in 1..Len(rules) :
              LegacyStops(i) <=>
                /\ Ends(i)
                /\ rules[i].action = "route" => ~LegacyRejects(rules[i], answer[rules[i].server])
         /\ \A i \in 1..(Len(rules) + 1) : Decision(i) = [rule |-> i, out |-> LegacyOut(i)]
<1>1. ASSUME NEW i \in 1..Len(rules)
      PROVE  LegacyStops(i) <=>
               /\ Ends(i)
               /\ rules[i].action = "route" => ~LegacyRejects(rules[i], answer[rules[i].server])
  BY LegacyRules DEF LegacyStops, Ends
<1>2. ASSUME NEW i \in 1..(Len(rules) + 1)
      PROVE  Decision(i) = [rule |-> i, out |-> LegacyOut(i)]
  <2>1. CASE i > Len(rules)
    BY <2>1 DEF Decision, LegacyOut
  <2>2. CASE ~(i > Len(rules))
    <3>1. i \in 1..Len(rules)
      BY <2>2, LegacyRules
    <3>2. rules[i].action # "respond"
      BY <3>1, LegacyRules
    <3> QED
      BY <2>2, <3>2 DEF Decision, LegacyOut
  <2> QED
    BY <2>1, <2>2
<1> QED
  BY <1>1, <1>2

(* The walk starts at the first rule. *)
LEMMA InitLegacy == InitWalk => LegacyWalk
<1> SUFFICES ASSUME InitWalk, LegacyMode(rules)
             PROVE  /\ pc \in {"legacy", "done"} /\ DOMAIN futures = {}
                    /\ idx \in 1..(Len(rules) + 1) /\ idx = 1 /\ pc # "done"
  BY DEF LegacyWalk
<1>1. rules \in Lists /\ futures = <<>> /\ idx = 1 /\ pc = "legacy"
  BY DEF InitWalk
<1>2. Len(rules) \in Nat
  BY <1>1, LegacyRules
<1> QED
  BY <1>1, <1>2

(* Every step keeps to the order of the rules. *)
LEMMA NextLegacy == WalkTypes /\ LegacyWalk /\ [NextWalk]_walkVars => LegacyWalk'
<1> SUFFICES ASSUME WalkTypes, LegacyWalk, [NextWalk]_walkVars, LegacyMode(rules)' PROVE LegacyWalk'
  BY DEF LegacyWalk
<1>0. UNCHANGED config
  BY DEF NextWalk, Walk, Callback, SettleRule, Arm, Await, Judge, RouteOptions, Evaluate, Respond,
         Route, Reply, RulesEnd, SweepEnd, SweepPast, SweepJudge, SettleAll, Resume, Wait, Asked,
         AskedInVain, LegacySkip, LegacyReply, LegacyAsk, Resolve, Signal, CallerGone, Hold,
         walkVars, config
<1>1. rules' = rules /\ answer' = answer /\ method' = method
  BY <1>0 DEF config
<1>2. LegacyMode(rules) /\ rules \in Lists
  BY <1>1 DEF WalkTypes, LegacyMode, Has, DisablesLegacy, Bound
<1>3. /\ pc \in {"legacy", "done"} /\ DOMAIN futures = {}
      /\ idx \in 1..(Len(rules) + 1) /\ Len(rules) \in Nat
      /\ ~ctxDone => \A j \in 1..(idx - 1) : ~LegacyStops(j)
      /\ pc = "done" /\ ~ctxDone =>
           /\ idx <= Len(rules) => LegacyStops(idx)
           /\ result = [rule |-> idx, out |-> LegacyOut(idx)]
  BY <1>2, LegacyRules DEF LegacyWalk
<1>4. \A i : (LegacyStops(i)' <=> LegacyStops(i)) /\ LegacyOut(i)' = LegacyOut(i)
  BY <1>1 DEF LegacyStops, LegacyOut, LegacyRejects, Usable
<1>5. ASSUME DOMAIN futures' = {}, ctxDone' = ctxDone, pc = "legacy", pc' = "legacy",
             idx' = idx + 1, idx <= Len(rules), ~ctxDone => ~LegacyStops(idx)
      PROVE  LegacyWalk'
  <2>1. idx' \in 1..(Len(rules) + 1)
    BY <1>3, <1>5
  <2>2. ASSUME ~ctxDone, NEW j \in 1..(idx' - 1) PROVE ~LegacyStops(j)
    <3>1. j \in 1..(idx - 1) \/ j = idx
      BY <1>3, <1>5
    <3> QED
      BY <1>3, <1>5, <2>2, <3>1
  <2> QED
    BY <1>1, <1>4, <1>5, <2>1, <2>2 DEF LegacyWalk
<1>6. ASSUME DOMAIN futures' = {}, ctxDone' = ctxDone, pc' = "done", idx' = idx, NEW out,
             result' = [rule |-> idx, out |-> out],
             ~ctxDone => (idx <= Len(rules) => LegacyStops(idx)) /\ out = LegacyOut(idx)
      PROVE  LegacyWalk'
  BY <1>1, <1>3, <1>4, <1>6 DEF LegacyWalk
<1>7. ASSUME NEW i, NEW out, Return(i, out) PROVE DOMAIN futures' = {}
  BY <1>3, <1>7 DEF Return, Cancelled
<1>8. CASE LegacySkip
  <2>1. ~LegacyStops(idx)
    BY <1>8 DEF LegacySkip, LegacyStops, Rule
  <2> QED
    BY <1>3, <1>5, <1>8, <2>1 DEF LegacySkip
<1>9. CASE LegacyReply
  <2>1. LegacyStops(idx) /\ rules[idx].action = LegacyOut(idx)
    BY <1>3, <1>9 DEF LegacyReply, LegacyStops, LegacyOut, Rule
  <2>2. Return(idx, Rule.action) /\ idx' = idx /\ ctxDone' = ctxDone
    BY <1>9 DEF LegacyReply
  <2> QED
    BY <1>6, <1>7, <2>1, <2>2 DEF Return, Rule
<1>10. CASE LegacyAsk
  <2>1. PICK out \in IF ctxDone THEN {"err"} ELSE {answer[ServerOf(idx)]} :
          IF idx <= Len(rules) /\ LegacyRejects(Rule, out)
          THEN idx' = idx + 1 /\ UNCHANGED <<pc, futures, result>>
          ELSE Return(idx, out) /\ UNCHANGED idx
    BY <1>10 DEF LegacyAsk
  <2>2. /\ pc = "legacy" /\ ctxDone' = ctxDone
        /\ idx <= Len(rules) => rules[idx].action = "route" /\ Usable(rules[idx].server)
    BY <1>10 DEF LegacyAsk, Rule
  <2>3. ~ctxDone => out = LegacyOut(idx)
    BY <1>3, <2>1, <2>2 DEF ServerOf, LegacyOut
  <2>4. CASE idx <= Len(rules) /\ LegacyRejects(rules[idx], out)
    <3>1. ~ctxDone => ~LegacyStops(idx)
      BY <1>3, <2>2, <2>3, <2>4 DEF LegacyStops, LegacyOut
    <3> QED
      BY <1>3, <1>5, <2>1, <2>2, <2>4, <3>1 DEF Rule
  <2>5. CASE ~(idx <= Len(rules) /\ LegacyRejects(rules[idx], out))
    <3>1. Return(idx, out) /\ idx' = idx
      BY <2>1, <2>5 DEF Rule
    <3>2. ~ctxDone => (idx <= Len(rules) => LegacyStops(idx))
      BY <1>3, <2>2, <2>3, <2>5 DEF LegacyStops, LegacyOut
    <3> QED
      BY <1>6, <1>7, <2>2, <2>3, <3>1, <3>2 DEF Return
  <2> QED
    BY <2>4, <2>5
<1>11. CASE CallerGone
  <2>1. DOMAIN futures' = {}
    BY <1>3, <1>11 DEF CallerGone, Cancelled
  <2> QED
    BY <1>1, <1>3, <1>11, <2>1 DEF CallerGone, LegacyWalk
<1>12. CASE UNCHANGED walkVars
  BY <1>3, <1>4, <1>12 DEF walkVars, LegacyWalk
<1>13. LegacySkip \/ LegacyReply \/ LegacyAsk \/ CallerGone \/ UNCHANGED walkVars
  BY <1>3
  DEF NextWalk, Walk, Callback, SettleRule, Arm, Await, Judge, RouteOptions, Evaluate, Respond,
      Route, Reply, RulesEnd, SweepEnd, SweepPast, SweepJudge, SettleAll, Resume, Wait, Asked,
      AskedInVain, Resolve, Signal, Acting
<1> QED
  BY <1>8, <1>9, <1>10, <1>11, <1>12, <1>13

(* In legacy mode a query whose caller stays ends as the documentation says  *)
(* (with the first rule whose answer no address filter rejects and which     *)
(* does not fall back, or with the default server), unless it ends with the  *)
(* failure of a rule with fallback.                                          *)
LegacyInOrder ==
  LegacyMode(rules) /\ pc = "done" /\ ~ctxDone /\ ~FallbackIgnored =>
    \E i \in LegacyPromised : result = Decision(i)

(* The rule at which the walk ended is the first of those that end it. *)
LEMMA LegacyFirst == WalkTypes /\ LegacyWalk => LegacyInOrder
<1> SUFFICES ASSUME WalkTypes, LegacyWalk, LegacyMode(rules), pc = "done", ~ctxDone,
                    ~FallbackIgnored
             PROVE  \E i \in LegacyPromised : result = Decision(i)
  BY DEF LegacyInOrder
<1> DEFINE P(i) == /\ Ends(i) /\ ~Falls(i)
                   /\ rules[i].action = "route" =>
                        ~LegacyRejects(rules[i], answer[rules[i].server])
           Q(i) == (i <= Len(rules) => P(i)) /\ \A j \in 1..(i - 1) : ~P(j)
           R == 1..(Len(rules) + 1)
<1>1. rules \in Lists /\ Len(rules) \in Nat
  BY LegacyRules DEF WalkTypes
<1>2. \A i \in 1..Len(rules) : P(i) <=> LegacyStops(i) /\ ~Falls(i)
  BY <1>1, LegacyMeaning
<1>3. idx \in R /\ result = Decision(idx)
  BY <1>1, LegacyMeaning DEF LegacyWalk
<1>3a. idx \in 1..Len(rules) => ~Falls(idx)
  <2>1. result.rule = idx
    BY <1>1, <1>3, LegacyMeaning
  <2> QED
    BY <2>1 DEF FallbackIgnored
<1> HIDE DEF P
<1>4. Q(idx)
  <2>1. idx \in Nat /\ idx >= 1 /\ idx <= Len(rules) + 1
    BY <1>1, <1>3
  <2>2. idx <= Len(rules) => P(idx)
    BY <1>1, <1>2, <1>3a, <2>1 DEF LegacyWalk
  <2>3. ASSUME NEW j \in 1..(idx - 1) PROVE ~P(j)
    <3>1. j \in 1..Len(rules)
      BY <1>1, <2>1
    <3> QED
      BY <1>2, <3>1 DEF LegacyWalk
  <2> QED
    BY <2>2, <2>3
<1>5. ASSUME NEW k \in R, Q(k) PROVE k = idx
  <2>1. ~(k < idx)
    BY <1>1, <1>3, <1>4, <1>5
  <2>2. ~(idx < k)
    BY <1>1, <1>3, <1>4, <1>5
  <2> QED
    BY <1>1, <1>3, <2>1, <2>2
<1>6. LegacyPromised = {CHOOSE i \in R : Q(i)}
  BY DEF LegacyPromised, FirstFrom, P
<1>7. (CHOOSE i \in R : Q(i)) = idx
  <2> HIDE DEF Q, R
  <2> QED
    BY <1>3, <1>4, <1>5
<1> QED
  BY <1>3, <1>6, <1>7

(* The first half of OrderedOutcome: exchangeLegacy and the loop of Lookup   *)
(* end with the rule that the order of the list gives, unless that rule's    *)
(* failure was to be caught by its fallback; nothing else goes out of order. *)
THEOREM LegacyKeepsOrder == WalkSpec => []LegacyInOrder
<1>1. WalkInv => WalkTypes
  BY DEF WalkInv
<1>2. WalkSpec => []LegacyWalk
  BY <1>1, InitLegacy, NextLegacy, WalkInvariance, PTL DEF WalkSpec
<1> QED
  BY <1>1, <1>2, LegacyFirst, WalkInvariance, PTL

-----------------------------------------------------------------------------
(***************************************************************************)
(* The walk without legacy mode.  Its result is what the listed order      *)
(* promises: the names stand for the queries that order gives, a rule is   *)
(* judged by the answers of those, and behind the walk only armed races    *)
(* are left that could still end the query.                                *)
(***************************************************************************)

(* The query is one that OrderedOutcome speaks of, and not in legacy mode. *)
Undisturbed == ~LegacyMode(rules) /\ odd = {} /\ ~ctxDone

(* What is promised to a walk that starts at rule k: Promised is From[1]. *)
From[k \in 1..(Len(rules) + 1)] ==
  LET t == FirstFrom(k, LAMBDA i : ~rules[i].race /\ Ends(i))
      races == {i \in k..(t - 1) : rules[i].race /\ Ends(i)}
  IN IF races # {} THEN races
     ELSE IF t <= Len(rules) /\ Falls(t) THEN From[t + 1] \cup {i \in {t} : SentAhead(i)}
     ELSE {t}

(* A future asks the server of its rule, under the tag of its rule. *)
FutureRules ==
  \A f \in 1..Len(futures) :
    LET i == futures[f].rule
    IN /\ futures[f].server = rules[i].server
       /\ futures[f].tag # "terminal" => futures[f].tag = rules[i].tag
       /\ futures[f].tag = "terminal" => SentAhead(i)

(* It has what its server answered, or will have it. *)
FuturesTrue ==
  \A f \in 1..Len(futures) :
    (pc = "asking" /\ susp.kind = "commit" => f = susp.future) =>
      IF Resolved(f) THEN futures[f].out = answer[futures[f].server]
                     ELSE ~futures[f].cancelled

(* The rule of a future, 0 for none. *)
RuleOf(f) == IF f = 0 THEN 0 ELSE futures[f].rule

(* A name stands for the query of the rule that the listed order gives. *)
NamesTrue ==
  /\ anon \in 0..Len(futures)
  /\ Evaluated[idx]["anon"] = RuleOf(anon)
  /\ \A t \in Tags : Evaluated[idx][t] = RuleOf(NamedFuture(t))

(* So does what an armed rule refers to, which it still waits for or which   *)
(* was there when it was armed.                                              *)
ArmedTrue ==
  \A a \in 1..Len(armed) :
    LET i == armed[a].rule
        f == Referred(rules[i], armed[a].anon)
    IN /\ f \in 0..Len(futures)
       /\ Evaluated[i][rules[i].bind] = RuleOf(f)
       /\ armed[a].future = f \/ (armed[a].future = 0 /\ ~Pending(f))

(* In that case the sweep has yet to come to it, and no evaluate was walked  *)
(* since.                                                                    *)
ArmedNow ==
  \A a \in 1..Len(armed) :
    armed[a].future = 0 => pc = "sweep" /\ sweep.at <= a /\ armed[a].anon = anon

(* A rule whose action is performed was judged by that answer. *)
ActTrue ==
  pc = "act" =>
    /\ ~Pending(Referred(Rule, anon))
    /\ ResponseFor(Rule, anon) = ValueOf(Rule.bind, idx)
    /\ Matches(Rule, ValueOf(Rule.bind, idx))

(* What is promised from rule k on is promised, and of the rules from k to   *)
(* the one at hand only races that are still armed end the query.            *)
Trail(k) ==
  /\ k \in 1..idx /\ From[k] \subseteq Promised
  /\ \A j \in k..(idx - 1) : Ends(j) => rules[j].race /\ \E a \in 1..Len(armed) : armed[a].rule = j
  /\ \A a \in 1..Len(armed) : armed[a].rule \in k..(idx - 1)

(* A rule with fallback asks while no race is left. *)
PendingTrue ==
  susp.kind = "pending" =>
    /\ susp.rule = idx /\ susp.future = 0 /\ armed = <<>> /\ idx <= Len(rules)
    /\ Rule.action = "route" /\ Rule.fallback /\ ~Rule.race /\ Ends(idx)

(* As long as nothing is decided. *)
Going ==
  susp.kind # "commit" =>
    /\ NamesTrue /\ ArmedTrue /\ ArmedNow /\ ActTrue /\ PendingTrue
    /\ \E k \in 1..idx : Trail(k)

(* Once the walk has committed itself. *)
Chosen ==
  susp.kind = "commit" =>
    LET i == susp.rule
    IN /\ i \in Promised /\ i \in 1..(Len(rules) + 1)
       /\ i <= Len(rules) => rules[i].action = "route"
       /\ susp.future # 0 => susp.future \in 1..Len(futures) /\ futures[susp.future].rule = i
       /\ pc # "asking" => armed = <<>>

(* The walk is where the listed order says it may be. *)
InOrder ==
  /\ pc # "done" =>
       /\ pc # "legacy" /\ idx <= Len(rules) + 1
       /\ FutureRules /\ FuturesTrue /\ Going /\ Chosen
  /\ pc = "done" => \E i \in Promised : result = Decision(i)

(* The invariant: the list is one the router accepts, and the walk keeps to  *)
(* it.                                                                       *)
OrderInv == Accepted(rules) /\ (Undisturbed => InOrder)

-----------------------------------------------------------------------------
(* Numbers. *)

(* A set of numbers has a least one. *)
LEMMA Least ==
  ASSUME NEW S, S \subseteq Nat, S # {}
  PROVE  \E m \in S : \A k \in S : m <= k
<1> DEFINE Less == OpToRel(<, Nat)
<1>1. IsWellFoundedOn(Less, Nat)
  BY NatLessThanWellFounded
<1>2. PICK m \in S : \A k \in S : <<k, m>> \notin Less
  <2> HIDE DEF Less
  <2> QED
    BY <1>1, WFMin
<1>3. ASSUME NEW k \in S PROVE m <= k
  <2>1. k \in Nat /\ m \in Nat /\ ~(k < m)
    BY <1>2 DEF OpToRel
  <2> QED
    BY <2>1
<1> QED
  BY <1>3
(* Induction, over a set of numbers. *)
LEMMA Numbers ==
  ASSUME NEW K, K \subseteq Nat, 0 \in K, \A k \in K : k + 1 \in K
  PROVE  \A n \in Nat : n \in K
<1> SUFFICES ASSUME Nat \ K # {} PROVE FALSE
  OBVIOUS
<1>1. PICK m \in Nat \ K : \A k \in Nat \ K : m <= k
  BY Least
<1>2. m \in Nat /\ m # 0 /\ m - 1 \in Nat /\ ~(m <= m - 1)
  OBVIOUS
<1>3. m - 1 \in K
  BY <1>1, <1>2
<1> QED
  BY <1>2, <1>3

-----------------------------------------------------------------------------
(* The recursions of Evaluated and Promised are well founded. *)

(* What evaluating rule i makes of the names. *)
AfterRule(i, e) ==
  LET r == rules[i]
  IN IF r.action # "evaluate"
        \/ ~(Bound(r) => Matches(r, IF e[r.bind] = 0 THEN Nil
                                    ELSE Answered(rules[e[r.bind]].server))) THEN e
     ELSE IF r.server \in Servers THEN [e EXCEPT ![r.tag] = i]
     ELSE IF r.tag = "anon" THEN [e EXCEPT !["anon"] = 0] ELSE e

(* Before the first rule no name stands for anything. *)
NoNames == [t \in Tags \cup {"anon"} |-> 0]

(* The names before each of the first m rules and the one after them. *)
NamesUpTo(g, m) ==
  g = [i \in 1..(m + 1) |-> IF i = 1 THEN NoNames ELSE AfterRule(i - 1, g[i - 1])]

(* There are such names: the recursion of Evaluated goes down. *)
LEMMA NamesExist ==
  ASSUME NEW n \in Nat
  PROVE  \E g : NamesUpTo(g, n)
<1> DEFINE K == {m \in Nat : \E g : NamesUpTo(g, m)}
<1>1. 0 \in K
  <2> DEFINE g == [i \in 1..(0 + 1) |-> NoNames]
  <2>1. NamesUpTo(g, 0)
    BY DEF NamesUpTo
  <2> QED
    BY <2>1
<1>2. ASSUME NEW m \in K PROVE m + 1 \in K
  <2>1. PICK g : NamesUpTo(g, m)
    OBVIOUS
  <2> DEFINE h == [i \in 1..((m + 1) + 1) |->
                     IF i <= m + 1 THEN g[i] ELSE AfterRule(i - 1, g[i - 1])]
  <2>2. ASSUME NEW i \in 1..((m + 1) + 1)
        PROVE  h[i] = IF i = 1 THEN NoNames ELSE AfterRule(i - 1, h[i - 1])
    <3>1. i = 1 \/ i - 1 \in 1..(m + 1)
      OBVIOUS
    <3>2. i <= m + 1 => g[i] = IF i = 1 THEN NoNames ELSE AfterRule(i - 1, g[i - 1])
      BY <2>1 DEF NamesUpTo
    <3>3. i # 1 => h[i - 1] = g[i - 1]
      BY <3>1
    <3>4. i = 1 => i <= m + 1
      OBVIOUS
    <3> QED
      BY <3>2, <3>3, <3>4
  <2>3. h = [i \in 1..((m + 1) + 1) |-> h[i]]
    OBVIOUS
  <2> HIDE DEF h
  <2>4. NamesUpTo(h, m + 1)
    BY <2>2, <2>3 DEF NamesUpTo
  <2> QED
    BY <2>4
<1> HIDE DEF K
<1>3. K \subseteq Nat
  BY DEF K
<1>4. n \in K
  BY <1>1, <1>2, <1>3, Numbers
<1> QED
  BY <1>4 DEF K

(* So Evaluated is such a function. *)
LEMMA EvaluatedNames ==
  ASSUME rules \in Lists
  PROVE  NamesUpTo(Evaluated, Len(rules))
<1> DEFINE g == CHOOSE g : NamesUpTo(g, Len(rules))
<1>0. Len(rules) \in Nat
  BY ListsAssumption
<1>1. Evaluated = g
  BY DEF Evaluated, NamesUpTo, AfterRule, NoNames
<1>2. NamesUpTo(g, Len(rules))
  BY <1>0, NamesExist
<1> QED
  BY <1>1, <1>2

(* The names a rule can refer to. *)
Names == Tags \cup {"anon"}

(* Rule i matches, if what it refers to is what the listed order gives. *)
Holds(i) == Bound(rules[i]) => Matches(rules[i], ValueOf(rules[i].bind, i))

(* Every name stands for a rule or for none. *)
LEMMA EvaluatedType ==
  ASSUME rules \in Lists, NEW i \in 1..(Len(rules) + 1)
  PROVE  Evaluated[i] \in [Names -> Nat]
<1>0. Len(rules) \in Nat
  BY ListsAssumption
<1> DEFINE K == {m \in Nat : m <= Len(rules) => Evaluated[m + 1] \in [Names -> Nat]}
<1>1. \A j \in 1..(Len(rules) + 1) :
        Evaluated[j] = IF j = 1 THEN NoNames ELSE AfterRule(j - 1, Evaluated[j - 1])
  BY EvaluatedNames DEF NamesUpTo
<1>2. 0 \in K
  <2>1. Evaluated[0 + 1] = NoNames
    BY <1>0, <1>1
  <2>2. NoNames \in [Names -> Nat]
    BY DEF NoNames, Names
  <2> QED
    BY <2>1, <2>2
<1>3. ASSUME NEW m \in K PROVE m + 1 \in K
  <2> SUFFICES ASSUME m + 1 <= Len(rules) PROVE Evaluated[(m + 1) + 1] \in [Names -> Nat]
    OBVIOUS
  <2>1. Evaluated[m + 1] \in [Names -> Nat] /\ m + 1 \in Nat
    BY <1>0
  <2>2. Evaluated[(m + 1) + 1] = AfterRule(m + 1, Evaluated[m + 1])
    <3>1. (m + 1) + 1 \in 1..(Len(rules) + 1) /\ (m + 1) + 1 # 1 /\ ((m + 1) + 1) - 1 = m + 1
      BY <1>0
    <3> QED
      BY <1>1, <3>1
  <2>3. \A e \in [Names -> Nat], j \in Nat : AfterRule(j, e) \in [Names -> Nat]
    BY DEF AfterRule, Names
  <2> QED
    BY <2>1, <2>2, <2>3
<1>4. K \subseteq Nat
  OBVIOUS
<1> HIDE DEF K
<1>5. \A m \in Nat : m \in K
  BY <1>2, <1>3, <1>4, Numbers
<1>6. i - 1 \in Nat /\ i - 1 <= Len(rules) /\ (i - 1) + 1 = i
  BY <1>0
<1>7. i - 1 \in K
  BY <1>5, <1>6
<1> QED
  BY <1>6, <1>7 DEF K

(* The names before the first rule, and what each rule makes of them. *)
LEMMA EvaluatedNext ==
  ASSUME rules \in Lists
  PROVE  /\ \A t \in Names : Evaluated[1][t] = 0
         /\ \A i \in 1..Len(rules), t \in Names :
              Evaluated[i + 1][t] =
                IF rules[i].action = "evaluate" /\ Holds(i) /\ rules[i].tag = t
                THEN IF rules[i].server \in Servers THEN i
                     ELSE IF t = "anon" THEN 0 ELSE Evaluated[i][t]
                ELSE Evaluated[i][t]
<1>0. Len(rules) \in Nat
  BY ListsAssumption
<1>1. \A j \in 1..(Len(rules) + 1) :
        Evaluated[j] = IF j = 1 THEN NoNames ELSE AfterRule(j - 1, Evaluated[j - 1])
  BY EvaluatedNames DEF NamesUpTo
<1>2. \A t \in Names : Evaluated[1][t] = 0
  BY <1>0, <1>1 DEF NoNames, Names
<1>3. ASSUME NEW i \in 1..Len(rules), NEW t \in Names
      PROVE  Evaluated[i + 1][t] =
                IF rules[i].action = "evaluate" /\ Holds(i) /\ rules[i].tag = t
                THEN IF rules[i].server \in Servers THEN i
                     ELSE IF t = "anon" THEN 0 ELSE Evaluated[i][t]
                ELSE Evaluated[i][t]
  <2>1. i + 1 \in 1..(Len(rules) + 1) /\ i + 1 # 1 /\ (i + 1) - 1 = i /\ i \in 1..(Len(rules) + 1)
    BY <1>0
  <2>2. Evaluated[i + 1] = AfterRule(i, Evaluated[i])
    BY <1>1, <2>1
  <2>3. Evaluated[i] \in [Names -> Nat]
    BY <2>1, EvaluatedType
  <2> QED
    BY <2>2, <2>3 DEF AfterRule, Holds, ValueOf
<1> QED
  BY <1>2, <1>3

(* The first rule from k on that ends the query and is no race. *)
IsFirst(k, t) ==
  /\ t <= Len(rules) => ~rules[t].race /\ Ends(t)
  /\ \A j \in k..(t - 1) : ~(~rules[j].race /\ Ends(j))

(* FirstFrom for that. *)
FirstEnd(k) == CHOOSE t \in k..(Len(rules) + 1) : IsFirst(k, t)

(* There is one. *)
LEMMA FirstExists ==
  ASSUME Len(rules) \in Nat, NEW k \in 1..(Len(rules) + 1)
  PROVE  FirstEnd(k) \in k..(Len(rules) + 1) /\ IsFirst(k, FirstEnd(k))
<1> DEFINE P(i) == ~rules[i].race /\ Ends(i)
           S == {i \in k..(Len(rules) + 1) : i <= Len(rules) => P(i)}
<1>1. Len(rules) + 1 \in S
  OBVIOUS
<1>2. S \subseteq Nat
  OBVIOUS
<1>3. PICK t \in S : \A j \in S : t <= j
  <2> HIDE DEF S
  <2> QED
    BY <1>1, <1>2, Least
<1>4. ASSUME NEW j \in k..(t - 1) PROVE ~P(j)
  <2>1. j \in k..(Len(rules) + 1) /\ ~(t <= j)
    BY <1>2, <1>3
  <2> HIDE DEF P
  <2> QED
    BY <1>3, <2>1
<1>5. IsFirst(k, t) /\ t \in k..(Len(rules) + 1)
  BY <1>3, <1>4 DEF IsFirst
<1> QED
  BY <1>5, Zenon DEF FirstEnd

(* What From makes of what follows the rule that is found. *)
FromRule(k, rest) ==
  LET t == FirstEnd(k)
      races == {i \in k..(t - 1) : rules[i].race /\ Ends(i)}
  IN IF races # {} THEN races
     ELSE IF t <= Len(rules) /\ rules[t].action = "route" /\ rules[t].fallback
             /\ answer[rules[t].server] # "ok"
          THEN rest \cup {i \in {t} : SentAhead(i)}
     ELSE {t}

(* What is promised from each of the rules from m on. *)
FromOn(g, m) ==
  g = [k \in m..(Len(rules) + 1) |-> FromRule(k, g[FirstEnd(k) + 1])]

(* The recursion of Promised goes up, and ends after the last rule. *)
LEMMA FromExists ==
  ASSUME Len(rules) \in Nat
  PROVE  \E g : FromOn(g, 1)
<1> DEFINE n == Len(rules)
           K == {m \in Nat : m <= n => \E g : FromOn(g, n + 1 - m)}
<1>1. ASSUME NEW k \in 1..(n + 1), FirstEnd(k) = n + 1, NEW x, NEW y
      PROVE  FromRule(k, x) = FromRule(k, y)
  BY <1>1 DEF FromRule
<1>2. 0 \in K
  <2> DEFINE g == [k \in (n + 1 - 0)..(n + 1) |-> FromRule(k, {})]
  <2>1. ASSUME NEW k \in (n + 1 - 0)..(n + 1)
        PROVE  g[k] = FromRule(k, g[FirstEnd(k) + 1])
    <3>1. FirstEnd(k) \in k..(n + 1) /\ k = n + 1
      BY FirstExists
    <3>2. FirstEnd(k) = n + 1 /\ k \in 1..(n + 1)
      BY <3>1
    <3> HIDE DEF n
    <3> QED
      BY <1>1, <3>2
  <2>2. g = [k \in (n + 1 - 0)..(n + 1) |-> g[k]]
    OBVIOUS
  <2> HIDE DEF g
  <2>3. FromOn(g, n + 1 - 0)
    BY <2>1, <2>2 DEF FromOn
  <2> QED
    BY <2>3
<1>3. ASSUME NEW m \in K PROVE m + 1 \in K
  <2> SUFFICES ASSUME m + 1 <= n PROVE \E g : FromOn(g, n + 1 - (m + 1))
    OBVIOUS
  <2>1. PICK g : FromOn(g, n + 1 - m)
    OBVIOUS
  <2> DEFINE lo == n + 1 - (m + 1)
             h == [k \in lo..(n + 1) |->
                     IF k = lo THEN FromRule(k, g[FirstEnd(k) + 1]) ELSE g[k]]
  <2>2. lo \in Nat /\ lo >= 1 /\ n + 1 - m = lo + 1
    OBVIOUS
  <2>3. ASSUME NEW k \in lo..(n + 1)
        PROVE  h[k] = FromRule(k, h[FirstEnd(k) + 1])
    <3>1. k \in 1..(n + 1) /\ FirstEnd(k) \in k..(n + 1)
      BY <2>2, FirstExists
    <3>2. k # lo => g[k] = FromRule(k, g[FirstEnd(k) + 1])
      <4>1. k # lo => k \in (n + 1 - m)..(n + 1)
        BY <2>2
      <4> QED
        BY <2>1, <4>1 DEF FromOn
    <3>3. h[k] = FromRule(k, g[FirstEnd(k) + 1])
      BY <3>2
    <3>4. CASE FirstEnd(k) = n + 1
      BY <1>1, <3>1, <3>3, <3>4
    <3>5. CASE FirstEnd(k) # n + 1
      <4>1. FirstEnd(k) + 1 \in lo..(n + 1) /\ FirstEnd(k) + 1 # lo
        BY <2>2, <3>1, <3>5
      <4>2. h[FirstEnd(k) + 1] = g[FirstEnd(k) + 1]
        BY <4>1
      <4> QED
        BY <3>3, <4>2
    <3> QED
      BY <3>4, <3>5
  <2>4. h = [k \in lo..(n + 1) |-> h[k]]
    OBVIOUS
  <2> HIDE DEF h
  <2>5. FromOn(h, lo)
    BY <2>3, <2>4 DEF FromOn
  <2> QED
    BY <2>5
<1>4. K \subseteq Nat
  OBVIOUS
<1> HIDE DEF K
<1>5. n \in K
  BY <1>2, <1>3, <1>4, Numbers
<1>6. PICK g : FromOn(g, n + 1 - n)
  BY <1>5 DEF K
<1>7. n + 1 - n = 1
  OBVIOUS
<1> QED
  BY <1>6, <1>7

(* So From is what it says. *)
LEMMA FromMeaning ==
  ASSUME Len(rules) \in Nat
  PROVE  \A k \in 1..(Len(rules) + 1) : From[k] = FromRule(k, From[FirstEnd(k) + 1])
<1>1. From = CHOOSE g : FromOn(g, 1)
  BY DEF From, Falls, FromOn, FromRule, FirstFrom, FirstEnd, IsFirst
<1>2. FromOn(From, 1)
  BY <1>1, FromExists, Zenon
<1> QED
  BY <1>2 DEF FromOn

(* If the rules from k to i that end the query are races, a race among them  *)
(* is one of its results;                                                    *)
LEMMA RaceWins ==
  ASSUME Len(rules) \in Nat, NEW k \in 1..(Len(rules) + 1), NEW m \in k..(Len(rules) + 1),
         \A j \in k..(m - 1) : Ends(j) => rules[j].race,
         NEW i \in k..(m - 1), rules[i].race, Ends(i)
  PROVE  i \in From[k]
<1> DEFINE t == FirstEnd(k)
<1>1. t \in k..(Len(rules) + 1) /\ IsFirst(k, t)
  BY FirstExists
<1>2. t >= m
  BY <1>1 DEF IsFirst
<1>3. i \in {j \in k..(t - 1) : rules[j].race /\ Ends(j)}
  BY <1>1, <1>2
<1>4. From[k] = FromRule(k, From[t + 1])
  BY FromMeaning
<1> HIDE DEF t
<1> QED
  BY <1>3, <1>4 DEF FromRule, t

(* if none of them ends it, the next one is, or what follows it. *)
LEMMA FirstWins ==
  ASSUME Len(rules) \in Nat, NEW k \in 1..(Len(rules) + 1), NEW m \in k..(Len(rules) + 1),
         \A j \in k..(m - 1) : ~Ends(j), m <= Len(rules) => ~rules[m].race /\ Ends(m)
  PROVE  From[k] = IF m <= Len(rules) /\ rules[m].action = "route" /\ rules[m].fallback
                      /\ answer[rules[m].server] # "ok"
                   THEN From[m + 1] \cup {i \in {m} : SentAhead(i)}
                   ELSE {m}
<1>1. FirstEnd(k) \in k..(Len(rules) + 1) /\ IsFirst(k, FirstEnd(k))
  BY FirstExists
<1>2. FirstEnd(k) = m
  <2>1. ~(FirstEnd(k) < m)
    BY <1>1 DEF IsFirst
  <2>2. ~(m < FirstEnd(k))
    BY <1>1 DEF IsFirst
  <2> QED
    BY <1>1, <2>1, <2>2
<1>3. {j \in k..(m - 1) : rules[j].race /\ Ends(j)} = {}
  OBVIOUS
<1>4. From[k] = FromRule(k, From[m + 1])
  BY <1>2, FromMeaning
<1> QED
  BY <1>2, <1>3, <1>4 DEF FromRule

(* The listed order does not change. *)
LEMMA OrderFixed ==
  ASSUME UNCHANGED config
  PROVE  /\ Evaluated' = Evaluated /\ From' = From /\ Promised' = Promised
         /\ \A i : (Ends(i)' <=> Ends(i)) /\ (SentAhead(i)' <=> SentAhead(i))
                   /\ Decision(i)' = Decision(i)
         /\ \A t, i : ValueOf(t, i)' = ValueOf(t, i)
         /\ (LegacyMode(rules)' <=> LegacyMode(rules)) /\ (Accepted(rules)' <=> Accepted(rules))
<1>1. rules' = rules /\ answer' = answer /\ method' = method
  BY DEF config
<1>2. Evaluated' = Evaluated
  BY <1>1 DEF Evaluated, Bound, Matches, Answered
<1>3. From' = From
  BY <1>1, <1>2 DEF From, Falls, FirstFrom, SentAhead, Ends, ValueOf, Bound, Matches, Answered, Usable
<1>4. Promised' = Promised
  BY <1>1, <1>2 DEF Promised, Falls, FirstFrom, SentAhead, Ends, ValueOf, Bound, Matches, Answered, Usable
<1>5. \A t, i : ValueOf(t, i)' = ValueOf(t, i)
  BY <1>1, <1>2 DEF ValueOf, Answered
<1>6. \A i : (Ends(i)' <=> Ends(i)) /\ (SentAhead(i)' <=> SentAhead(i))
  BY <1>1, <1>5 DEF Ends, SentAhead, Bound, Matches, Usable
<1>7. \A i : Decision(i)' = Decision(i)
  BY <1>1, <1>5 DEF Decision, ResponseOr, Bound
<1>8. LegacyMode(rules)' <=> LegacyMode(rules)
  BY <1>1 DEF LegacyMode, Has, DisablesLegacy, Bound
<1>9. Accepted(rules)' <=> Accepted(rules)
  BY <1>1 DEF Accepted, LegacyMode, Has, DisablesLegacy, Bound, RefersBack, Valid
<1> QED
  BY <1>2, <1>3, <1>4, <1>5, <1>6, <1>7, <1>8, <1>9

(* What a rule refers to is evaluated before it and not again after it. *)
LEMMA AcceptedList ==
  ASSUME rules \in Lists, Accepted(rules), ~LegacyMode(rules)
  PROVE  /\ Len(rules) \in Nat
         /\ \A i \in 1..Len(rules) :
              /\ Valid(rules[i])
              /\ Bound(rules[i]) => rules[i].bind \in Names
              /\ rules[i].action = "evaluate" => rules[i].tag \in Names
              /\ \A j \in 1..(i - 1) :
                   rules[i].action = "evaluate" /\ rules[i].tag # "anon" =>
                     /\ Bound(rules[j]) => rules[j].bind # rules[i].tag
                     /\ rules[j].action = "evaluate" => rules[j].tag # rules[i].tag
<1>1. Len(rules) \in Nat /\ DOMAIN rules = 1..Len(rules)
  BY ListsAssumption
<1>2. \A i \in 1..Len(rules) : RefersBack(rules, i) /\ Valid(rules[i])
  BY <1>1 DEF Accepted
<1>3. \A i \in 1..Len(rules) : rules[i].action = "evaluate" => rules[i].tag \in Names
  BY ListsAssumption DEF Names
<1>4. \A i \in 1..Len(rules) : Bound(rules[i]) =>
        \E j \in 1..(i - 1) : rules[j].action = "evaluate" /\ rules[j].tag = rules[i].bind
  BY <1>2 DEF RefersBack
<1>5. \A i \in 1..Len(rules) : rules[i].action = "evaluate" /\ rules[i].tag # "anon" =>
        ~\E j \in 1..(i - 1) : rules[j].action = "evaluate" /\ rules[j].tag = rules[i].tag
  BY <1>2 DEF RefersBack
<1>6. ASSUME NEW i \in 1..Len(rules), Bound(rules[i]) PROVE rules[i].bind \in Names
  <2>1. PICK j \in 1..(i - 1) : rules[j].action = "evaluate" /\ rules[j].tag = rules[i].bind
    BY <1>4, <1>6
  <2>2. j \in 1..Len(rules)
    BY <1>1
  <2> QED
    BY <1>3, <2>1, <2>2
<1>7. ASSUME NEW i \in 1..Len(rules), NEW j \in 1..(i - 1),
             rules[i].action = "evaluate", rules[i].tag # "anon"
      PROVE  /\ Bound(rules[j]) => rules[j].bind # rules[i].tag
             /\ rules[j].action = "evaluate" => rules[j].tag # rules[i].tag
  <2>1. rules[j].action = "evaluate" => rules[j].tag # rules[i].tag
    BY <1>5, <1>7
  <2>2. ASSUME Bound(rules[j]), rules[j].bind = rules[i].tag PROVE FALSE
    <3>1. j \in 1..Len(rules)
      BY <1>1
    <3>2. PICK m \in 1..(j - 1) : rules[m].action = "evaluate" /\ rules[m].tag = rules[j].bind
      BY <1>4, <2>2, <3>1
    <3>3. m \in 1..(i - 1)
      BY <1>1
    <3> QED
      BY <1>5, <1>7, <2>2, <3>2, <3>3
  <2> QED
    BY <2>1, <2>2
<1> QED
  BY <1>1, <1>2, <1>3, <1>6, <1>7

(* What a future that has its answer shows. *)
LEMMA ViewTrue ==
  ASSUME WalkInv, FutureRules, FuturesTrue, susp.kind # "commit" \/ pc # "asking",
         NEW f \in 0..Len(futures), ~Pending(f)
  PROVE  View(f) = IF RuleOf(f) = 0 THEN Nil ELSE Answered(rules[RuleOf(f)].server)
<1>1. Len(futures) \in Nat
  BY Typed
<1>2. CASE f = 0
  BY <1>2 DEF View, RuleOf
<1>3. CASE f # 0
  <2>1. f \in 1..Len(futures) /\ Resolved(f)
    BY <1>1, <1>3 DEF Pending
  <2>2. Passed(futures[f], rules, idx)
    BY <2>1 DEF WalkInv, Launched
  <2>3. futures[f].rule # 0
    BY <2>2 DEF Passed
  <2>4. futures[f].out = answer[futures[f].server] /\ futures[f].server = rules[futures[f].rule].server
    BY <2>1 DEF FutureRules, FuturesTrue
  <2> QED
    BY <1>3, <2>1, <2>3, <2>4 DEF View, RuleOf, Answered
<1> QED
  BY <1>2, <1>3

(* So a rule that is not judged too early sees the answer of the rule it     *)
(* refers to.                                                                *)
LEMMA ResponseTrue ==
  ASSUME WalkInv, FutureRules, FuturesTrue, susp.kind # "commit" \/ pc # "asking",
         NEW i, NEW a, LET f == Referred(rules[i], a)
                       IN /\ f \in 0..Len(futures) /\ ~Pending(f)
                          /\ Evaluated[i][rules[i].bind] = RuleOf(f),
         ~Stale(rules[i], a)
  PROVE  ResponseFor(rules[i], a) = ValueOf(rules[i].bind, i)
<1> DEFINE f == Referred(rules[i], a)
<1>1. View(f) = IF RuleOf(f) = 0 THEN Nil ELSE Answered(rules[RuleOf(f)].server)
  BY ViewTrue
<1>2. View(f) = ValueOf(rules[i].bind, i)
  BY <1>1 DEF ValueOf
<1>3. ResponseFor(rules[i], a) = View(f)
  BY DEF ResponseFor, Stale
<1> QED
  BY <1>2, <1>3

(* What the rule at hand refers to. *)
LEMMA NamesHere ==
  ASSUME WalkInv, NamesTrue, NEW t \in Names
  PROVE  LET f == IF t = "anon" THEN anon ELSE NamedFuture(t)
         IN f \in 0..Len(futures) /\ Evaluated[idx][t] = RuleOf(f)
<1>1. Len(futures) \in Nat /\ DOMAIN futures = 1..Len(futures)
  BY Typed
<1>2. NamedFuture(t) \in 0..Len(futures)
  <2>1. CASE {f \in DOMAIN futures : futures[f].tag = t} = {}
    BY <1>1, <2>1 DEF NamedFuture
  <2>2. CASE {f \in DOMAIN futures : futures[f].tag = t} # {}
    <3>1. NamedFuture(t) \in {f \in DOMAIN futures : futures[f].tag = t}
      BY <2>2 DEF NamedFuture
    <3> QED
      BY <1>1, <3>1
  <2> QED
    BY <2>1, <2>2
<1> QED
  BY <1>2 DEF NamesTrue, Names

(* A race that matches is one of the results; *)
LEMMA ArmedWins ==
  ASSUME WalkInv, idx <= Len(rules) + 1, NEW k \in 1..idx, Trail(k),
         NEW a \in 1..Len(armed), Ends(armed[a].rule)
  PROVE  armed[a].rule \in Promised
<1>1. Len(rules) \in Nat /\ idx \in Nat /\ k \in 1..(Len(rules) + 1) /\ idx \in k..(Len(rules) + 1)
  BY Typed
<1>2. /\ From[k] \subseteq Promised /\ armed[a].rule \in k..(idx - 1)
      /\ \A j \in k..(idx - 1) : Ends(j) => rules[j].race
  BY DEF Trail
<1>3. armed[a].rule \in From[k]
  BY <1>1, <1>2, RaceWins
<1> QED
  BY <1>2, <1>3

(* without one, the rule at hand, or what follows it. *)
LEMMA HereWins ==
  ASSUME WalkInv, idx <= Len(rules) + 1, NEW k \in 1..idx, Trail(k), armed = <<>>,
         idx <= Len(rules) => ~rules[idx].race /\ Ends(idx)
  PROVE  (IF idx <= Len(rules) /\ rules[idx].action = "route" /\ rules[idx].fallback
             /\ answer[rules[idx].server] # "ok"
          THEN From[idx + 1] \cup {i \in {idx} : SentAhead(i)}
          ELSE {idx}) \subseteq Promised
<1>1. Len(rules) \in Nat /\ idx \in Nat /\ k \in 1..(Len(rules) + 1) /\ idx \in k..(Len(rules) + 1)
  BY Typed
<1>2. From[k] \subseteq Promised /\ \A j \in k..(idx - 1) : ~Ends(j)
  BY DEF Trail
<1>3. From[k] = IF idx <= Len(rules) /\ rules[idx].action = "route" /\ rules[idx].fallback
                   /\ answer[rules[idx].server] # "ok"
                THEN From[idx + 1] \cup {i \in {idx} : SentAhead(i)}
                ELSE {idx}
  BY <1>1, <1>2, FirstWins
<1> QED
  BY <1>2, <1>3

(* A step of a query under way. *)
Scene ==
  /\ WalkInv /\ WalkInv' /\ Accepted(rules) /\ UNCHANGED config
  /\ Undisturbed /\ Undisturbed' /\ InOrder /\ pc # "done"

(* What holds in such a step. *)
LEMMA SceneFacts ==
  ASSUME Scene
  PROVE  /\ WalkInv /\ rules' = rules /\ answer' = answer /\ method' = method
         /\ rules \in Lists /\ Len(rules) \in Nat /\ idx \in Nat \ {0} /\ idx <= Len(rules) + 1
         /\ FutureRules /\ FuturesTrue /\ Going /\ Chosen /\ pc \notin {"legacy", "done"}
         /\ Evaluated' = Evaluated /\ From' = From /\ Promised' = Promised
         /\ \A i : (Ends(i)' <=> Ends(i)) /\ (SentAhead(i)' <=> SentAhead(i))
                   /\ Decision(i)' = Decision(i)
         /\ \A t, i : ValueOf(t, i)' = ValueOf(t, i)
<1>1. WalkInv /\ UNCHANGED config /\ InOrder /\ pc # "done"
  BY DEF Scene
<1>2. rules' = rules /\ answer' = answer /\ method' = method
  BY <1>1 DEF config
<1>3. rules \in Lists /\ Len(rules) \in Nat /\ idx \in Nat \ {0}
  BY <1>1, Typed
<1>4. idx <= Len(rules) + 1 /\ FutureRules /\ FuturesTrue /\ Going /\ Chosen /\ pc # "legacy"
  BY <1>1 DEF InOrder
<1> QED
  BY <1>1, <1>2, <1>3, <1>4, OrderFixed

(* The query returns with one of the promised results. *)
LEMMA ReturnInOrder ==
  ASSUME Scene, NEW i \in Promised, NEW out, Return(i, out), Decision(i).out = out
  PROVE  InOrder'
<1>1. pc' = "done" /\ result' = [rule |-> i, out |-> out]
  BY DEF Return
<1>2. result' = Decision(i)
  BY <1>1 DEF Decision
<1> QED
  BY <1>1, <1>2, SceneFacts DEF InOrder

(* A step that launches nothing: the names stand for the same futures. *)
LEMMA SameStandIns ==
  ASSUME WalkInv, SameQueries
  PROVE  /\ \A t : NamedFuture(t)' = NamedFuture(t)
         /\ \A r, a : Referred(r, a)' = Referred(r, a)
         /\ \A f \in 0..Len(futures) : RuleOf(f)' = RuleOf(f)
<1>1. /\ Len(futures) \in Nat /\ DOMAIN futures = 1..Len(futures)
      /\ DOMAIN futures' = 1..Len(futures)
      /\ \A f \in 1..Len(futures) :
           futures'[f].rule = futures[f].rule /\ futures'[f].tag = futures[f].tag
  BY Typed DEF SameQueries
<1>2. ASSUME NEW t PROVE NamedFuture(t)' = NamedFuture(t)
  <2> DEFINE S == {f \in DOMAIN futures : futures[f].tag = t}
  <2>1. S' = S
    BY <1>1
  <2>2. /\ NamedFuture(t) = IF S = {} THEN 0 ELSE CHOOSE f \in S : TRUE
        /\ NamedFuture(t)' = IF S' = {} THEN 0 ELSE CHOOSE f \in S' : TRUE
    BY DEF NamedFuture
  <2> HIDE DEF S
  <2> QED
    BY <2>1, <2>2
<1>3. \A r, a : Referred(r, a)' = Referred(r, a)
  BY <1>2 DEF Referred
<1>4. \A f \in 0..Len(futures) : RuleOf(f)' = RuleOf(f)
  BY <1>1 DEF RuleOf
<1> QED
  BY <1>2, <1>3, <1>4

(* What is known of them stays, and no answer is taken back. *)
LEMMA SameNames ==
  ASSUME Scene, SameQueries, susp.kind # "commit",
         \A f \in 1..Len(futures) : Resolved(f) => Resolved(f)'
  PROVE  /\ UNCHANGED <<idx, anon>> => NamesTrue'
         /\ UNCHANGED armed => ArmedTrue'
<1>1. /\ WalkInv /\ NamesTrue /\ ArmedTrue /\ Len(futures') = Len(futures)
      /\ Len(futures) \in Nat /\ rules' = rules /\ Evaluated' = Evaluated
  BY SceneFacts, Typed DEF Going, SameQueries
<1>2. /\ \A t : NamedFuture(t)' = NamedFuture(t)
      /\ \A r, a : Referred(r, a)' = Referred(r, a)
      /\ \A f \in 0..Len(futures) : RuleOf(f)' = RuleOf(f)
  BY <1>1, SameStandIns
<1>3. \A t \in Tags : NamedFuture(t) \in 0..Len(futures)
  <2> SUFFICES ASSUME NEW t \in Tags PROVE NamedFuture(t) \in 0..Len(futures)
    OBVIOUS
  <2>1. t \in Names /\ t # "anon"
    BY ListsAssumption DEF Names
  <2> QED
    BY <1>1, <2>1, NamesHere
<1>4. UNCHANGED <<idx, anon>> => NamesTrue'
  BY <1>1, <1>2, <1>3 DEF NamesTrue
<1>5. \A f \in 0..Len(futures) : ~Pending(f) => ~Pending(f)'
  BY <1>1 DEF Pending
<1>6. UNCHANGED armed => ArmedTrue'
  BY <1>1, <1>2, <1>5 DEF ArmedTrue
<1> QED
  BY <1>4, <1>6

(* Nothing that is known changes. *)
LEMMA PlaceInOrder ==
  ASSUME Scene, susp.kind # "commit", susp'.kind # "commit", pc' \notin {"done", "legacy"},
         UNCHANGED <<idx, futures, anon, armed>>,
         susp'.kind = "pending" => susp' = susp \/ PendingTrue',
         ArmedNow', ActTrue'
  PROVE  InOrder'
<1>1. Len(futures') = Len(futures) /\ Len(armed') = Len(armed)
  OBVIOUS
<1>2. FutureRules'
  BY SceneFacts DEF FutureRules
<1>3. FuturesTrue'
  BY SceneFacts DEF FuturesTrue, Resolved
<1>4. SameQueries /\ \A f \in 1..Len(futures) : Resolved(f) => Resolved(f)'
  BY SceneFacts, SameFutures DEF Resolved
<1>5. NamesTrue' /\ ArmedTrue'
  BY <1>4, SameNames
<1>6. PendingTrue'
  BY SceneFacts DEF Going, PendingTrue, Rule
<1>7. ASSUME NEW k \in 1..idx, Trail(k) PROVE Trail(k)'
  BY <1>7, SceneFacts DEF Trail
<1>8. (\E k \in 1..idx : Trail(k))'
  BY <1>7, SceneFacts DEF Going
<1>9. Going' /\ Chosen'
  BY <1>5, <1>6, <1>8 DEF Going, Chosen
<1> QED
  BY <1>2, <1>3, <1>9, SceneFacts DEF InOrder

(* The same on the way to asking, once it is decided. *)
LEMMA CommitInOrder ==
  ASSUME Scene, UNCHANGED <<idx, futures>>, pc' \notin {"done", "legacy", "asking"},
         armed' = <<>>, susp'.kind = "commit", susp'.rule \in Promised,
         susp'.rule \in 1..(Len(rules) + 1),
         susp'.rule <= Len(rules) => rules[susp'.rule].action = "route",
         susp'.future # 0 =>
           susp'.future \in 1..Len(futures) /\ futures[susp'.future].rule = susp'.rule,
         susp.kind = "commit" => pc # "asking"
  PROVE  InOrder'
<1>1. FutureRules'
  BY SceneFacts DEF FutureRules
<1>2. FuturesTrue'
  BY SceneFacts DEF FuturesTrue, Resolved
<1>3. Going' /\ Chosen'
  BY SceneFacts DEF Going, Chosen
<1> QED
  BY <1>1, <1>2, <1>3, SceneFacts DEF InOrder

(* The walk goes on to the next rule. *)
LEMMA NextInOrder ==
  ASSUME Scene, susp.kind \notin AskKinds, pc # "sweep", idx <= Len(rules), ~Ends(idx),
         NextRule, UNCHANGED <<susp, armed>>,
         FutureRules', FuturesTrue', NamesTrue', ArmedTrue'
  PROVE  InOrder'
<1>0. susp.kind # "commit" /\ susp.kind # "pending"
  BY DEF AskKinds
<1>1. pc' = "walk" /\ idx' = idx + 1 /\ idx \in Nat /\ idx' <= Len(rules) + 1
  BY SceneFacts DEF NextRule
<1>2. ArmedNow' /\ ActTrue' /\ PendingTrue' /\ Chosen'
  BY <1>0, <1>1, SceneFacts DEF Going, ArmedNow, ActTrue, PendingTrue, Chosen
<1>3. PICK k \in 1..idx : Trail(k)
  BY <1>0, SceneFacts DEF Going
<1>4. \A j \in k..(idx' - 1) : j \in k..(idx - 1) \/ j = idx
  BY <1>1
<1>5. \A j \in k..(idx - 1) : j \in k..(idx' - 1)
  BY <1>1
<1>6. k \in 1..idx'
  BY <1>1
<1>7. Trail(k)'
  BY <1>3, <1>4, <1>5, <1>6, SceneFacts DEF Trail
<1>8. Going'
  BY <1>2, <1>6, <1>7 DEF Going
<1> QED
  BY <1>1, <1>2, <1>8, SceneFacts DEF InOrder

(* A rule launches a query. *)
LEMMA LaunchInOrder ==
  ASSUME Scene, NEW tag, Launch(tag), idx \in 1..Len(rules), UNCHANGED armed,
         susp.kind # "commit", susp'.kind # "commit",
         tag = "terminal" => SentAhead(idx), tag # "terminal" => tag = Rule.tag,
         \A a \in 1..Len(armed) :
           LET r == rules[armed[a].rule] IN r.bind = "anon" \/ r.bind # tag
  PROVE  /\ FutureRules' /\ FuturesTrue' /\ ArmedTrue'
         /\ Len(futures') = Len(futures) + 1 /\ futures'[Len(futures) + 1].rule = idx
         /\ \A f \in 0..Len(futures) : RuleOf(f)' = RuleOf(f)
         /\ \A t : t # tag => NamedFuture(t)' = NamedFuture(t)
         /\ (\A f \in 1..Len(futures) : futures[f].tag # tag) =>
              NamedFuture(tag)' = Len(futures) + 1
<1> DEFINE n == [rule |-> idx, tag |-> tag, server |-> Rule.server,
                 state |-> "flying", cancelled |-> ctxDone, out |-> "err"]
           k == Len(futures) + 1
<1>1. /\ WalkInv /\ Len(futures) \in Nat /\ futures \in Seq(Future)
      /\ DOMAIN futures = 1..Len(futures) /\ ctxDone = FALSE
      /\ armed \in Seq(ArmedRules) /\ Len(armed) \in Nat
  BY SceneFacts, Typed DEF Scene, Undisturbed
<1>2. futures' = Append(futures, n)
  BY DEF Launch
<1>3. /\ n.rule = idx /\ n.tag = tag /\ n.server = rules[idx].server /\ n.state = "flying"
      /\ n.cancelled = FALSE
  BY <1>1 DEF Rule
<1> HIDE DEF n
<1>4. /\ Len(futures') = k /\ DOMAIN futures' = 1..k /\ futures'[k] = n
      /\ \A f \in 1..Len(futures) : futures'[f] = futures[f]
  BY <1>1, <1>2
<1>5. /\ \A f \in 1..k : f \in 1..Len(futures) \/ f = k
      /\ \A f \in 1..Len(futures) : f \in 1..k /\ f # k
      /\ k \in 1..k /\ k # 0
  BY <1>1
<1> HIDE DEF k
<1>6. FutureRules'
  BY <1>3, <1>4, <1>5, SceneFacts DEF FutureRules, Rule
<1>7. FuturesTrue'
  BY <1>3, <1>4, <1>5, SceneFacts DEF FuturesTrue, Resolved
<1>8. futures'[k].rule = idx
  BY <1>3, <1>4
<1>9. \A f \in 0..Len(futures) : RuleOf(f)' = RuleOf(f)
  <2>1. \A f \in 0..Len(futures) : f = 0 \/ f \in 1..Len(futures)
    BY <1>1
  <2> QED
    BY <1>4, <2>1 DEF RuleOf
<1>10. ASSUME NEW t, t # tag PROVE NamedFuture(t)' = NamedFuture(t)
  <2> DEFINE S == {f \in DOMAIN futures : futures[f].tag = t}
  <2>1. S' = S
    BY <1>1, <1>3, <1>4, <1>5, <1>10
  <2>2. /\ NamedFuture(t) = IF S = {} THEN 0 ELSE CHOOSE f \in S : TRUE
        /\ NamedFuture(t)' = IF S' = {} THEN 0 ELSE CHOOSE f \in S' : TRUE
    BY DEF NamedFuture
  <2> HIDE DEF S
  <2> QED
    BY <2>1, <2>2
<1>11. ASSUME \A f \in 1..Len(futures) : futures[f].tag # tag
       PROVE  NamedFuture(tag)' = k
  <2> DEFINE S == {f \in DOMAIN futures : futures[f].tag = tag}
  <2>1. S' = {k}
    BY <1>3, <1>4, <1>5, <1>11
  <2>2. NamedFuture(tag)' = IF S' = {} THEN 0 ELSE CHOOSE f \in S' : TRUE
    BY DEF NamedFuture
  <2> HIDE DEF S
  <2> QED
    BY <2>1, <2>2
<1>12. ArmedTrue'
  <2> SUFFICES ASSUME NEW a \in 1..Len(armed)
               PROVE  (LET i == armed[a].rule
                           f == Referred(rules[i], armed[a].anon)
                       IN /\ f \in 0..Len(futures)
                          /\ Evaluated[i][rules[i].bind] = RuleOf(f)
                          /\ armed[a].future = f \/ (armed[a].future = 0 /\ ~Pending(f)))'
    BY SceneFacts DEF ArmedTrue
  <2>0. PICK r, b, f : r = rules[armed[a].rule] /\ b = armed[a].anon /\ f = Referred(r, b)
    OBVIOUS
  <2>1. Referred(r, b)' = f
    BY <1>10, <2>0 DEF Referred
  <2>2. /\ f \in 0..Len(futures) /\ Evaluated[armed[a].rule][r.bind] = RuleOf(f)
        /\ armed[a].future = f \/ (armed[a].future = 0 /\ ~Pending(f))
    BY <2>0, SceneFacts DEF Going, ArmedTrue
  <2>3. f \in 0..Len(futures') /\ RuleOf(f)' = RuleOf(f)
    BY <1>1, <1>4, <1>9, <2>2 DEF k
  <2>4. ~Pending(f) => ~Pending(f)'
    <3>1. f = 0 \/ f \in 1..Len(futures)
      BY <1>1, <2>2
    <3> QED
      BY <1>4, <3>1 DEF Pending, Resolved
  <2> QED
    BY <2>0, <2>1, <2>2, <2>3, <2>4, SceneFacts
<1> QED
  BY <1>4, <1>6, <1>7, <1>8, <1>9, <1>10, <1>11, <1>12 DEF k

(* The rule whose action is performed matches in the listed order too. *)
LEMMA ActingHolds ==
  ASSUME Scene, NEW action, Acting(action)
  PROVE  /\ Holds(idx) /\ idx \in 1..Len(rules) /\ rules[idx].action = action
         /\ ~rules[idx].race /\ susp.kind \notin AskKinds /\ susp.kind # "commit"
         /\ pc \in {"act", "walk"} /\ (Bound(rules[idx]) => pc = "act")
<1>1. /\ idx \in 1..Len(rules) /\ rules[idx].action = action
      /\ ~(Bound(rules[idx]) /\ rules[idx].race) /\ susp.kind \notin AskKinds
  BY SceneFacts, ActingRule DEF Rule
<1>2. pc = "act" \/ (pc = "walk" /\ ~Bound(rules[idx]))
  BY DEF Acting, Rule
<1>3. Valid(rules[idx])
  BY <1>1, SceneFacts, AcceptedList DEF Scene, Undisturbed
<1>4. susp.kind # "commit"
  BY <1>1 DEF AskKinds
<1>5. Holds(idx)
  BY <1>2, <1>4, SceneFacts DEF Going, ActTrue, Holds, Rule
<1> QED
  BY <1>1, <1>2, <1>3, <1>4, <1>5 DEF Valid

(* The walk passes a rule that launches nothing. *)
LEMMA PassInOrder ==
  ASSUME Scene, susp.kind \notin AskKinds, pc # "sweep", idx <= Len(rules), ~Ends(idx),
         NextRule, UNCHANGED <<susp, armed, futures>>,
         anon' \in {0, anon}, Evaluated[idx + 1]["anon"] = RuleOf(anon'),
         \A t \in Tags : Evaluated[idx + 1][t] = Evaluated[idx][t]
  PROVE  InOrder'
<1>0. susp.kind # "commit" /\ Len(futures) \in Nat /\ idx' = idx + 1
  BY SceneFacts, Typed DEF AskKinds, NextRule
<1>1. FutureRules' /\ FuturesTrue'
  BY <1>0, SceneFacts DEF FutureRules, FuturesTrue, Resolved
<1>2. SameQueries /\ \A f \in 1..Len(futures) : Resolved(f) => Resolved(f)'
  BY SceneFacts, SameFutures DEF Resolved
<1>3. ArmedTrue'
  BY <1>0, <1>2, SameNames
<1>4. NamesTrue'
  <2>1. \A t \in Tags : (NamedFuture(t))' = NamedFuture(t)
    BY <1>2, SceneFacts, SameStandIns
  <2>2. \A f : RuleOf(f)' = RuleOf(f)
    BY DEF RuleOf
  <2>3. anon' \in 0..Len(futures')
    BY <1>0, SceneFacts DEF Going, NamesTrue
  <2>4. \A t \in Tags : Evaluated[idx][t] = RuleOf(NamedFuture(t))
    BY <1>0, SceneFacts DEF Going, NamesTrue
  <2> QED
    BY <1>0, <2>1, <2>2, <2>3, <2>4, SceneFacts DEF NamesTrue, RuleOf
<1> QED
  BY <1>1, <1>3, <1>4, NextInOrder

(* Outside a sweep every armed rule waits for a future. *)
LEMMA ArmedLater ==
  ASSUME Scene, susp.kind # "commit", pc # "sweep", UNCHANGED armed
  PROVE  ArmedNow'
  BY SceneFacts DEF Going, ArmedNow

(* The action waits, for the races or for what it refers to. *)
LEMMA WaitInOrder ==
  ASSUME Scene, susp.kind # "commit", pc # "sweep", NEW kind \in {"await", "drain"}, NEW f,
         Suspend(kind, f, idx), UNCHANGED <<idx, futures, anon, armed>>
  PROVE  InOrder'
<1>1. pc' = "settle" /\ susp'.kind = kind
  BY DEF Suspend
<1>2. ArmedNow' /\ ActTrue'
  BY <1>1, ArmedLater DEF ActTrue
<1> QED
  BY <1>1, <1>2, PlaceInOrder

(* A rule with match_response. *)
LEMMA JudgeInOrder ==
  ASSUME Scene, SettleRule \/ Arm \/ Await \/ Judge
  PROVE  InOrder'
<1>0. /\ susp.kind \notin AskKinds /\ susp.kind # "commit" /\ pc \in {"walk", "judge"}
      /\ idx \in 1..Len(rules) /\ Bound(rules[idx])
  BY SceneFacts, Typed DEF SettleRule, Arm, Await, Judge, WalkInv, AtRule, AskPlace, AskKinds, Rule
<1>1. /\ Len(futures) \in Nat /\ Len(armed) \in Nat /\ NamesTrue /\ rules[idx].bind \in Names
  BY <1>0, SceneFacts, Typed, AcceptedList DEF Going, Scene, Undisturbed
<1>2. /\ Referred(rules[idx], anon) \in 0..Len(futures)
      /\ Evaluated[idx][rules[idx].bind] = RuleOf(Referred(rules[idx], anon))
  BY <1>1, SceneFacts, NamesHere DEF Referred
<1>3. CASE SettleRule
  <2>1. /\ pc' = "judge" /\ UNCHANGED <<idx, susp, futures, anon, armed>>
    BY <1>3 DEF SettleRule
  <2>2. ArmedNow' /\ ActTrue'
    BY <1>0, <2>1, ArmedLater DEF ActTrue
  <2> QED
    BY <1>0, <2>1, <2>2, PlaceInOrder
<1>4. CASE Await
  BY <1>0, <1>4, WaitInOrder DEF Await
<1>5. CASE Judge
  <2>1. /\ ~rules[idx].race /\ ~Pending(Referred(rules[idx], anon))
        /\ IF Match(rules[idx], anon) THEN pc' = "act" /\ UNCHANGED idx ELSE NextRule
        /\ UNCHANGED <<config, susp, futures, settled, anon, armed>>
        /\ odd' = IF Stale(rules[idx], anon) THEN odd \cup {"stale"} ELSE odd
    BY <1>5 DEF Judge, Rule
  <2>2. ~Stale(rules[idx], anon)
    BY <2>1 DEF Scene, Undisturbed
  <2>3. ResponseFor(rules[idx], anon) = ValueOf(rules[idx].bind, idx)
    BY <1>0, <1>2, <2>1, <2>2, SceneFacts, ResponseTrue
  <2>4. CASE Match(rules[idx], anon)
    <3>1. pc' = "act" /\ UNCHANGED <<idx, susp, futures, settled, anon, armed, rules, answer>>
      BY <2>1, <2>4, SceneFacts
    <3>2. Matches(rules[idx], ValueOf(rules[idx].bind, idx))
      BY <1>0, <2>3, <2>4 DEF Match
    <3>3. Referred(Rule, anon)' = Referred(Rule, anon)
      <4>1. \A t : NamedFuture(t)' = NamedFuture(t)
        BY <3>1, SceneFacts, SameFutures, SameStandIns
      <4> QED
        BY <3>1, <4>1 DEF Referred, Rule
    <3>4. ~Pending(Referred(Rule, anon))'
      BY <2>1, <3>1, <3>3 DEF Pending, Resolved, Rule
    <3>5. ResponseFor(Rule, anon)' = ResponseFor(Rule, anon)
      BY <3>1, <3>3 DEF ResponseFor, View, Resolved, Rule
    <3>6. ActTrue'
      <4>1. Rule' = Rule /\ Rule = rules[idx]
        BY <3>1 DEF Rule
      <4>2. ValueOf(Rule.bind, idx)' = ValueOf(rules[idx].bind, idx)
        BY <3>1, <4>1, SceneFacts
      <4>3. Matches(Rule, ValueOf(Rule.bind, idx))'
        BY <3>2, <4>1, <4>2 DEF Matches
      <4> QED
        BY <2>3, <3>4, <3>5, <4>1, <4>2, <4>3 DEF ActTrue
    <3>7. ArmedNow'
      BY <1>0, <3>1, ArmedLater
    <3> QED
      BY <1>0, <3>1, <3>6, <3>7, PlaceInOrder
  <2>5. CASE ~Match(rules[idx], anon)
    <3>1. NextRule /\ ~Holds(idx) /\ ~Ends(idx)
      BY <1>0, <2>1, <2>3, <2>5 DEF Match, Holds, Ends
    <3>2. \A t \in Names : Evaluated[idx + 1][t] = Evaluated[idx][t]
      BY <1>0, <3>1, SceneFacts, EvaluatedNext
    <3>3. Evaluated[idx + 1]["anon"] = RuleOf(anon')
      BY <1>1, <2>1, <3>2 DEF NamesTrue, Names
    <3> QED
      BY <1>0, <2>1, <3>1, <3>2, <3>3, SceneFacts, PassInOrder DEF Names
  <2> QED
    BY <2>4, <2>5
<1>6. CASE Arm
  <2>0. PICK f : f = Referred(rules[idx], anon)
    OBVIOUS
  <2> DEFINE e == [rule |-> idx, anon |-> anon, future |-> IF Pending(f) THEN f ELSE 0]
             m == Len(armed) + 1
  <2>1. /\ rules[idx].race /\ armed' = Append(armed, e)
        /\ pc' = (IF Pending(f) THEN "walk" ELSE "sweep") /\ pc = "judge"
        /\ sweep' = [at |-> 1, back |-> "walk"] /\ idx' = idx + 1
        /\ UNCHANGED <<susp, futures, anon>>
    BY <1>6, <2>0 DEF Arm, Rule
  <2>2. e.rule = idx /\ e.anon = anon /\ e.future = IF Pending(f) THEN f ELSE 0
    OBVIOUS
  <2> HIDE DEF e
  <2>3. /\ Len(armed') = m /\ armed'[m] = e /\ \A a \in 1..Len(armed) : armed'[a] = armed[a]
    BY <1>1, <2>1, SceneFacts, Typed
  <2>4. /\ \A a \in 1..m : a \in 1..Len(armed) \/ a = m
        /\ \A a \in 1..Len(armed) : a \in 1..m
        /\ m \in 1..m /\ 1 <= m
    BY <1>1
  <2> HIDE DEF m
  <2>5. ~Pending(f) => f = Referred(rules[idx], anon) /\ e.future = 0
    BY <2>0, <2>2
  <2>6. FutureRules' /\ FuturesTrue'
    BY <1>0, <2>1, SceneFacts DEF FutureRules, FuturesTrue, Resolved
  <2>7. /\ \A t : NamedFuture(t)' = NamedFuture(t)
        /\ \A r, a : Referred(r, a)' = Referred(r, a)
        /\ \A g \in 0..Len(futures) : RuleOf(g)' = RuleOf(g)
    BY <2>1, SceneFacts, SameFutures, SameStandIns
  <2>8. idx' \in 1..(Len(rules) + 1) /\ idx \in Nat
    BY <1>0, <2>1, SceneFacts
  <2>9. NamesTrue'
    <3>1. rules[idx].action # "evaluate"
      BY <1>0, <2>1, SceneFacts, AcceptedList DEF Scene, Undisturbed, Valid
    <3>2. \A t \in Names : Evaluated[idx'][t] = Evaluated[idx][t]
      BY <1>0, <2>1, <3>1, SceneFacts, EvaluatedNext
    <3>3. \A t \in Tags : NamedFuture(t) \in 0..Len(futures)
      <4> SUFFICES ASSUME NEW t \in Tags PROVE NamedFuture(t) \in 0..Len(futures)
        OBVIOUS
      <4>1. t \in Names /\ t # "anon"
        BY ListsAssumption DEF Names
      <4> QED
        BY <1>1, <4>1, SceneFacts, NamesHere
    <3> QED
      BY <1>1, <2>1, <2>7, <3>2, <3>3, SceneFacts DEF NamesTrue, Names
  <2>10. ArmedTrue'
    <3>1. \A g : Pending(g)' <=> Pending(g)
      BY <2>1 DEF Pending, Resolved
    <3>2. /\ f \in 0..Len(futures) /\ Evaluated[idx][rules[idx].bind] = RuleOf(f)
          /\ e.future = f \/ (e.future = 0 /\ ~Pending(f))
      BY <1>2, <2>0, <2>2
    <3>3. Len(futures') = Len(futures)
      BY <2>1
    <3>4. ArmedTrue
      BY <1>0, SceneFacts DEF Going
    <3> SUFFICES ASSUME NEW a \in 1..m
                 PROVE  (LET i == armed[a].rule
                             g == Referred(rules[i], armed[a].anon)
                         IN /\ g \in 0..Len(futures)
                            /\ Evaluated[i][rules[i].bind] = RuleOf(g)
                            /\ armed[a].future = g \/ (armed[a].future = 0 /\ ~Pending(g)))'
      BY <2>3 DEF ArmedTrue
    <3>5. CASE a = m
      BY <2>0, <2>2, <2>3, <2>7, <3>1, <3>2, <3>3, <3>5, SceneFacts
    <3>6. CASE a \in 1..Len(armed)
      BY <2>3, <2>7, <3>1, <3>3, <3>4, <3>6, SceneFacts DEF ArmedTrue
    <3> QED
      BY <2>4, <3>5, <3>6
  <2>11. ArmedNow'
    <3>1. \A a \in 1..Len(armed) : armed[a].future # 0
      BY <1>0, SceneFacts DEF Going, ArmedNow
    <3>2. Pending(f) => e.future # 0
      BY <2>2 DEF Pending
    <3> QED
      BY <2>1, <2>2, <2>3, <2>4, <3>1, <3>2 DEF ArmedNow
  <2>12. ActTrue' /\ PendingTrue' /\ Chosen'
    BY <1>0, <2>1 DEF ActTrue, PendingTrue, Chosen, AskKinds
  <2>13. PICK k \in 1..idx : Trail(k)
    BY <1>0, SceneFacts DEF Going
  <2>14. /\ \A j \in k..(idx' - 1) : j \in k..(idx - 1) \/ j = idx
         /\ \A j \in k..(idx - 1) : j \in k..(idx' - 1)
         /\ idx \in k..(idx' - 1) /\ k \in 1..idx'
    BY <2>1, <2>8
  <2>15. Trail(k)'
    <3>1. ASSUME NEW j \in k..(idx' - 1), Ends(j)
          PROVE  rules[j].race /\ \E a \in 1..m : armed'[a].rule = j
      <4>1. CASE j = idx
        BY <2>1, <2>2, <2>3, <2>4, <4>1
      <4>2. CASE j \in k..(idx - 1)
        BY <2>3, <2>4, <2>13, <3>1, <4>2 DEF Trail
      <4> QED
        BY <2>14, <4>1, <4>2
    <3>2. ASSUME NEW a \in 1..m PROVE armed'[a].rule \in k..(idx' - 1)
      BY <2>2, <2>3, <2>4, <2>13, <2>14 DEF Trail
    <3>3. From[k] \subseteq Promised
      BY <2>13 DEF Trail
    <3> QED
      BY <2>3, <2>14, <3>1, <3>2, <3>3, SceneFacts DEF Trail
  <2>16. Going'
    BY <2>9, <2>10, <2>11, <2>12, <2>14, <2>15 DEF Going
  <2> QED
    BY <2>1, <2>6, <2>8, <2>12, <2>16, SceneFacts DEF InOrder
<1> QED
  BY <1>3, <1>4, <1>5, <1>6

(* With no race left, the rule at hand that ends the query is its result,    *)
(* unless it fails and says fallback.                                        *)
LEMMA HereChosen ==
  ASSUME Scene, susp.kind # "commit", armed = <<>>,
         idx <= Len(rules) => ~rules[idx].race /\ Ends(idx)
  PROVE  LET fails == /\ idx <= Len(rules) /\ rules[idx].action = "route" /\ rules[idx].fallback
                      /\ answer[rules[idx].server] # "ok"
         IN /\ ~fails \/ SentAhead(idx) => idx \in Promised
            /\ fails => From[idx + 1] \subseteq Promised
<1>1. PICK k \in 1..idx : Trail(k)
  BY SceneFacts DEF Going
<1> QED
  BY <1>1, SceneFacts, HereWins

(* The walk passes a rule that neither ends the query nor evaluates. *)
LEMMA SkipInOrder ==
  ASSUME Scene, susp.kind \notin AskKinds, pc # "sweep", idx \in 1..Len(rules), ~Ends(idx),
         rules[idx].action # "evaluate", NextRule, UNCHANGED <<susp, armed, futures, anon>>
  PROVE  InOrder'
<1>1. \A t \in Names : Evaluated[idx + 1][t] = Evaluated[idx][t]
  BY SceneFacts, EvaluatedNext
<1>2. Evaluated[idx + 1]["anon"] = RuleOf(anon')
  BY <1>1, SceneFacts DEF Going, NamesTrue, Names, AskKinds
<1> QED
  BY <1>1, <1>2, SceneFacts, PassInOrder DEF Names

(* evaluate *)
LEMMA EvaluateInOrder ==
  ASSUME Scene, Evaluate
  PROVE  InOrder'
<1>0. Acting("evaluate")
  BY DEF Evaluate
<1>1. /\ Holds(idx) /\ idx \in 1..Len(rules) /\ rules[idx].action = "evaluate"
      /\ susp.kind \notin AskKinds /\ susp.kind # "commit" /\ pc \in {"act", "walk"}
  BY <1>0, ActingHolds
<1>2. ~Ends(idx) /\ Rule = rules[idx]
  BY <1>1 DEF Ends, Rule
<1>3. /\ NamesTrue /\ Len(futures) \in Nat /\ "anon" \in Names /\ Tags \subseteq Names
      /\ "anon" \notin Tags /\ "terminal" \notin Names
  BY <1>1, SceneFacts, Typed, ListsAssumption DEF Going, Names
<1>4. \A t \in Names : Evaluated[idx + 1][t] =
         IF rules[idx].tag = t
         THEN IF rules[idx].server \in Servers THEN idx
              ELSE IF t = "anon" THEN 0 ELSE Evaluated[idx][t]
         ELSE Evaluated[idx][t]
  BY <1>1, SceneFacts, EvaluatedNext
<1>5. CASE /\ Rule.server \notin Servers
           /\ anon' = (IF Rule.tag = "anon" THEN 0 ELSE anon)
           /\ NextRule /\ UNCHANGED <<susp, futures, armed>>
  <2>1. Evaluated[idx + 1]["anon"] = RuleOf(anon')
    BY <1>2, <1>3, <1>4, <1>5 DEF NamesTrue, RuleOf
  <2>2. \A t \in Tags : Evaluated[idx + 1][t] = Evaluated[idx][t]
    BY <1>2, <1>3, <1>4, <1>5
  <2> QED
    BY <1>1, <1>2, <1>5, <2>1, <2>2, SceneFacts, PassInOrder
<1>6. CASE Hold
  BY <1>1, <1>6, WaitInOrder DEF Hold
<1>7. CASE /\ Rule.server \in Servers /\ Launch(Rule.tag)
           /\ anon' = (IF Rule.tag = "anon" THEN Len(futures) + 1 ELSE anon)
           /\ NextRule /\ UNCHANGED <<susp, armed>>
  <2>0. PICK tag : tag = rules[idx].tag
    OBVIOUS
  <2>1. tag \in Names /\ tag # "terminal" /\ Launch(tag)
    BY <1>1, <1>2, <1>3, <1>7, <2>0, SceneFacts, AcceptedList DEF Scene, Undisturbed
  <2>2. ASSUME NEW j \in 1..(idx - 1), tag # "anon"
        PROVE  /\ Bound(rules[j]) => rules[j].bind # tag
               /\ rules[j].action = "evaluate" => rules[j].tag # tag
    BY <1>1, <2>0, <2>2, SceneFacts, AcceptedList DEF Scene, Undisturbed
  <2>3. ASSUME NEW a \in 1..Len(armed)
        PROVE  LET r == rules[armed[a].rule] IN r.bind = "anon" \/ r.bind # tag
    <3>1. PICK k \in 1..idx : Trail(k)
      BY <1>1, SceneFacts DEF Going
    <3>2. armed[a].rule \in 1..(idx - 1)
      BY <1>1, <3>1 DEF Trail
    <3>3. Bound(rules[armed[a].rule])
      BY SceneFacts DEF WalkInv, ArmedAreRaces
    <3> QED
      BY <2>2, <3>2, <3>3
  <2>4. /\ FutureRules' /\ FuturesTrue' /\ ArmedTrue'
        /\ Len(futures') = Len(futures) + 1 /\ futures'[Len(futures) + 1].rule = idx
        /\ \A f \in 0..Len(futures) : RuleOf(f)' = RuleOf(f)
        /\ \A t : t # tag => NamedFuture(t)' = NamedFuture(t)
        /\ (\A f \in 1..Len(futures) : futures[f].tag # tag) =>
             NamedFuture(tag)' = Len(futures) + 1
    BY <1>1, <1>2, <1>7, <2>0, <2>1, <2>3, LaunchInOrder
  <2>5. ASSUME tag # "anon" PROVE NamedFuture(tag)' = Len(futures) + 1
    <3> SUFFICES ASSUME NEW f \in 1..Len(futures), futures[f].tag = tag PROVE FALSE
      BY <2>4
    <3>1. Passed(futures[f], rules, idx) /\ rules[futures[f].rule].tag = tag
      BY <2>1, SceneFacts DEF WalkInv, Launched, FutureRules
    <3>2. rules[futures[f].rule].action = "evaluate" /\ futures[f].rule \in 1..(idx - 1)
      BY <1>1, <2>1, <3>1, SceneFacts DEF Passed
    <3> QED
      BY <2>2, <2>5, <3>1, <3>2
  <2>6. idx' = idx + 1 /\ Rule.tag = tag
    BY <1>2, <1>7, <2>0 DEF NextRule
  <2>7. anon' \in 0..Len(futures') /\ Evaluated[idx']["anon"] = RuleOf(anon)'
    <3>1. CASE tag = "anon"
      <4>1. anon' = Len(futures) + 1 /\ Evaluated[idx']["anon"] = idx
        BY <1>2, <1>3, <1>4, <1>7, <2>0, <2>6, <3>1
      <4> QED
        BY <1>3, <2>4, <4>1 DEF RuleOf
    <3>2. CASE tag # "anon"
      <4>1. anon' = anon /\ Evaluated[idx']["anon"] = Evaluated[idx]["anon"]
        BY <1>2, <1>3, <1>4, <1>7, <2>0, <2>6, <3>2
      <4>2. anon \in 0..Len(futures) /\ Evaluated[idx]["anon"] = RuleOf(anon)
        BY <1>3 DEF NamesTrue
      <4>3. PICK c : c = anon
        OBVIOUS
      <4>4. RuleOf(c)' = RuleOf(c)
        BY <2>4, <4>2, <4>3
      <4> QED
        BY <1>3, <2>4, <4>1, <4>2, <4>3, <4>4
    <3> QED
      BY <3>1, <3>2
  <2>8. ASSUME NEW t \in Tags PROVE Evaluated[idx'][t] = RuleOf(NamedFuture(t))'
    <3>1. CASE t = tag
      <4>1. NamedFuture(t)' = Len(futures) + 1 /\ Evaluated[idx'][t] = idx
        BY <1>2, <1>3, <1>4, <1>7, <2>0, <2>5, <2>6, <3>1
      <4> QED
        BY <1>3, <2>4, <4>1 DEF RuleOf
    <3>2. CASE t # tag
      <4>1. NamedFuture(t)' = NamedFuture(t) /\ Evaluated[idx'][t] = Evaluated[idx][t]
        BY <1>3, <1>4, <2>0, <2>4, <2>6, <3>2
      <4>2. NamedFuture(t) \in 0..Len(futures) /\ Evaluated[idx][t] = RuleOf(NamedFuture(t))
        BY <1>3, SceneFacts, NamesHere
      <4>3. PICK c : c = NamedFuture(t)
        OBVIOUS
      <4>4. RuleOf(c)' = RuleOf(c)
        BY <2>4, <4>2, <4>3
      <4> QED
        BY <4>1, <4>2, <4>3, <4>4
    <3> QED
      BY <3>1, <3>2
  <2>9. NamesTrue'
    BY <2>7, <2>8, SceneFacts DEF NamesTrue
  <2> QED
    BY <1>1, <1>2, <1>7, <2>4, <2>9, SceneFacts, NextInOrder
<1> QED
  BY <1>5, <1>6, <1>7 DEF Evaluate

(* respond *)
LEMMA RespondInOrder ==
  ASSUME Scene, Respond
  PROVE  InOrder'
<1>0. Acting("respond")
  BY DEF Respond
<1>1. /\ Holds(idx) /\ idx \in 1..Len(rules) /\ rules[idx].action = "respond" /\ ~rules[idx].race
      /\ susp.kind # "commit" /\ pc \in {"act", "walk"} /\ (Bound(rules[idx]) => pc = "act")
  BY <1>0, ActingHolds
<1>2. CASE Hold
  BY <1>1, <1>2, WaitInOrder DEF Hold
<1>3. CASE Suspend("await", anon, idx) /\ UNCHANGED <<idx, futures, anon, armed>>
  BY <1>1, <1>3, WaitInOrder
<1>4. CASE /\ armed = <<>> /\ (Bound(rules[idx]) \/ ~Pending(anon))
           /\ Return(idx, ResponseOr(IF Bound(rules[idx]) THEN ResponseFor(rules[idx], anon)
                                     ELSE View(anon)))
  <2>1. Ends(idx)
    BY <1>1 DEF Ends, Holds
  <2>2. idx \in Promised
    BY <1>1, <1>4, <2>1, HereChosen
  <2>3. Bound(rules[idx]) => ResponseFor(rules[idx], anon) = ValueOf(rules[idx].bind, idx)
    BY <1>1, SceneFacts DEF Going, ActTrue, Rule
  <2>4. ~Bound(rules[idx]) => View(anon) = ValueOf("anon", idx)
    <3>1. anon \in 0..Len(futures) /\ Evaluated[idx]["anon"] = RuleOf(anon)
      BY <1>1, SceneFacts DEF Going, NamesTrue
    <3> QED
      BY <1>1, <1>4, <3>1, SceneFacts, ViewTrue DEF ValueOf
  <2>5. Decision(idx).out = ResponseOr(IF Bound(rules[idx]) THEN ResponseFor(rules[idx], anon)
                                       ELSE View(anon))
    BY <1>1, <2>3, <2>4, SceneFacts DEF Decision
  <2> QED
    BY <1>4, <2>2, <2>5, ReturnInOrder
<1> QED
  BY <1>2, <1>3, <1>4 DEF Respond, Rule

(* reject and predefined *)
LEMMA ReplyInOrder ==
  ASSUME Scene, Reply
  PROVE  InOrder'
<1>0. PICK action \in {"reject", "predefined"} : Acting(action)
  BY DEF Reply
<1>1. /\ Holds(idx) /\ idx \in 1..Len(rules) /\ rules[idx].action = action /\ ~rules[idx].race
      /\ susp.kind # "commit" /\ pc \in {"act", "walk"}
  BY <1>0, ActingHolds
<1>2. CASE Hold
  BY <1>1, <1>2, WaitInOrder DEF Hold
<1>3. CASE armed = <<>> /\ Return(idx, Rule.action)
  <2>1. Ends(idx)
    BY <1>1 DEF Ends, Holds
  <2>2. idx \in Promised
    BY <1>1, <1>3, <2>1, HereChosen
  <2>3. Decision(idx).out = Rule.action
    BY <1>1, SceneFacts DEF Decision, Rule
  <2> QED
    BY <1>3, <2>2, <2>3, ReturnInOrder
<1> QED
  BY <1>2, <1>3 DEF Reply

(* route *)
LEMMA RouteInOrder ==
  ASSUME Scene, Route
  PROVE  InOrder'
<1>0. Acting("route")
  BY DEF Route
<1>1. /\ Holds(idx) /\ idx \in 1..Len(rules) /\ rules[idx].action = "route" /\ ~rules[idx].race
      /\ susp.kind \notin AskKinds /\ susp.kind # "commit" /\ pc \in {"act", "walk"}
      /\ Rule = rules[idx]
  BY <1>0, ActingHolds DEF Rule
<1>2. Usable(rules[idx].server) => Ends(idx)
  BY <1>1 DEF Ends, Holds
<1>3. /\ Len(futures) \in Nat /\ DOMAIN futures = 1..Len(futures) /\ Len(armed) \in Nat
      /\ armed \in Seq(ArmedRules) /\ idx \in Nat
  BY SceneFacts, Typed
<1>4. CASE /\ ~Usable(rules[idx].server) /\ NextRule
           /\ UNCHANGED <<susp, futures, anon, armed>>
  <2>1. ~Ends(idx)
    BY <1>1, <1>4 DEF Ends
  <2> QED
    BY <1>1, <1>4, <2>1, SkipInOrder
<1>5. CASE Hold
  BY <1>1, <1>5, WaitInOrder DEF Hold
<1>6. CASE /\ armed # <<>> /\ rules[idx].speculative /\ Launch("terminal")
           /\ Suspend("drain", 0, idx) /\ UNCHANGED <<idx, anon, armed>>
  <2>1. pc' = "settle" /\ susp'.kind = "drain"
    BY <1>6 DEF Suspend
  <2>2. PICK k \in 1..idx : Trail(k)
    BY <1>1, SceneFacts DEF Going
  <2>3. SentAhead(idx)
    <3>1. 1 \in 1..Len(armed)
      BY <1>3, <1>6
    <3>2. armed[1].rule \in 1..(idx - 1)
      BY <1>3, <2>2, <3>1 DEF Trail
    <3>3. rules[armed[1].rule].race
      BY <3>1, SceneFacts DEF WalkInv, ArmedAreRaces
    <3> QED
      BY <1>6, <3>2, <3>3 DEF SentAhead
  <2>4. ASSUME NEW a \in 1..Len(armed)
        PROVE  LET r == rules[armed[a].rule] IN r.bind = "anon" \/ r.bind # "terminal"
    <3>1. armed[a].rule \in 1..Len(rules) /\ Bound(rules[armed[a].rule])
      BY SceneFacts DEF WalkInv, ArmedAreRaces
    <3>2. rules[armed[a].rule].bind \in Names
      BY <3>1, SceneFacts, AcceptedList DEF Scene, Undisturbed
    <3> QED
      BY <3>2, ListsAssumption DEF Names
  <2>5. /\ FutureRules' /\ FuturesTrue' /\ ArmedTrue' /\ Len(futures') = Len(futures) + 1
        /\ \A f \in 0..Len(futures) : RuleOf(f)' = RuleOf(f)
        /\ \A t : t # "terminal" => NamedFuture(t)' = NamedFuture(t)
    BY <1>1, <1>6, <2>1, <2>3, <2>4, LaunchInOrder
  <2>6. NamesTrue'
    <3>1. NamesTrue /\ WalkInv /\ Evaluated' = Evaluated
      BY <1>1, SceneFacts DEF Going
    <3>2. ASSUME NEW t \in Tags PROVE Evaluated[idx][t] = RuleOf(NamedFuture(t))'
      <4>1. t \in Names /\ t # "anon" /\ t # "terminal"
        BY ListsAssumption DEF Names
      <4>2. PICK c : c = NamedFuture(t)
        OBVIOUS
      <4>3. c \in 0..Len(futures) /\ Evaluated[idx][t] = RuleOf(c)
        BY <3>1, <4>1, <4>2, NamesHere
      <4>4. NamedFuture(t)' = c /\ RuleOf(c)' = RuleOf(c)
        BY <2>5, <4>1, <4>2, <4>3
      <4> QED
        BY <4>3, <4>4
    <3>3. anon' \in 0..Len(futures') /\ Evaluated[idx]["anon"] = RuleOf(anon)'
      <4>1. PICK c : c = anon
        OBVIOUS
      <4>2. c \in 0..Len(futures) /\ Evaluated[idx]["anon"] = RuleOf(c)
        BY <3>1, <4>1 DEF NamesTrue
      <4>3. RuleOf(c)' = RuleOf(c)
        BY <2>5, <4>2
      <4> QED
        BY <1>3, <1>6, <2>5, <4>1, <4>2, <4>3
    <3> QED
      BY <1>6, <3>1, <3>2, <3>3 DEF NamesTrue
  <2>7. ArmedNow' /\ ActTrue' /\ PendingTrue' /\ Chosen'
    BY <1>1, <1>6, <2>1, ArmedLater DEF ActTrue, PendingTrue, Chosen
  <2>8. Trail(k)' /\ k \in 1..idx'
    BY <1>6, <2>2, SceneFacts DEF Trail
  <2>9. Going'
    BY <2>5, <2>6, <2>7, <2>8 DEF Going
  <2> QED
    BY <1>6, <2>1, <2>5, <2>7, <2>9, SceneFacts DEF InOrder
<1>7. ASSUME NEW kind, NEW t, Usable(rules[idx].server), armed = <<>>, Suspend(kind, t, idx),
             \/ kind = "commit" /\ t \in 1..Len(futures) /\ futures[t].rule = idx
                /\ futures[t].tag = "terminal"
             \/ kind = (IF rules[idx].fallback THEN "pending" ELSE "commit") /\ t = 0,
             UNCHANGED <<idx, futures, anon, armed>>
      PROVE  InOrder'
  <2>1. pc' = "settle" /\ susp' = [kind |-> kind, future |-> t, rule |-> idx]
    BY <1>7 DEF Suspend
  <2>2. ArmedNow' /\ ActTrue'
    BY <1>1, <1>7, <2>1, ArmedLater DEF ActTrue
  <2>3. CASE kind = "pending"
    <3>1. PendingTrue'
      BY <1>1, <1>2, <1>7, <2>1, <2>3, SceneFacts DEF PendingTrue, Rule
    <3> QED
      BY <1>1, <1>7, <2>1, <2>2, <2>3, <3>1, PlaceInOrder
  <2>4. CASE kind = "commit"
    <3>1. t # 0 => SentAhead(idx)
      BY <1>7, SceneFacts DEF FutureRules
    <3>2. idx \in Promised
      BY <1>1, <1>2, <1>7, <2>4, <3>1, HereChosen
    <3> QED
      BY <1>1, <1>3, <1>7, <2>1, <2>4, <3>2, SceneFacts, CommitInOrder
  <2> QED
    BY <1>7, <2>3, <2>4
<1>8. CASE /\ Usable(rules[idx].server) /\ armed = <<>>
           /\ LET t == TerminalFuture
              IN IF t # 0 /\ futures[t].rule = idx THEN Suspend("commit", t, idx)
                 ELSE Suspend(IF rules[idx].fallback THEN "pending" ELSE "commit", 0, idx)
           /\ UNCHANGED <<idx, futures, anon, armed>>
  <2>1. TerminalFuture # 0 =>
          TerminalFuture \in 1..Len(futures) /\ futures[TerminalFuture].tag = "terminal"
    BY <1>3 DEF TerminalFuture
  <2> QED
    BY <1>7, <1>8, <2>1
<1> QED
  BY <1>1, <1>4, <1>5, <1>6, <1>8 DEF Route

(* Past the last rule. *)
LEMMA EndInOrder ==
  ASSUME Scene, RulesEnd
  PROVE  InOrder'
<1>1. /\ pc = "walk" /\ idx > Len(rules) /\ susp.kind \notin AskKinds /\ susp.kind # "commit"
  BY SceneFacts DEF RulesEnd, WalkInv, AskPlace, AskKinds
<1>2. CASE Hold
  BY <1>1, <1>2, WaitInOrder DEF Hold
<1>3. CASE /\ armed = <<>> /\ Suspend("commit", 0, idx)
           /\ UNCHANGED <<idx, futures, anon, armed>>
  <2>1. pc' = "settle" /\ susp' = [kind |-> "commit", future |-> 0, rule |-> idx]
    BY <1>3 DEF Suspend
  <2>2. ~(idx <= Len(rules)) /\ idx \in 1..(Len(rules) + 1)
    BY <1>1, SceneFacts
  <2>3. idx \in Promised
    BY <1>1, <1>3, <2>2, HereChosen
  <2> QED
    BY <1>1, <1>3, <2>1, <2>2, <2>3, SceneFacts, CommitInOrder
<1> QED
  BY <1>2, <1>3 DEF RulesEnd

(* cancelDNSFutures takes no answer away. *)
LEMMA CancelFields ==
  ASSUME WalkInv, NEW S, futures' = Cancelled(S)
  PROVE  /\ SameQueries
         /\ \A f \in 1..Len(futures) :
              /\ futures'[f].server = futures[f].server /\ futures'[f].out = futures[f].out
              /\ Resolved(f)' <=> Resolved(f)
              /\ f \notin S => futures'[f].cancelled = futures[f].cancelled
<1>1. futures \in Seq(Future) /\ DOMAIN futures = 1..Len(futures)
  BY Typed
<1>2. ASSUME NEW f \in 1..Len(futures)
      PROVE  /\ futures'[f].server = futures[f].server /\ futures'[f].out = futures[f].out
             /\ Resolved(f)' <=> Resolved(f)
             /\ f \notin S => futures'[f].cancelled = futures[f].cancelled
  <2>1. futures[f] \in Future
    BY <1>1
  <2>2. futures'[f] = [futures[f] EXCEPT !.cancelled = @ \/ f \in S]
    BY <1>1 DEF Cancelled
  <2> QED
    BY <2>1, <2>2 DEF Future, Resolved
<1> QED
  BY <1>2, CancelSame

(* The server of the decision is asked. *)
LEMMA AskInOrder ==
  ASSUME Scene, NEW s, s.kind = "commit", BeginExchange(s), idx' = idx,
         susp.kind = "commit" => pc # "asking",
         s.rule \in Promised, s.rule \in 1..(Len(rules) + 1),
         s.rule <= Len(rules) => rules[s.rule].action = "route",
         s.future # 0 => s.future \in 1..Len(futures) /\ futures[s.future].rule = s.rule
  PROVE  InOrder'
<1>1. pc' = "asking" /\ susp' = s /\ futures' = Cancelled(DOMAIN futures \ {s.future})
  BY DEF BeginExchange
<1>2. /\ SameQueries
      /\ \A f \in 1..Len(futures) :
           /\ futures'[f].server = futures[f].server /\ futures'[f].out = futures[f].out
           /\ Resolved(f)' <=> Resolved(f)
           /\ f = s.future => futures'[f].cancelled = futures[f].cancelled
  <2>1. PICK S : futures' = Cancelled(S) /\ s.future \notin S
    BY <1>1
  <2> QED
    BY <2>1, SceneFacts, CancelFields
<1>3. FutureRules'
  BY <1>2, SceneFacts DEF FutureRules, SameQueries
<1>4. FuturesTrue'
  BY <1>1, <1>2, SceneFacts DEF FuturesTrue, SameQueries
<1>5. Going' /\ Chosen'
  BY <1>1, <1>2, SceneFacts DEF Going, Chosen, SameQueries
<1> QED
  BY <1>1, <1>3, <1>4, <1>5, SceneFacts DEF InOrder

(* A rule that does not end the query is disarmed. *)
LEMMA DisarmInOrder ==
  ASSUME Scene, susp.kind # "commit", pc = "sweep", sweep.at \in 1..Len(armed),
         ~Ends(armed[sweep.at].rule),
         armed' = Disarmed, UNCHANGED <<pc, idx, susp, futures, anon, sweep>>
  PROVE  InOrder'
<1> DEFINE at(b) == IF b < sweep.at THEN b ELSE b + 1
           m == Len(armed) - 1
<1>1. Len(armed) \in Nat /\ m \in Nat /\ armed \in Seq(ArmedRules)
  BY SceneFacts, Typed
<1>2. \A b \in 1..m : at(b) \in 1..Len(armed) /\ (sweep.at <= at(b) => sweep.at <= b)
  BY <1>1
<1>3. ASSUME NEW a \in 1..Len(armed), a # sweep.at PROVE \E b \in 1..m : at(b) = a
  <2>1. CASE a < sweep.at
    BY <1>1, <2>1
  <2>2. CASE ~(a < sweep.at)
    <3>1. a - 1 \in 1..m /\ ~(a - 1 < sweep.at) /\ (a - 1) + 1 = a
      BY <1>1, <1>3, <2>2
    <3> QED
      BY <3>1
  <2> QED
    BY <2>1, <2>2
<1>4. armed' = [b \in 1..m |-> armed[at(b)]]
  BY DEF Disarmed
<1> HIDE DEF at
<1>5. Len(armed') = m /\ \A b \in 1..m : armed'[b] = armed[at(b)]
  <2>1. \A b \in 1..m : armed[at(b)] \in ArmedRules
    BY <1>1, <1>2
  <2> QED
    BY <1>1, <1>4, <2>1
<1> HIDE DEF m
<1>6. FutureRules' /\ FuturesTrue'
  BY SceneFacts DEF FutureRules, FuturesTrue, Resolved
<1>7. SameQueries /\ \A f \in 1..Len(futures) : Resolved(f) => Resolved(f)'
  BY SceneFacts, SameFutures DEF Resolved
<1>8. NamesTrue'
  BY <1>7, SameNames
<1>9. ArmedTrue'
  <2>1. /\ \A r, a : Referred(r, a)' = Referred(r, a)
        /\ \A f \in 0..Len(futures) : RuleOf(f)' = RuleOf(f)
    BY <1>7, SceneFacts, SameStandIns
  <2>2. \A f : Pending(f)' <=> Pending(f)
    BY DEF Pending, Resolved
  <2>3. ArmedTrue
    BY SceneFacts DEF Going
  <2> SUFFICES ASSUME NEW b \in 1..m
               PROVE  (LET i == armed[b].rule
                           f == Referred(rules[i], armed[b].anon)
                       IN /\ f \in 0..Len(futures)
                          /\ Evaluated[i][rules[i].bind] = RuleOf(f)
                          /\ armed[b].future = f \/ (armed[b].future = 0 /\ ~Pending(f)))'
    BY <1>5 DEF ArmedTrue
  <2>4. at(b) \in 1..Len(armed) /\ armed'[b] = armed[at(b)]
    BY <1>2, <1>5
  <2> QED
    BY <2>1, <2>2, <2>3, <2>4, SceneFacts DEF ArmedTrue
<1>10. ArmedNow'
  BY <1>2, <1>5, SceneFacts DEF Going, ArmedNow
<1>11. ActTrue' /\ PendingTrue' /\ Chosen'
  <2>1. armed # <<>>
    BY <1>1
  <2> QED
    BY <2>1, SceneFacts DEF Going, ActTrue, PendingTrue, Chosen
<1>12. PICK k \in 1..idx : Trail(k)
  BY SceneFacts DEF Going
<1>13. Trail(k)'
  <2>1. ASSUME NEW j \in k..(idx - 1), Ends(j)
        PROVE  rules[j].race /\ \E b \in 1..m : armed'[b].rule = j
    <3>1. PICK a \in 1..Len(armed) : armed[a].rule = j /\ rules[j].race
      BY <1>12, <2>1 DEF Trail
    <3>2. PICK b \in 1..m : at(b) = a
      BY <1>3, <2>1, <3>1
    <3> QED
      BY <1>5, <3>1, <3>2
  <2>2. ASSUME NEW b \in 1..m PROVE armed'[b].rule \in k..(idx - 1)
    BY <1>2, <1>5, <1>12 DEF Trail
  <2>3. From[k] \subseteq Promised
    BY <1>12 DEF Trail
  <2> QED
    BY <1>5, <2>1, <2>2, <2>3, SceneFacts DEF Trail
<1>14. Going'
  BY <1>8, <1>9, <1>10, <1>11, <1>13 DEF Going
<1> QED
  BY <1>6, <1>11, <1>14, SceneFacts DEF InOrder

(* An armed rule is judged by the answer of the rule it refers to. *)
LEMMA ArmedResponseTrue ==
  ASSUME Scene, susp.kind # "commit", pc = "sweep", NEW a \in 1..Len(armed),
         ~Pending(armed[a].future), ~Stale(rules[armed[a].rule], armed[a].anon)
  PROVE  LET i == armed[a].rule
         IN /\ ResponseFor(rules[i], armed[a].anon) = ValueOf(rules[i].bind, i)
            /\ ArmedResponse(armed[a]) = ValueOf(rules[i].bind, i)
<1> DEFINE i == armed[a].rule
           r == rules[i]
           f == Referred(r, armed[a].anon)
<1>1. /\ f \in 0..Len(futures) /\ Evaluated[i][r.bind] = RuleOf(f)
      /\ armed[a].future = f \/ (armed[a].future = 0 /\ ~Pending(f))
  BY SceneFacts DEF Going, ArmedTrue
<1>2. ~Pending(f)
  BY <1>1
<1>3. ResponseFor(r, armed[a].anon) = ValueOf(r.bind, i)
  BY <1>1, <1>2, SceneFacts, ResponseTrue
<1>4. CASE r.bind # "anon"
  BY <1>3, <1>4 DEF ArmedResponse
<1>5. CASE r.bind = "anon" /\ armed[a].anon # 0
  BY <1>3, <1>5 DEF ArmedResponse, ResponseFor, Referred
<1>6. CASE r.bind = "anon" /\ armed[a].anon = 0
  <2>1. f = 0 /\ armed[a].future = 0
    BY <1>1, <1>6 DEF Referred
  <2>2. anon = 0
    BY <1>6, <2>1, SceneFacts DEF Going, ArmedNow
  <2> QED
    BY <1>3, <1>6, <2>2 DEF ArmedResponse, ResponseFor, Referred
<1> QED
  BY <1>3, <1>4, <1>5, <1>6

(* sweepArmedDNSRules *)
LEMMA SweepInOrder ==
  ASSUME Scene, SweepEnd \/ SweepPast \/ SweepJudge
  PROVE  InOrder'
<1>0. /\ pc = "sweep" /\ Len(armed) \in Nat /\ sweep.at \in Nat \ {0}
      /\ sweep.back \in {"walk", "resume"} /\ sweep \in Sweeps
  BY SceneFacts, Typed DEF SweepEnd, SweepPast, SweepJudge
<1>1. susp.kind = "commit" => armed = <<>>
  BY <1>0, SceneFacts DEF Chosen
<1>2. CASE SweepEnd
  <2>1. /\ pc' \in {"walk", "resume"} /\ sweep.at > Len(armed)
        /\ UNCHANGED <<idx, susp, futures, anon, armed, sweep>>
    BY <1>0, <1>2 DEF SweepEnd
  <2>2. CASE susp.kind = "commit"
    BY <1>0, <1>1, <2>1, <2>2, SceneFacts, CommitInOrder DEF Chosen
  <2>3. CASE susp.kind # "commit"
    <3>1. \A a \in 1..Len(armed) : ~(sweep.at <= a)
      BY <1>0, <2>1
    <3>2. ArmedNow' /\ ActTrue'
      BY <2>1, <2>3, <3>1, SceneFacts DEF Going, ArmedNow, ActTrue
    <3> QED
      BY <2>1, <2>3, <3>2, PlaceInOrder
  <2> QED
    BY <2>2, <2>3
<1>3. CASE SweepPast
  <2>1. /\ sweep.at \in 1..Len(armed) /\ Pending(armed[sweep.at].future)
        /\ sweep' = [sweep EXCEPT !.at = @ + 1]
        /\ UNCHANGED <<pc, idx, susp, futures, anon, armed>>
    BY <1>0, <1>3 DEF SweepPast, ArmedRule
  <2>2. susp.kind # "commit"
    BY <1>0, <1>1, <2>1
  <2>3. sweep'.at = sweep.at + 1 /\ armed[sweep.at].future # 0
    BY <1>0, <2>1 DEF Sweeps, Pending
  <2>4. \A a \in 1..Len(armed) : sweep.at <= a /\ a # sweep.at => sweep.at + 1 <= a
    BY <1>0
  <2>5. ArmedNow' /\ ActTrue'
    BY <1>0, <2>1, <2>2, <2>3, <2>4, SceneFacts DEF Going, ArmedNow, ActTrue
  <2> QED
    BY <1>0, <2>1, <2>2, <2>5, PlaceInOrder
<1>4. CASE SweepJudge
  <2>0. PICK a, i, r : a = sweep.at /\ i = armed[a].rule /\ r = rules[i]
    OBVIOUS
  <2>1. /\ a \in 1..Len(armed) /\ ~Pending(armed[a].future) /\ ArmedRule = armed[a]
        /\ odd' = (IF Stale(r, armed[a].anon) THEN odd \cup {"stale"} ELSE odd)
        /\ UNCHANGED <<idx, settled, anon, sweep>>
    BY <1>0, <1>4, <2>0 DEF SweepJudge, ArmedRule
  <2>2. ~Stale(r, armed[a].anon)
    BY <2>1 DEF Scene, Undisturbed
  <2>3. susp.kind # "commit"
    BY <1>0, <1>1, <2>1
  <2>4. /\ ResponseFor(r, armed[a].anon) = ValueOf(r.bind, i)
        /\ ArmedResponse(armed[a]) = ValueOf(r.bind, i)
    BY <1>0, <2>0, <2>1, <2>2, <2>3, ArmedResponseTrue
  <2>5. i \in 1..Len(rules) /\ Bound(r) /\ r.race
    BY <2>0, <2>1, SceneFacts DEF WalkInv, ArmedAreRaces
  <2>6. Valid(r)
    BY <2>0, <2>5, SceneFacts, AcceptedList DEF Scene, Undisturbed
  <2>7. r.action \in {"route", "respond", "reject", "predefined"}
    BY <2>5, <2>6 DEF Valid
  <2>8. Match(r, armed[a].anon) <=> Matches(r, ValueOf(r.bind, i))
    BY <2>4, <2>5 DEF Match
  <2>9. Ends(i) <=> Match(r, armed[a].anon) /\ (r.action = "route" => Usable(r.server))
    BY <2>0, <2>5, <2>7, <2>8 DEF Ends
  <2>10. Ends(i) => i \in Promised
    <3>1. PICK k \in 1..idx : Trail(k)
      BY <2>3, SceneFacts DEF Going
    <3> QED
      BY <2>0, <2>1, <3>1, SceneFacts, ArmedWins
  <2>11. CASE /\ ~Match(r, armed[a].anon) \/ (r.action = "route" /\ ~Usable(r.server))
              /\ armed' = Disarmed /\ UNCHANGED <<pc, susp, futures, result>>
    BY <1>0, <2>0, <2>1, <2>3, <2>9, <2>11, DisarmInOrder
  <2>12. CASE /\ Match(r, armed[a].anon) /\ r.action = "route" /\ Usable(r.server)
              /\ CommitRoute(i)
    <3> DEFINE s == [kind |-> "commit", future |-> 0, rule |-> i]
    <3>1. i \in Promised /\ i \in 1..(Len(rules) + 1) /\ rules[i].action = "route"
      BY <2>0, <2>5, <2>9, <2>10, <2>12, SceneFacts
    <3>2. s.kind = "commit" /\ s.future = 0 /\ s.rule = i
      OBVIOUS
    <3>3. CASE sweep.back = "walk"
      <4>1. armed' = <<>> /\ pc' = "settle" /\ susp' = s /\ futures' = futures
        BY <2>12, <3>3 DEF CommitRoute, Suspend
      <4> HIDE DEF s
      <4> QED
        BY <2>1, <2>3, <3>1, <3>2, <4>1, CommitInOrder
    <3>4. CASE sweep.back # "walk"
      <4>1. BeginExchange(s)
        BY <2>12, <3>4 DEF CommitRoute
      <4> HIDE DEF s
      <4> QED
        BY <2>1, <2>3, <3>1, <3>2, <4>1, AskInOrder
    <3> QED
      BY <3>3, <3>4
  <2>13. CASE /\ Match(r, armed[a].anon) /\ r.action # "route"
              /\ Return(i, IF r.action = "respond"
                           THEN ResponseOr(ArmedResponse(armed[a])) ELSE r.action)
    <3>1. i \in Promised /\ ~(i > Len(rules))
      BY <2>5, <2>9, <2>10, <2>13, SceneFacts
    <3>2. Decision(i).out = IF r.action = "respond"
                            THEN ResponseOr(ArmedResponse(armed[a])) ELSE r.action
      BY <2>0, <2>4, <2>5, <2>13, <3>1 DEF Decision
    <3> QED
      BY <2>13, <3>1, <3>2, ReturnInOrder
  <2> QED
    BY <1>4, <2>0, <2>1, <2>11, <2>12, <2>13 DEF SweepJudge
<1> QED
  BY <1>2, <1>3, <1>4

(* A rule with fallback asks: nothing is under way that this could cut off. *)
LEMMA TryInOrder ==
  ASSUME Scene, pc = "resume", susp.kind = "pending", BeginExchange(susp),
         \A f \in 1..Len(futures) : Resolved(f),
         UNCHANGED <<idx, anon, armed>>
  PROVE  InOrder'
<1>1. /\ pc' = "asking" /\ susp' = susp /\ \E S : futures' = Cancelled(S)
  BY DEF BeginExchange
<1>2. /\ SameQueries
      /\ \A f \in 1..Len(futures) :
           /\ futures'[f].server = futures[f].server /\ futures'[f].out = futures[f].out
           /\ Resolved(f)' <=> Resolved(f)
  BY <1>1, SceneFacts, CancelFields
<1>3. FutureRules' /\ FuturesTrue'
  BY <1>1, <1>2, SceneFacts DEF FutureRules, FuturesTrue, SameQueries
<1>4. NamesTrue' /\ ArmedTrue'
  BY <1>2, SameNames
<1>5. armed = <<>> /\ PendingTrue
  BY SceneFacts DEF Going, PendingTrue
<1>6. ArmedNow' /\ ActTrue' /\ PendingTrue' /\ Chosen'
  BY <1>1, <1>5, SceneFacts DEF ArmedNow, ActTrue, PendingTrue, Chosen, Rule
<1>7. PICK k \in 1..idx : Trail(k)
  BY SceneFacts DEF Going
<1>8. Trail(k)'
  BY <1>7, SceneFacts DEF Trail
<1>9. Going'
  BY <1>4, <1>6, <1>7, <1>8 DEF Going
<1> QED
  BY <1>1, <1>3, <1>6, <1>9, SceneFacts DEF InOrder

(* A rule with fallback failed: the promise is that of the rules after it. *)
LEMMA FallInOrder ==
  ASSUME Scene, pc = "asking", susp.kind = "pending", answer[rules[idx].server] # "ok",
         idx' = idx + 1, pc' = "settle", susp'.kind = "none", UNCHANGED <<futures, anon, armed>>
  PROVE  InOrder'
<1>1. /\ armed = <<>> /\ idx \in 1..Len(rules) /\ rules[idx].action = "route"
      /\ rules[idx].fallback /\ ~rules[idx].race /\ Ends(idx) /\ NamesTrue
  BY SceneFacts DEF Going, PendingTrue, Rule
<1>2. From[idx + 1] \subseteq Promised
  BY <1>1, HereChosen
<1>3. FutureRules' /\ FuturesTrue'
  BY SceneFacts DEF FutureRules, FuturesTrue, Resolved
<1>4. SameQueries /\ \A f \in 1..Len(futures) : Resolved(f) => Resolved(f)'
  BY SceneFacts, SameFutures DEF Resolved
<1>5. ArmedTrue'
  BY <1>4, SameNames
<1>6. NamesTrue'
  <2>1. \A t \in Names : Evaluated[idx + 1][t] = Evaluated[idx][t]
    BY <1>1, SceneFacts, EvaluatedNext
  <2>2. \A t : NamedFuture(t)' = NamedFuture(t)
    BY <1>4, SceneFacts, SameStandIns
  <2>3. \A f : RuleOf(f)' = RuleOf(f)
    BY DEF RuleOf
  <2> QED
    BY <1>1, <2>1, <2>2, <2>3, SceneFacts DEF NamesTrue, Names
<1>7. ArmedNow' /\ ActTrue' /\ PendingTrue' /\ Chosen'
  BY <1>1 DEF ArmedNow, ActTrue, PendingTrue, Chosen
<1>8. idx' \in 1..idx' /\ idx' <= Len(rules) + 1 /\ idx'..(idx' - 1) = {}
  BY <1>1, SceneFacts
<1>9. \E k \in 1..idx' : Trail(k)'
  <2>1. PICK k : k = idx + 1
    OBVIOUS
  <2>2. Trail(k)'
    BY <1>1, <1>2, <1>8, <2>1, SceneFacts DEF Trail
  <2> QED
    BY <1>8, <2>1, <2>2
<1>10. Going'
  BY <1>5, <1>6, <1>7, <1>9 DEF Going
<1> QED
  BY <1>3, <1>7, <1>8, <1>10, SceneFacts DEF InOrder

(* resumeExchangeWithRules *)
LEMMA ResumeInOrder ==
  ASSUME Scene, SettleAll \/ Resume \/ Wait \/ Asked \/ AskedInVain
  PROVE  InOrder'
<1>0. ctxDone = FALSE /\ DOMAIN futures = 1..Len(futures)
  BY SceneFacts, Typed DEF Scene, Undisturbed
<1>1. ASSUME pc \notin {"asking", "sweep"}, pc' \notin {"done", "legacy", "asking", "act"},
             UNCHANGED <<idx, susp, futures, anon, armed>>
      PROVE  InOrder'
  <2>1. CASE susp.kind = "commit"
    BY <1>1, <2>1, SceneFacts, CommitInOrder DEF Chosen
  <2>2. CASE susp.kind # "commit"
    <3>1. ArmedNow' /\ ActTrue'
      BY <1>1, <2>2, ArmedLater DEF ActTrue
    <3> QED
      BY <1>1, <2>2, <3>1, PlaceInOrder
  <2> QED
    BY <2>1, <2>2
<1>2. CASE SettleAll
  BY <1>1, <1>2 DEF SettleAll
<1>3. CASE Wait
  BY <1>0, <1>1, <1>3 DEF Wait
<1>4. CASE Resume
  <2>1. /\ pc = "resume" /\ UNCHANGED <<idx, anon, armed>>
    BY <1>4 DEF Resume
  <2>2. CASE pc' \in {"wait", "walk"} /\ UNCHANGED <<susp, futures>>
    BY <1>1, <2>1, <2>2
  <2>3. CASE susp.kind = "commit" /\ BeginExchange(susp)
    BY <2>1, <2>3, SceneFacts, AskInOrder DEF Chosen
  <2>4. CASE /\ susp.kind = "pending" /\ BeginExchange(susp)
             /\ odd' = IF susp.kind = "pending" /\ \E f \in DOMAIN futures : ~Resolved(f)
                       THEN odd \cup {"cut"} ELSE odd
    <3>1. odd' = {}
      BY DEF Scene, Undisturbed
    <3>2. \A f \in 1..Len(futures) : Resolved(f)
      BY <1>0, <2>4, <3>1
    <3> QED
      BY <2>1, <2>4, <3>2, TryInOrder
  <2> QED
    BY <1>4, <2>2, <2>3, <2>4 DEF Resume
<1>5. CASE Asked
  <2>0. pc = "asking" /\ susp.kind \in AskKinds /\ UNCHANGED <<anon, armed>>
    BY <1>5, SceneFacts DEF Asked, WalkInv, AskPlace
  <2>1. PICK out \in IF susp.future # 0
                     THEN {futures[f].out :
                             f \in {susp.future} \cap {g \in DOMAIN futures : Resolved(g)}}
                     ELSE {answer[ServerOf(susp.rule)]} :
          IF susp.kind = "pending" /\ ~ctxDone /\ out \in {"nx", "err"}
          THEN /\ idx' = idx + 1
               /\ pc' = "settle"
               /\ susp' = [kind |-> "none", future |-> 0, rule |-> 0]
               /\ UNCHANGED <<futures, result>>
          ELSE Return(susp.rule, out) /\ UNCHANGED <<idx, susp>>
    BY <1>5 DEF Asked
  <2>2. CASE susp.kind = "pending"
    <3>1. /\ armed = <<>> /\ idx \in 1..Len(rules) /\ rules[idx].action = "route"
          /\ susp.future = 0 /\ susp.rule = idx /\ ~rules[idx].race /\ Ends(idx)
      BY <2>2, SceneFacts DEF Going, PendingTrue, Rule
    <3>2. out = answer[rules[idx].server] /\ ~(idx > Len(rules))
      BY <2>1, <3>1, SceneFacts DEF ServerOf
    <3>3. out \in Answers
      <4>1. rules[idx].server \in Servers
        BY <3>1 DEF Ends, Usable
      <4> QED
        BY <3>2, <4>1, SceneFacts DEF WalkInv, WalkTypes
    <3>4. CASE out \in {"nx", "err"}
      <4>1. /\ idx' = idx + 1 /\ pc' = "settle" /\ susp'.kind = "none" /\ futures' = futures
            /\ out # "ok"
        BY <1>0, <2>1, <2>2, <3>4
      <4> QED
        BY <2>0, <2>2, <3>2, <4>1, FallInOrder
    <3>5. CASE out = "ok"
      <4>1. idx \in Promised
        BY <2>2, <3>1, <3>2, <3>5, HereChosen
      <4>2. Decision(idx).out = out
        BY <3>1, <3>2 DEF Decision
      <4>3. Return(idx, out)
        BY <2>1, <3>1, <3>5
      <4> QED
        BY <4>1, <4>2, <4>3, ReturnInOrder
    <3> QED
      BY <3>3, <3>4, <3>5 DEF Answers
  <2>3. CASE susp.kind = "commit"
    <3>1. /\ susp.rule \in Promised /\ susp.rule \in 1..(Len(rules) + 1)
          /\ susp.rule <= Len(rules) => rules[susp.rule].action = "route"
          /\ susp.future # 0 =>
               susp.future \in 1..Len(futures) /\ futures[susp.future].rule = susp.rule
      BY <2>3, SceneFacts DEF Chosen
    <3>2. Return(susp.rule, out)
      BY <2>1, <2>3
    <3>3. out = answer[ServerOf(susp.rule)]
      <4>1. CASE susp.future = 0
        BY <2>1, <4>1
      <4>2. CASE susp.future # 0
        <5>1. susp.future \in 1..Len(futures) /\ Resolved(susp.future) /\ out = futures[susp.future].out
          BY <2>1, <3>1, <4>2
        <5>2. out = answer[futures[susp.future].server]
          BY <5>1, SceneFacts DEF FuturesTrue
        <5>3. futures[susp.future].server = rules[susp.rule].server
          BY <3>1, <5>1, SceneFacts DEF FutureRules
        <5>4. Passed(futures[susp.future], rules, idx)
          BY <5>1, SceneFacts DEF WalkInv, Launched
        <5>5. ~(susp.rule > Len(rules))
          BY <3>1, <4>2, <5>4, SceneFacts DEF Passed
        <5> QED
          BY <5>2, <5>3, <5>5 DEF ServerOf
      <4> QED
        BY <4>1, <4>2
    <3>4. Decision(susp.rule).out = out
      <4>1. susp.rule > Len(rules) \/ susp.rule <= Len(rules)
        BY <3>1, SceneFacts
      <4> QED
        BY <3>1, <3>3, <4>1 DEF Decision, ServerOf
    <3> QED
      BY <3>1, <3>2, <3>4, ReturnInOrder
  <2> QED
    BY <2>0, <2>2, <2>3 DEF AskKinds
<1>6. CASE AskedInVain
  BY <1>0, <1>6 DEF AskedInVain
<1> QED
  BY <1>2, <1>3, <1>4, <1>5, <1>6

(* Only futures change, and none for the worse. *)
LEMMA StayInOrder ==
  ASSUME Scene, UNCHANGED <<pc, idx, susp, anon, armed, sweep>>, SameQueries,
         \A f \in 1..Len(futures) : Resolved(f) => Resolved(f)',
         FutureRules', FuturesTrue', ActTrue'
  PROVE  InOrder'
<1>1. CASE susp.kind = "commit"
  <2>1. Going' /\ Chosen'
    BY <1>1, SceneFacts DEF Going, Chosen, SameQueries
  <2> QED
    BY <2>1, SceneFacts DEF InOrder
<1>2. CASE susp.kind # "commit"
  <2>1. NamesTrue' /\ ArmedTrue'
    BY <1>2, SameNames
  <2>2. ArmedNow' /\ PendingTrue' /\ Chosen'
    BY <1>2, SceneFacts DEF Going, ArmedNow, PendingTrue, Chosen, Rule
  <2>3. PICK k \in 1..idx : Trail(k)
    BY <1>2, SceneFacts DEF Going
  <2>4. Trail(k)'
    BY <2>3, SceneFacts DEF Trail
  <2>5. Going'
    BY <2>1, <2>2, <2>3, <2>4 DEF Going
  <2> QED
    BY <2>2, <2>5, SceneFacts DEF InOrder
<1> QED
  BY <1>1, <1>2

(* A future gets its answer, or its callback signals. *)
LEMMA CallbackInOrder ==
  ASSUME Scene, Callback
  PROVE  InOrder'
<1>1. PICK f \in 1..Len(futures) : Resolve(f) \/ Signal(f)
  BY DEF Callback
<1>2. /\ UNCHANGED <<pc, idx, susp, settled, anon, armed, sweep>>
      /\ futures \in Seq(Future) /\ Len(futures) \in Nat /\ DOMAIN futures = 1..Len(futures)
  BY <1>1, SceneFacts, Typed DEF Resolve, Signal
<1>3. futures[f] \in Future /\ futures[f].server \in Servers
  <2>1. futures[f] \in Future
    BY <1>2
  <2> QED
    BY <2>1 DEF Future
<1>4. answer[futures[f].server] \in Answers /\ "err" \in Answers
  BY <1>3, SceneFacts DEF WalkInv, WalkTypes, Answers
<1>5. PICK n \in Future :
        /\ futures' = [futures EXCEPT ![f] = n]
        /\ n.rule = futures[f].rule /\ n.tag = futures[f].tag /\ n.server = futures[f].server
        /\ n.state # "flying" /\ (Resolved(f) => n.out = futures[f].out)
        /\ ~Resolved(f) /\ ~futures[f].cancelled => n.out = answer[futures[f].server]
  <2>1. CASE Resolve(f)
    <3>1. PICK out \in Answers :
            /\ futures' = [futures EXCEPT ![f].state = "closed", ![f].out = out]
            /\ ~futures[f].cancelled => out = answer[futures[f].server]
      BY <1>4, <2>1 DEF Resolve
    <3> DEFINE n == [futures[f] EXCEPT !.state = "closed", !.out = out]
    <3>2. futures' = [futures EXCEPT ![f] = n]
      BY <1>2, <3>1
    <3>3. n \in Future
      BY <1>3 DEF Future
    <3>4. /\ n.rule = futures[f].rule /\ n.tag = futures[f].tag /\ n.server = futures[f].server
          /\ n.state = "closed" /\ n.out = out
      BY <1>3 DEF Future
    <3>5. ~Resolved(f)
      BY <2>1 DEF Resolve
    <3> HIDE DEF n
    <3> QED
      BY <3>1, <3>2, <3>3, <3>4, <3>5
  <2>2. CASE Signal(f)
    <3> DEFINE n == [futures[f] EXCEPT !.state = "signalled"]
    <3>1. futures' = [futures EXCEPT ![f] = n]
      BY <2>2 DEF Signal
    <3>2. n \in Future
      BY <1>3 DEF Future
    <3>3. /\ n.rule = futures[f].rule /\ n.tag = futures[f].tag /\ n.server = futures[f].server
          /\ n.state = "signalled" /\ n.out = futures[f].out
      BY <1>3 DEF Future
    <3>4. Resolved(f)
      BY <2>2 DEF Signal, Resolved
    <3> HIDE DEF n
    <3> QED
      BY <3>1, <3>2, <3>3, <3>4
  <2> QED
    BY <1>1, <2>1, <2>2
<1>6. /\ futures' \in Seq(Future) /\ Len(futures') = Len(futures)
      /\ \A g \in 1..Len(futures) : futures'[g] = IF g = f THEN n ELSE futures[g]
  BY <1>2, <1>5
<1>7. SameQueries
  BY <1>5, <1>6 DEF SameQueries
<1>8. \A g \in 1..Len(futures) :
        /\ Resolved(g) => Resolved(g)' /\ (futures'[g].out = futures[g].out)
        /\ futures'[g].server = futures[g].server
  BY <1>5, <1>6 DEF Resolved
<1>9. FutureRules'
  BY <1>5, <1>6, SceneFacts DEF FutureRules
<1>10. FuturesTrue'
  <2> SUFFICES ASSUME NEW g \in 1..Len(futures), pc = "asking" /\ susp.kind = "commit" => g = susp.future
               PROVE  (IF Resolved(g) THEN futures[g].out = answer[futures[g].server]
                       ELSE ~futures[g].cancelled)'
    BY <1>2, <1>6 DEF FuturesTrue
  <2>1. IF Resolved(g) THEN futures[g].out = answer[futures[g].server] ELSE ~futures[g].cancelled
    BY SceneFacts DEF FuturesTrue
  <2>2. CASE g = f
    BY <1>5, <1>6, <2>1, <2>2, SceneFacts DEF Resolved
  <2>3. CASE g # f
    BY <1>6, <2>1, <2>3, SceneFacts DEF Resolved
  <2> QED
    BY <2>2, <2>3
<1>11. ActTrue'
  <2> SUFFICES ASSUME pc = "act" PROVE ActTrue'
    BY <1>2 DEF ActTrue
  <2>1. susp.kind # "commit" /\ idx \in 1..Len(rules) /\ Bound(rules[idx])
    BY SceneFacts DEF WalkInv, AskPlace, AskKinds, AtRule, Rule
  <2>2. PICK r, a, g : r = rules[idx] /\ a = anon /\ g = Referred(r, a)
    OBVIOUS
  <2>3. /\ ~Pending(g) /\ ResponseFor(r, a) = ValueOf(r.bind, idx)
        /\ Matches(r, ValueOf(r.bind, idx))
    BY <2>1, <2>2, SceneFacts DEF Going, ActTrue, Rule
  <2>4. g \in 0..Len(futures)
    <3>1. r.bind \in Names /\ NamesTrue
      BY <2>1, <2>2, SceneFacts, AcceptedList DEF Going, Scene, Undisturbed
    <3> QED
      BY <2>2, <3>1, SceneFacts, NamesHere DEF Referred
  <2>5. g = 0 \/ (g \in 1..Len(futures) /\ Resolved(g))
    BY <1>2, <2>3, <2>4 DEF Pending
  <2>6. Referred(r, a)' = g /\ ~Pending(g)' /\ View(g)' = View(g)
    <3>1. Referred(r, a)' = g
      BY <1>7, <2>2, SceneFacts, SameStandIns
    <3>2. ~Pending(g)'
      BY <1>8, <2>5 DEF Pending
    <3>3. View(g)' = View(g)
      BY <1>8, <2>5 DEF View
    <3> QED
      BY <3>1, <3>2, <3>3
  <2>7. ResponseFor(r, a)' = ResponseFor(r, a)
    BY <1>2, <2>2, <2>6 DEF ResponseFor
  <2>8. Rule' = r /\ anon' = a /\ idx' = idx
    BY <1>2, <2>2, SceneFacts DEF Rule
  <2>9. PICK i : i = idx
    OBVIOUS
  <2>10. ValueOf(r.bind, i)' = ValueOf(r.bind, i)
    BY SceneFacts
  <2> QED
    BY <2>3, <2>6, <2>7, <2>8, <2>9, <2>10 DEF ActTrue, Matches
<1> QED
  BY <1>2, <1>7, <1>8, <1>9, <1>10, <1>11, StayInOrder

(* A query starts at the first rule, with everything promised ahead of it. *)
LEMMA InitOrder == InitWalk => OrderInv
<1> SUFFICES ASSUME InitWalk, Undisturbed PROVE InOrder
  BY DEF OrderInv, InitWalk
<1>1. /\ rules \in Lists /\ pc = "walk" /\ idx = 1 /\ susp.kind = "none"
      /\ futures = <<>> /\ anon = 0 /\ armed = <<>> /\ Len(futures) = 0 /\ Len(armed) = 0
  BY DEF InitWalk, Undisturbed
<1>2. Len(rules) \in Nat /\ WalkInv
  BY <1>1, ListsAssumption, InitWalkInv
<1>3. FutureRules /\ FuturesTrue /\ ArmedTrue /\ ArmedNow
  BY <1>1 DEF FutureRules, FuturesTrue, ArmedTrue, ArmedNow
<1>4. ActTrue /\ PendingTrue /\ Chosen
  BY <1>1 DEF ActTrue, PendingTrue, Chosen
<1>5. NamesTrue
  <2>1. \A t \in Names : Evaluated[1][t] = 0
    BY <1>1, EvaluatedNext
  <2>2. ASSUME NEW t PROVE NamedFuture(t) = 0
    <3>1. {f \in DOMAIN futures : futures[f].tag = t} = {}
      BY <1>1
    <3> QED
      BY <3>1 DEF NamedFuture
  <2> QED
    BY <1>1, <2>1, <2>2 DEF NamesTrue, RuleOf, Names
<1>6. Trail(1)
  <2>1. Promised = From[1]
    BY DEF Promised, From
  <2> QED
    BY <1>1, <2>1 DEF Trail
<1>7. Going
  BY <1>1, <1>3, <1>4, <1>5, <1>6 DEF Going
<1> QED
  BY <1>1, <1>2, <1>3, <1>4, <1>7 DEF InOrder

(* Every step keeps to what the listed order promises. *)
LEMMA NextOrder == WalkInv /\ WalkInv' /\ OrderInv /\ [NextWalk]_walkVars => OrderInv'
<1> SUFFICES ASSUME WalkInv, WalkInv', OrderInv, [NextWalk]_walkVars PROVE OrderInv'
  OBVIOUS
<1>0. UNCHANGED config
  BY DEF NextWalk, Walk, Callback, SettleRule, Arm, Await, Judge, RouteOptions, Evaluate, Respond,
         Route, Reply, RulesEnd, SweepEnd, SweepPast, SweepJudge, SettleAll, Resume, Wait, Asked,
         AskedInVain, LegacySkip, LegacyReply, LegacyAsk, Resolve, Signal, CallerGone, Hold,
         walkVars, config
<1>1. odd \subseteq odd' /\ (ctxDone => ctxDone')
  <2>1. CASE Judge \/ SweepJudge
    <3>1. ctxDone' = ctxDone /\ (odd' = odd \/ odd' = odd \cup {"stale"})
      BY <2>1, Zenon DEF Judge, SweepJudge
    <3> QED
      BY <3>1
  <2>2. CASE Resume
    <3>1. ctxDone' = ctxDone /\ (odd' = odd \/ odd' = odd \cup {"cut"})
      BY <2>2, Zenon DEF Resume
    <3> QED
      BY <3>1
  <2>3. CASE ~(Judge \/ SweepJudge \/ Resume)
    <3>1. odd' = odd /\ (ctxDone' = ctxDone \/ ctxDone' = TRUE)
      BY <2>3 DEF NextWalk, Walk, Callback, SettleRule, Arm, Await, RouteOptions, Evaluate, Respond,
         Route, Reply, RulesEnd, SweepEnd, SweepPast, SettleAll, Wait, Asked, AskedInVain,
         LegacySkip, LegacyReply, LegacyAsk, Resolve, Signal, CallerGone, Hold, walkVars
    <3> QED
      BY <3>1
  <2> QED
    BY <2>1, <2>2, <2>3
<1>2. Accepted(rules)'
  BY <1>0, OrderFixed DEF OrderInv
<1> SUFFICES ASSUME Undisturbed' PROVE InOrder'
  BY <1>2 DEF OrderInv
<1>3. Undisturbed
  BY <1>0, <1>1, OrderFixed DEF Undisturbed
<1>4. InOrder
  BY <1>3 DEF OrderInv
<1>5. CASE pc = "done"
  <2>1. pc' = pc /\ result' = result
    BY <1>5 DEF NextWalk, Walk, Callback, SettleRule, Arm, Await, Judge, RouteOptions, Evaluate,
         Respond, Route, Reply, RulesEnd, SweepEnd, SweepPast, SweepJudge, SettleAll, Resume, Wait,
         Asked, AskedInVain, LegacySkip, LegacyReply, LegacyAsk, Resolve, Signal, CallerGone,
         Acting, walkVars
  <2> QED
    BY <1>0, <1>4, <1>5, <2>1, OrderFixed DEF InOrder
<1>6. CASE pc # "done"
  <2>1. Scene
    BY <1>0, <1>3, <1>4, <1>6 DEF Scene, OrderInv
  <2>2. pc # "legacy" /\ ~CallerGone
    BY <2>1, SceneFacts DEF CallerGone, Scene, Undisturbed
  <2>3. CASE RouteOptions
    <3>1. Acting("options") /\ NextRule /\ UNCHANGED <<susp, armed, futures, anon>>
      BY <2>3 DEF RouteOptions
    <3>2. /\ idx \in 1..Len(rules) /\ rules[idx].action = "options"
          /\ susp.kind \notin AskKinds /\ pc \in {"act", "walk"}
      BY <2>1, <3>1, ActingHolds
    <3>3. ~Ends(idx)
      BY <3>2 DEF Ends
    <3> QED
      BY <2>1, <3>1, <3>2, <3>3, SkipInOrder
  <2>4. CASE UNCHANGED walkVars
    <3>1. UNCHANGED <<pc, idx, susp, futures, settled, anon, armed, sweep>>
      BY <2>4 DEF walkVars
    <3>2. SameQueries
      BY <3>1, SameFutures
    <3>3. FutureRules' /\ FuturesTrue' /\ \A f \in 1..Len(futures) : Resolved(f) => Resolved(f)'
      BY <2>1, <3>1, SceneFacts DEF FutureRules, FuturesTrue, Resolved
    <3>4. \A r, a : Referred(r, a)' = Referred(r, a)
      BY <3>2, SameStandIns
    <3>5. \A r, a : ResponseFor(r, a)' = ResponseFor(r, a) /\ \A f : Pending(f)' <=> Pending(f)
      BY <3>1, <3>4 DEF ResponseFor, View, Pending, Resolved
    <3>6. Rule' = Rule
      BY <2>1, <3>1, SceneFacts DEF Rule
    <3>7. pc = "act" => susp.kind # "commit"
      BY <2>1, SceneFacts DEF WalkInv, AskPlace, AskKinds
    <3>8. ActTrue'
      BY <2>1, <3>1, <3>4, <3>5, <3>6, <3>7, SceneFacts DEF Going, ActTrue, Matches
    <3> QED
      BY <2>1, <3>1, <3>2, <3>3, <3>8, StayInOrder
  <2>5. ~(LegacySkip \/ LegacyReply \/ LegacyAsk)
    BY <2>2 DEF LegacySkip, LegacyReply, LegacyAsk
  <2> QED
    BY <2>1, <2>2, <2>3, <2>4, <2>5, JudgeInOrder, EvaluateInOrder, RespondInOrder, RouteInOrder,
       ReplyInOrder, EndInOrder, SweepInOrder, ResumeInOrder, CallbackInOrder
    DEF NextWalk, Walk
<1> QED
  BY <1>5, <1>6

(* The invariant behind the order of the outcome. *)
THEOREM OrderInvariance == WalkSpec => []OrderInv
  BY WalkInvariance, InitOrder, NextOrder, PTL DEF WalkSpec

(* OrderedOutcome for every rule list the router accepts, every set of       *)
(* servers and every answer: where walkDNSRules judged no rule between       *)
(* settling and looking, no fallback cut off an evaluate and the legacy      *)
(* loops passed on no failure a fallback was to catch, a query whose caller  *)
(* stays returns what one of the promised rules decides, however the         *)
(* answers, the sweeps and the walk interleave.                              *)
THEOREM WalkKeepsOrder == WalkSpec => []OrderedOutcome
<1>1. LegacyInOrder /\ OrderInv => OrderedOutcome
  BY DEF LegacyInOrder, OrderInv, Undisturbed, InOrder, OrderedOutcome, SpeedOnlyAmongRaces
<1> QED
  BY <1>1, OrderInvariance, LegacyKeepsOrder, PTL
=============================================================================
