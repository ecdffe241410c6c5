---------------------------- MODULE TrafficStats ----------------------------
(***************************************************************************)
(* The traffic counters of a selector session: the core counts the bytes   *)
(* of the selector's tag, TrafficLooper collects them into the item of the *)
(* selected node, and stop(), persistStats() and selectMain() carry the    *)
(* items through the shared ProxyEntity objects into the database, which   *)
(* the user may clear from the other process.  One direction is modelled;  *)
(* uplink and downlink are handled alike.  The sweep holds statsLock over  *)
(* many steps, everything else under statsLock is one step.  updateTraffic *)
(* reads the entity for the arguments of its statement and then waits for  *)
(* the database's writer: two steps.  profileTrafficStatistics is asked    *)
(* anew at every use and the user may have changed it in between.          *)
(***************************************************************************)
EXTENDS SelectorGroup, FiniteSetsExt

CONSTANTS
  MaxSent,     \* bound on the bytes carried
  MaxSwitches  \* bound on the switches

VARIABLES
  phase,     \* "empty" before the fill, then "run"; after stop() has joined the loop
             \* "joined", or "off" when statistics are off and it writes nothing
  counter,   \* the core's counter of the tag "proxy"
  rx,        \* idMap[n].rx
  counted,   \* items with ignore = false, and so with the tag "proxy"
  sweep,     \* "free", or "held" while updateAll runs under statsLock
  todo,      \* items updateAll has not visited
  diff,      \* the diff updateAll keeps for the tag, -1 before the query
  ent,       \* the entity's rx, shared by all writers of the database
  writes,    \* calls of updateTraffic: their job (0 is stop()/persistStats(), k is
             \* posted by switch k), node and the rx they have read, -1 before
  unsaved,   \* nodes that stop()/persistStats() still has to write
  db,        \* the rx column
  clearing,  \* ids of a CLEAR_TRAFFIC_STATISTICS broadcast under way
  sent, switches,           \* bounded inputs
  carried, lost, fresh,     \* history: bytes filled in, bytes dropped by clearStats,
                            \* bytes collected per node since the user cleared
  cleared, dropped,         \* history: the user has cleared; nodes whose item was
                            \* dropped in answer to it
  stale                     \* history: nodes whose row was last written with a value
                            \* that was no longer the entity's

loopVars == <<phase, counter, rx, counted, now, sweep, todo, diff>>
saveVars == <<ent, writes, unsaved, db, stale>>
clearVars == <<clearing, lost, cleared, dropped>>
vars == <<loopVars, saveVars, clearVars, sent, switches, carried, fresh>>

SumOver(f) == MapThenSumSet(LAMBDA n : f[n], Nodes)

Filled == phase # "empty"

TypeOK ==
  /\ phase \in {"empty", "run", "joined", "off"}
  /\ {rx, ent, db, fresh} \subseteq [Nodes -> Nat]
  /\ {counter, sent, switches, carried, lost} \subseteq Nat
  /\ now \in Nodes \cup {None}
  /\ counted = IF Filled THEN {now} ELSE {}
  /\ sweep \in {"free", "held"} /\ todo \subseteq Nodes /\ diff \in Nat \cup {-1}
  /\ writes \subseteq [job : Nat, node : Nodes, rx : Nat \cup {-1}]
  /\ {unsaved, clearing, dropped, stale} \subseteq SUBSET Nodes
  /\ cleared \in BOOLEAN

Init ==
  /\ phase = "empty" /\ counter = 0 /\ rx = [n \in Nodes |-> 0]
  /\ counted = {} /\ now = None /\ sweep = "free" /\ todo = {} /\ diff = -1
  /\ db \in [Nodes -> 0..1] /\ ent = db
  /\ writes = {} /\ unsaved = {} /\ stale = {} /\ clearing = {}
  /\ sent = 0 /\ switches = 0 /\ carried = 0 /\ lost = 0
  /\ fresh = [n \in Nodes |-> 0] /\ cleared = FALSE /\ dropped = {}

(* A byte through the selector.  Bytes sent before setV2rayStats names the   *)
(* tag are not counted by anybody.                                           *)
Send ==
  /\ Filled /\ sent < MaxSent
  /\ counter' = counter + 1 /\ sent' = sent + 1
  /\ UNCHANGED <<phase, rx, counted, now, sweep, todo, diff, saveVars, clearVars,
                 switches, carried, fresh>>

(* The loop's first round, under statsLock: items start from the entities,   *)
(* and selectMain(mainEntId) makes one of them count.                        *)
Fill ==
  /\ phase = "empty"
  /\ phase' = "run"
  /\ rx' = ent /\ carried' = SumOver(ent)
  /\ counted' = {Main} /\ now' = Main
  /\ UNCHANGED <<counter, sweep, todo, diff, saveVars, clearVars, sent, switches, fresh>>

-----------------------------------------------------------------------------
(* TrafficUpdater.updateAll, under statsLock *)

SweepBegin ==
  /\ phase = "run" /\ sweep = "free"
  /\ sweep' = "held" /\ todo' = Nodes /\ diff' = -1
  /\ UNCHANGED <<phase, counter, rx, counted, now, saveVars, clearVars, sent, switches,
                 carried, fresh>>

Credit(n, bytes) ==
  /\ rx' = [rx EXCEPT ![n] = @ + bytes]
  /\ fresh' = [fresh EXCEPT ![n] = @ + bytes]

(* GetStats with reset: the bytes since the last call, kept for the tag. *)
GetStats == diff' = counter /\ counter' = 0

(* One item: ignored; the first of its tag, for which queryStats empties the *)
(* core's counter, or, when no time has passed since its last update,        *)
(* nothing is asked and the item itself is kept as the diff; or credited     *)
(* with the diff kept for its tag.                                           *)
SweepOne(n) ==
  /\ sweep = "held" /\ n \in todo
  /\ todo' = todo \ {n}
  /\ \/ n \notin counted /\ UNCHANGED <<counter, rx, fresh, diff>>
     \/ /\ n \in counted /\ diff = -1
        /\ Credit(n, counter) /\ GetStats
     \/ /\ n \in counted /\ diff = -1
        /\ diff' = rx[n] /\ UNCHANGED <<counter, rx, fresh>>
     \/ /\ n \in counted /\ diff # -1
        /\ Credit(n, diff) /\ UNCHANGED <<counter, diff>>
  /\ UNCHANGED <<phase, counted, now, sweep, saveVars, clearVars, sent, switches, carried>>

SweepEnd ==
  /\ sweep = "held" /\ todo = {}
  /\ sweep' = "free" /\ diff' = -1
  /\ UNCHANGED <<phase, counter, rx, counted, now, todo, saveVars, clearVars, sent,
                 switches, carried, fresh>>

-----------------------------------------------------------------------------
(* selectMain *)

Switch(n) ==
  /\ Filled /\ switches < MaxSwitches
  /\ switches' = switches + 1
  /\ counted' = (counted \ {now}) \cup {n} /\ now' = n
  /\ \/ /\ ent' = [ent EXCEPT ![now] = rx[now]]
        /\ writes' = writes \cup {[job |-> switches', node |-> now, rx |-> -1]}
     \/ UNCHANGED <<ent, writes>> \* statistics are off
  /\ UNCHANGED <<phase, counter, rx, sweep, todo, diff, unsaved, db, stale, clearVars, sent,
                 carried, fresh>>

(* Mutant: selectMain does not take statsLock. *)
MutSelectMain(n) == Switch(n)

SelectMain(n) == sweep = "free" /\ Switch(n)

-----------------------------------------------------------------------------
(* updateTraffic, from stop(), persistStats() or a coroutine that selectMain *)
(* has posted                                                                *)

(* The arguments of the statement: what the entity holds now. *)
EvaluateWrite(w) ==
  /\ w \in writes /\ w.rx = -1
  /\ writes' = (writes \ {w}) \cup {[w EXCEPT !.rx = ent[w.node]]}
  /\ UNCHANGED <<loopVars, ent, unsaved, db, stale, clearVars, sent, switches, carried, fresh>>

(* The statement itself, when the writer is free. *)
CommitWrite(w) ==
  /\ w \in writes /\ w.rx # -1
  /\ writes' = writes \ {w}
  /\ db' = [db EXCEPT ![w.node] = w.rx]
  /\ stale' = IF w.rx = ent[w.node] THEN stale \ {w.node} ELSE stale \cup {w.node}
  /\ UNCHANGED <<loopVars, ent, unsaved, clearVars, sent, switches, carried, fresh>>

-----------------------------------------------------------------------------
(* stop() and persistStats() *)

Persisting == unsaved # {} \/ \E w \in writes : w.job = 0

(* The loop has ended; unless statistics are off, every item is persisted.   *)
Finish ==
  /\ phase = "run" /\ ~Persisting
  /\ \/ phase' = "joined" /\ unsaved' = Nodes
     \/ phase' = "off" /\ unsaved' = {}
  /\ UNCHANGED <<counter, rx, counted, now, sweep, todo, diff, ent, writes, db, stale,
                 clearVars, sent, switches, carried, fresh>>

(* Mutant: cancel() instead of cancelAndJoin(). *)
MutStop == Finish

(* stop() joins the loop, which notices only between sweeps.  Like           *)
(* persistStats() it blocks the main thread, so one waits for the other.     *)
(* Before the fill it finds no item to write.                                *)
Stop == sweep = "free" /\ Finish

(* ACTION_SHUTDOWN: the same without stopping the loop or locking it out.    *)
Shutdown ==
  /\ phase = "run" /\ ~Persisting
  /\ unsaved' = Nodes
  /\ UNCHANGED <<loopVars, ent, writes, db, stale, clearVars, sent, switches, carried, fresh>>

(* ent.rx = item.rx, and updateTraffic(ent) is called.  The items are taken  *)
(* one after the other.                                                      *)
PersistItem(n) ==
  /\ n \in unsaved /\ \A w \in writes : w.job # 0
  /\ unsaved' = unsaved \ {n}
  /\ ent' = [ent EXCEPT ![n] = rx[n]]
  /\ writes' = writes \cup {[job |-> 0, node |-> n, rx |-> -1]}
  /\ UNCHANGED <<loopVars, db, stale, clearVars, sent, switches, carried, fresh>>

-----------------------------------------------------------------------------
(* "Clear traffic statistics" in the app *)

(* toClear: rows of the shown group whose columns were not zero when they    *)
(* were read.  They are zeroed in one transaction, and their ids are         *)
(* broadcast to :bg.                                                         *)
UiClear ==
  /\ ~cleared /\ cleared' = TRUE
  /\ \E toClear \in (SUBSET {n \in Nodes : db[n] # 0}) \ {{}} :
       /\ clearing' = toClear
       /\ db' = [n \in Nodes |-> IF n \in toClear THEN 0 ELSE db[n]]
       /\ fresh' = [n \in Nodes |-> IF n \in toClear THEN 0 ELSE fresh[n]]
  /\ UNCHANGED <<loopVars, ent, writes, unsaved, stale, sent, switches, carried, lost, dropped>>

(* Mutant: the broadcast is acknowledged but the items keep their totals. *)
MutClearStats ==
  /\ clearing # {} /\ sweep = "free"
  /\ clearing' = {}
  /\ dropped' = IF phase = "run" THEN clearing ELSE {}
  /\ UNCHANGED <<loopVars, saveVars, lost, cleared, sent, switches, carried, fresh>>

(* clearStats, under statsLock: the items of these ids, if there are any     *)
ClearStats ==
  /\ clearing # {} /\ sweep = "free"
  /\ clearing' = {}
  /\ rx' = [n \in Nodes |-> IF n \in clearing THEN 0 ELSE rx[n]]
  /\ lost' = lost + SumOver(rx) - SumOver(rx')
  /\ dropped' = IF phase = "run" THEN clearing ELSE {}
  /\ UNCHANGED <<phase, counter, counted, now, sweep, todo, diff, saveVars, cleared, sent,
                 switches, carried, fresh>>

Next ==
  \/ Send \/ Fill \/ SweepBegin \/ SweepEnd \/ Stop \/ Shutdown \/ UiClear \/ ClearStats
  \/ \E n \in Nodes : SweepOne(n) \/ SelectMain(n) \/ PersistItem(n)
  \/ \E w \in writes : EvaluateWrite(w) \/ CommitWrite(w)

Spec == Init /\ [][Next]_vars

-----------------------------------------------------------------------------
(* Properties *)

(* The session is over, its totals were to be kept, and every write on its   *)
(* way has been made.                                                        *)
Over == phase = "joined" /\ unsaved = {} /\ writes = {} /\ clearing = {}

(* No byte is counted twice or lost, at any moment of a sweep ("would        *)
(* otherwise add the same TAG_PROXY diff to both the old and the new item"). *)
Conservation == Filled => SumOver(rx) + counter + lost = sent + carried

(* The final totals of stop() are those of the finished loop, however late   *)
(* the writes of switches are made, unless the last write of the row had     *)
(* read the entity before it got its final value.                            *)
FinalTotals == Over /\ ~cleared => \A n \in Nodes \ stale : db[n] = rx[n]

(* Once the running loop has dropped a node's item, no writer brings the     *)
(* totals of before the clear back, with the same exception.                 *)
ClearHolds == Over => \A n \in dropped \ stale : db[n] <= fresh[n]

(* The clear of TrafficLooper and ConfigurationFragment without it: "drop    *)
(* the counters this loop carries for them too, or the next                  *)
(* persistStats/stop writes the pre-clear totals straight back".  It fails:  *)
(* a posted write that has read the entity before the clear can be made      *)
(* after the write of stop().                                                *)
ClearIsFinal == Over => \A n \in dropped : db[n] <= fresh[n]
=============================================================================
