------------------------ MODULE SelectorSessionProofs ------------------------
(***************************************************************************)
(* Proofs about a session of a selector group: Selector, the way of a pick *)
(* to the core, to selectedProxy and to the looper, and TrafficStats, what *)
(* the looper counts and writes for the nodes.  The number of nodes,       *)
(* calls, picks, switches and bytes is arbitrary.                          *)
(***************************************************************************)
EXTENDS Selector, TrafficStats, FiniteSetTheorems, WellFoundedInduction, TLAPS

-----------------------------------------------------------------------------
(* Picks that wait for one another: one is under way at most, and it is at   *)
(* one of five places.                                                       *)

Idle == \A c \in Calls : pc[c] = "idle"
Drained == events = <<>> /\ callbacks = <<>>

Only(c, place) ==
  pc[c] = place /\ (\A d \in Calls \ {c} : pc[d] = "idle") /\ Drained

(* The looper is at the core's node, or will be when it fills its items. *)
InStep == odd \cap {"overlap", "early"} = {} => now = core \/ (now = None /\ core = Main)

Settled == Idle /\ Drained /\ core = picked /\ selected = picked /\ InStep

Reloading == \E c \in Calls : Only(c, "reload") /\ selected = picked /\ InStep

(* A pick in the app has written selectedProxy, one in the web UI has not,   *)
(* and that of an unknown tag changes nothing.                               *)
Swapping ==
  \E c \in Calls :
    /\ Only(c, "swap") /\ selected \in {picked, core} /\ InStep
    /\ IF arg[c] = None THEN core = picked /\ selected = picked ELSE arg[c] = picked

Reporting == \E c \in Calls : Only(c, "callback") /\ arg[c] = picked /\ core = picked

Queued == Idle /\ events = <<picked>> /\ callbacks = <<>> /\ core = picked

Telling ==
  /\ Idle /\ events = <<>> /\ callbacks = <<picked>>
  /\ core = picked /\ selected = picked /\ InStep

OneAtATime ==
  "overlap" \notin odd =>
    Settled \/ Reloading \/ Swapping \/ Reporting \/ Queued \/ Telling

(* A switch the core reports is to a node it knows. *)
KnownTag == \A c \in Calls : pc[c] = "callback" => arg[c] \in Nodes

SelInv == SelectorTypeOK /\ KnownTag /\ OneAtATime

(* Nothing has been picked initially. *)
LEMMA InitSelInv == InitSelector => SelInv
  BY GroupAssumption, PicksAssumption
  DEF InitSelector, SelInv, SelectorTypeOK, KnownTag, OneAtATime, Settled, Idle, Drained, InStep

(* A call that moves stays among the places. *)
LEMMA GotoTypes ==
  ASSUME SelectorTypeOK, NEW c \in Calls, NEW from,
         NEW to \in {"idle", "reload", "swap", "callback"}, Goto(c, from, to)
  PROVE  /\ pc' \in [Calls -> {"idle", "reload", "swap", "callback"}]
         /\ pc[c] = from /\ pc'[c] = to
         /\ \A d \in Calls : d # c => pc'[d] = pc[d]
  BY DEF SelectorTypeOK, Goto

(* A pick is counted, and is a node or changes nothing. *)
LEMMA PicksTypes ==
  ASSUME SelectorTypeOK, NEW n \in Nodes \cup {None}, Picks(n)
  PROVE  picks' \in 0..MaxPicks /\ picked' \in Nodes
  BY PicksAssumption DEF SelectorTypeOK, Picks

(* Types are kept, and a call reports only after a swap to a known node. *)
LEMMA NextTypeOK == SelectorTypeOK /\ KnownTag /\ [NextSelector]_selectorVars => (SelectorTypeOK /\ KnownTag)'
<1> SUFFICES ASSUME SelectorTypeOK, KnownTag, [NextSelector]_selectorVars PROVE (SelectorTypeOK /\ KnownTag)'
  OBVIOUS
<1>1. ASSUME NEW c \in Calls, Reload(c) PROVE (SelectorTypeOK /\ KnownTag)'
  <2>1. /\ pc' \in [Calls -> {"idle", "reload", "swap", "callback"}]
        /\ pc'[c] = "swap" /\ \A d \in Calls : d # c => pc'[d] = pc[d]
    BY <1>1, GotoTypes DEF Reload
  <2>2. arg' \in [Calls -> Nodes \cup {None}] /\ \A d \in Calls : d # c => arg'[d] = arg[d]
    BY <1>1 DEF Reload, SelectorTypeOK
  <2> QED
    BY <1>1, <2>1, <2>2 DEF Reload, SelectorTypeOK, KnownTag
<1>2. ASSUME NEW c \in Calls, Swap(c) PROVE (SelectorTypeOK /\ KnownTag)'
  <2>1. /\ pc' \in [Calls -> {"idle", "reload", "swap", "callback"}]
        /\ pc'[c] = IF arg[c] \in {core, None} THEN "idle" ELSE "callback"
        /\ \A d \in Calls : d # c => pc'[d] = pc[d]
    BY <1>2, GotoTypes DEF Swap
  <2>2. core' \in Nodes /\ (arg[c] # None => arg[c] \in Nodes)
    BY <1>2 DEF Swap, SelectorTypeOK
  <2> QED
    BY <1>2, <2>1, <2>2 DEF Swap, SelectorTypeOK, KnownTag
<1>3. ASSUME NEW c \in Calls, Report(c) PROVE (SelectorTypeOK /\ KnownTag)'
  <2>1. /\ pc' \in [Calls -> {"idle", "reload", "swap", "callback"}]
        /\ pc[c] = "callback" /\ pc'[c] = "idle" /\ \A d \in Calls : d # c => pc'[d] = pc[d]
    BY <1>3, GotoTypes DEF Report
  <2>2. events' \in Seq(Nodes)
    <3>1. arg[c] \in Nodes /\ events \in Seq(Nodes)
      BY <2>1 DEF SelectorTypeOK, KnownTag
    <3> QED
      BY <1>3, <3>1 DEF Report
  <2> QED
    BY <1>3, <2>1, <2>2 DEF Report, SelectorTypeOK, KnownTag
<1>4. ASSUME NEW c \in Calls, NEW n \in Nodes, Pick(c, n) PROVE (SelectorTypeOK /\ KnownTag)'
  <2>1. /\ pc' \in [Calls -> {"idle", "reload", "swap", "callback"}]
        /\ pc'[c] = "reload" /\ \A d \in Calls : d # c => pc'[d] = pc[d]
    BY <1>4, GotoTypes DEF Pick
  <2>2. picks' \in 0..MaxPicks /\ picked' \in Nodes
    BY <1>4, PicksTypes DEF Pick
  <2>3. odd' \subseteq {"overlap", "web", "early"}
    BY <1>4 DEF Pick, Overlap, SelectorTypeOK
  <2> QED
    BY <1>4, <2>1, <2>2, <2>3 DEF Pick, SelectorTypeOK, KnownTag
<1>5. ASSUME NEW c \in Calls, NEW n \in Nodes \cup {None}, WebPick(c, n)
      PROVE  (SelectorTypeOK /\ KnownTag)'
  <2>1. /\ pc' \in [Calls -> {"idle", "reload", "swap", "callback"}]
        /\ pc'[c] = "swap" /\ \A d \in Calls : d # c => pc'[d] = pc[d]
    BY <1>5, GotoTypes DEF WebPick
  <2>2. picks' \in 0..MaxPicks /\ picked' \in Nodes
    BY <1>5, PicksTypes DEF WebPick
  <2>3. odd' \subseteq {"overlap", "web", "early"}
    BY <1>5 DEF WebPick, Overlap, SelectorTypeOK
  <2>4. arg' \in [Calls -> Nodes \cup {None}] /\ \A d \in Calls : d # c => arg'[d] = arg[d]
    BY <1>5 DEF WebPick, SelectorTypeOK
  <2> QED
    BY <1>5, <2>1, <2>2, <2>3, <2>4 DEF WebPick, SelectorTypeOK, KnownTag
<1>6. CASE Handle
  <2>1. Head(events) \in Nodes /\ events' \in Seq(Nodes)
    BY <1>6 DEF Handle, SelectorTypeOK
  <2>2. callbacks' \in Seq(Nodes)
    <3>1. \A s \in Seq(Nodes), n \in Nodes : Append(s, n) \in Seq(Nodes)
      OBVIOUS
    <3>2. callbacks \in Seq(Nodes)
      BY DEF SelectorTypeOK
    <3> QED
      BY <1>6, <2>1, <3>1, <3>2, Zenon DEF Handle
  <2> QED
    BY <1>6, <2>1, <2>2 DEF Handle, SelectNow, SelectorTypeOK, KnownTag
<1>7. CASE UiUpdate
  <2>1. Head(callbacks) \in Nodes /\ callbacks' \in Seq(Nodes)
    BY <1>7 DEF UiUpdate, SelectorTypeOK
  <2> QED
    BY <1>7, <2>1 DEF UiUpdate, SelectorTypeOK, KnownTag
<1>8. CASE FillNow
  BY <1>8, GroupAssumption DEF FillNow, SelectorTypeOK, KnownTag
<1>9. CASE UNCHANGED selectorVars
  BY <1>9 DEF selectorVars, SelectorTypeOK, KnownTag
<1>10. ASSUME NEW n \in Nodes, PickUnsent(n) PROVE (SelectorTypeOK /\ KnownTag)'
  <2>1. picks' \in 0..MaxPicks /\ picked' \in Nodes
    BY <1>10, PicksTypes DEF PickUnsent
  <2>2. odd' \subseteq {"overlap", "web", "early"}
    BY <1>10 DEF PickUnsent, Overlap, SelectorTypeOK
  <2> QED
    BY <1>10, <2>1, <2>2 DEF PickUnsent, SelectorTypeOK, KnownTag
<1> QED
  BY <1>1, <1>2, <1>3, <1>4, <1>5, <1>6, <1>7, <1>8, <1>9, <1>10 DEF NextSelector

(* Where a pick is, told apart by what is under way. *)
Stage == Settled \/ Reloading \/ Swapping \/ Reporting \/ Queued \/ Telling

(* Nothing is under way only when the last pick has settled. *)
LEMMA QuietSettled == Stage /\ Quiet => Settled
<1>1. <<picked>> # <<>>
  OBVIOUS
<1> QED
  BY <1>1 DEF Stage, Quiet, Settled, Reloading, Swapping, Reporting, Queued, Telling, Only, Idle, Drained

(* A step that keeps picks apart moves the one under way to its next stage.  *)
LEMMA NextOneAtATime == SelInv /\ [NextSelector]_selectorVars => OneAtATime'
<1> SUFFICES ASSUME SelInv, [NextSelector]_selectorVars, "overlap" \notin odd' PROVE Stage'
  BY DEF OneAtATime, Stage
<1>0. Stage /\ "overlap" \notin odd
  <2>1. "overlap" \notin odd
    BY DEF NextSelector, Reload, Swap, Report, Pick, WebPick, Handle, UiUpdate, FillNow, selectorVars, Overlap,
       PickUnsent
  <2> QED
    BY <2>1 DEF SelInv, OneAtATime, Stage
<1>t. SelectorTypeOK
  BY DEF SelInv
<1>a. ASSUME NEW c \in Calls, pc[c] # "idle" PROVE
        \/ Only(c, "reload") /\ selected = picked /\ InStep
        \/ /\ Only(c, "swap") /\ selected \in {picked, core} /\ InStep
           /\ IF arg[c] = None THEN core = picked /\ selected = picked ELSE arg[c] = picked
        \/ Only(c, "callback") /\ arg[c] = picked /\ core = picked
  BY <1>a, <1>0 DEF Stage, Settled, Reloading, Swapping, Reporting, Queued, Telling, Only, Idle
<1>1. ASSUME NEW c \in Calls, Reload(c) PROVE Stage'
  <2>1. /\ pc[c] = "reload" /\ pc'[c] = "swap"
        /\ \A d \in Calls : d # c => pc'[d] = pc[d]
    BY <1>1, <1>t, GotoTypes DEF Reload
  <2>2. Only(c, "reload") /\ selected = picked /\ InStep
    BY <2>1, <1>a DEF Only
  <2>3. arg'[c] = selected /\ selected \in Nodes
    BY <1>1, <1>t DEF Reload, SelectorTypeOK
  <2>4. Only(c, "swap")' /\ InStep'
    BY <1>1, <2>1, <2>2 DEF Only, Drained, InStep, Reload
  <2>5. Swapping'
    BY <1>1, <2>2, <2>3, <2>4, GroupAssumption DEF Swapping, Reload
  <2> QED
    BY <2>5 DEF Stage
<1>2. ASSUME NEW c \in Calls, Swap(c) PROVE Stage'
  <2>1. /\ pc[c] = "swap" /\ pc'[c] = IF arg[c] \in {core, None} THEN "idle" ELSE "callback"
        /\ \A d \in Calls : d # c => pc'[d] = pc[d]
    BY <1>2, <1>t, GotoTypes DEF Swap
  <2>2. /\ Only(c, "swap") /\ selected \in {picked, core} /\ InStep
        /\ IF arg[c] = None THEN core = picked /\ selected = picked ELSE arg[c] = picked
    BY <2>1, <1>a DEF Only
  <2>3. CASE arg[c] \in {core, None}
    <3>1. Idle' /\ Drained'
      BY <1>2, <2>1, <2>2, <2>3 DEF Only, Idle, Drained, Swap
    <3>2. core' = core /\ core = picked /\ selected = picked
      BY <1>2, <2>2, <2>3 DEF Swap
    <3>3. Settled'
      BY <1>2, <2>2, <3>1, <3>2 DEF Settled, InStep, Swap
    <3> QED
      BY <3>3 DEF Stage
  <2>4. CASE arg[c] \notin {core, None}
    <3>1. Only(c, "callback")'
      BY <1>2, <2>1, <2>2, <2>4 DEF Only, Drained, Swap
    <3>2. Reporting'
      BY <1>2, <2>2, <2>4, <3>1 DEF Reporting, Swap
    <3> QED
      BY <3>2 DEF Stage
  <2> QED
    BY <2>3, <2>4
<1>3. ASSUME NEW c \in Calls, Report(c) PROVE Stage'
  <2>1. /\ pc[c] = "callback" /\ pc'[c] = "idle"
        /\ \A d \in Calls : d # c => pc'[d] = pc[d]
    BY <1>3, <1>t, GotoTypes DEF Report
  <2>2. Only(c, "callback") /\ arg[c] = picked /\ core = picked
    BY <2>1, <1>a DEF Only
  <2>3. Idle'
    BY <2>1, <2>2 DEF Idle, Only
  <2>4. events' = <<picked>>
    BY <1>3, <2>2 DEF Report, Only, Drained
  <2>5. Queued'
    BY <1>3, <2>2, <2>3, <2>4 DEF Queued, Report, Only, Drained
  <2> QED
    BY <2>5 DEF Stage
<1>4. ASSUME NEW c \in Calls, NEW n \in Nodes, Pick(c, n) PROVE Stage'
  <2>1. /\ pc'[c] = "reload"
        /\ \A d \in Calls : d # c => pc'[d] = pc[d]
    BY <1>4, <1>t, GotoTypes DEF Pick
  <2>2. Settled /\ odd' = odd
    BY <1>4, <1>0, QuietSettled DEF Pick, Overlap
  <2>3. Only(c, "reload")'
    BY <1>4, <2>1, <2>2 DEF Only, Settled, Idle, Drained, Pick
  <2>4. selected' = picked' /\ InStep'
    BY <1>4, <2>2 DEF Pick, Picks, Settled, InStep
  <2>5. Reloading'
    BY <2>3, <2>4 DEF Reloading
  <2> QED
    BY <2>5 DEF Stage
<1>5. ASSUME NEW c \in Calls, NEW n \in Nodes \cup {None}, WebPick(c, n) PROVE Stage'
  <2>1. /\ pc'[c] = "swap"
        /\ \A d \in Calls : d # c => pc'[d] = pc[d]
    BY <1>5, <1>t, GotoTypes DEF WebPick
  <2>2. Settled /\ odd' = odd \cup {"web"}
    BY <1>5, <1>0, QuietSettled DEF WebPick, Overlap
  <2>3. Only(c, "swap")'
    BY <1>5, <2>1, <2>2 DEF Only, Settled, Idle, Drained, WebPick
  <2>4. InStep' /\ selected' = core'
    BY <1>5, <2>2 DEF InStep, Settled, WebPick
  <2>5. arg'[c] = n /\ picked' = (IF n = None THEN picked ELSE n)
    BY <1>5, <1>t, GroupAssumption DEF WebPick, Picks, SelectorTypeOK
  <2>6. Swapping'
    BY <1>5, <2>2, <2>3, <2>4, <2>5 DEF Swapping, Settled, WebPick
  <2> QED
    BY <2>6 DEF Stage
<1>6. CASE Handle
  <2>1. Queued
    BY <1>0, <1>6 DEF Handle, Stage, Settled, Reloading, Swapping, Reporting, Telling, Only, Drained
  <2>2. events = <<picked>> /\ Head(events) = picked /\ Tail(events) = <<>>
    BY <2>1 DEF Queued
  <2>3. callbacks' \in {<<>>, <<picked>>}
    BY <1>6, <2>1, <2>2 DEF Handle, Queued
  <2>4. InStep'
    BY <1>6, <2>1, <2>2 DEF InStep, Handle, SelectNow, Queued
  <2>5. Settled' \/ Telling'
    BY <1>6, <2>1, <2>2, <2>3, <2>4 DEF Settled, Telling, Handle, Queued, Idle, Drained
  <2> QED
    BY <2>5 DEF Stage
<1>7. CASE UiUpdate
  <2>1. Telling
    BY <1>0, <1>7 DEF UiUpdate, Stage, Settled, Reloading, Swapping, Reporting, Queued, Only, Drained
  <2>2. Head(callbacks) = picked /\ Tail(callbacks) = <<>>
    BY <2>1 DEF Telling
  <2>3. Settled'
    BY <1>7, <2>1, <2>2 DEF UiUpdate, Telling, Settled, Idle, Drained, InStep
  <2> QED
    BY <2>3 DEF Stage
<1>8. CASE FillNow
  <2>1. InStep => InStep'
    BY <1>8, <1>t, GroupAssumption DEF FillNow, InStep, SelectorTypeOK
  <2> QED
    BY <1>0, <1>8, <2>1
    DEF FillNow, Stage, Settled, Reloading, Swapping, Reporting, Queued, Telling, Only, Idle, Drained
<1>9. CASE UNCHANGED selectorVars
  BY <1>0, <1>9
  DEF selectorVars, Stage, Settled, Reloading, Swapping, Reporting, Queued, Telling, Only, Idle, Drained, InStep
<1>10. ASSUME NEW n \in Nodes, PickUnsent(n) PROVE Stage'
  BY <1>10 DEF PickUnsent, Overlap, Quiet
<1> QED
  BY <1>1, <1>2, <1>3, <1>4, <1>5, <1>6, <1>7, <1>8, <1>9, <1>10 DEF NextSelector

(* The invariant of the picks: types, reported tags, and the stages of the   *)
(* pick under way when picks wait for one another.                           *)
THEOREM SelectorInvariance == SelectorSpec => []SelInv
<1>1. SelInv /\ [NextSelector]_selectorVars => SelInv'
  BY NextTypeOK, NextOneAtATime DEF SelInv
<1> QED
  BY <1>1, InitSelInv, PTL DEF SelectorSpec

(* Every value of Selector has its type, whatever the number of nodes, calls *)
(* and picks.                                                                *)
THEOREM SelectorTypes == SelectorSpec => []SelectorTypeOK
<1>1. SelInv => SelectorTypeOK
  BY DEF SelInv
<1> QED
  BY <1>1, SelectorInvariance, PTL

(* Picks that wait for one another win: once reload, SelectOutbound, its     *)
(* report and the activity's write are through, the core and selectedProxy   *)
(* are at the node picked last.                                              *)
THEOREM PicksInTurnWin == SelectorSpec => []LastPickWins
<1>1. SelInv => LastPickWins
  BY QuietSettled DEF SelInv, OneAtATime, Stage, LastPickWins, Settled
<1> QED
  BY <1>1, SelectorInvariance, PTL

(* And the traffic looper counts for the core's node, wherever the picks     *)
(* were made, unless they overlapped or a switch was reported before the     *)
(* looper was filled.                                                        *)
THEOREM LooperInStep == SelectorSpec => []LooperFollows
<1>1. SelInv => LooperFollows
  <2> SUFFICES ASSUME SelInv, Quiet, odd \cap {"overlap", "early"} = {}, now # None PROVE now = core
    BY DEF LooperFollows
  <2>1. Settled
    BY QuietSettled DEF SelInv, OneAtATime, Stage
  <2> QED
    BY <2>1 DEF Settled, InStep
<1> QED
  BY <1>1, SelectorInvariance, PTL

-----------------------------------------------------------------------------
(* What the looper writes.  Sums over the nodes (carried, lost) are not      *)
(* looked at: FinalTotals and ClearHolds speak of each node by itself.       *)

ItemTypes ==
  /\ phase \in {"empty", "run", "joined", "off"}
  /\ rx \in [Nodes -> Nat] /\ ent \in [Nodes -> Nat]
  /\ db \in [Nodes -> Nat] /\ fresh \in [Nodes -> Nat]
  /\ counter \in Nat /\ diff \in Nat \cup {-1} /\ switches \in Nat
  /\ now \in Nodes \cup {None}
  /\ (phase # "empty" => now \in Nodes)
  /\ counted = IF phase # "empty" THEN {now} ELSE {}
  /\ sweep \in {"free", "held"} /\ (sweep = "held" => phase = "run")
  /\ writes \subseteq [job : Nat, node : Nodes, rx : Nat \cup {-1}]
  /\ unsaved \subseteq Nodes /\ stale \subseteq Nodes
  /\ clearing \subseteq Nodes /\ dropped \subseteq Nodes
  /\ cleared \in BOOLEAN

(* One clear: its broadcast, then its answer, which only a filled looper     *)
(* gives.                                                                    *)
ClearInOrder ==
  /\ ~cleared => clearing = {} /\ dropped = {}
  /\ dropped # {} => clearing = {}
  /\ phase = "empty" => dropped = {}

Writing(n) == \E w \in writes : w.node = n

(* Before a clear, a row that is behind its entity has a writer on its way,  *)
(* or its last writer was overtaken.                                         *)
RowsFollow == ~cleared => \A n \in Nodes : db[n] = ent[n] \/ n \in stale \/ Writing(n)

(* After stop() has joined the loop no entity goes away from its item: every *)
(* writer, a late selectMain included, copies the item.  A clear that comes  *)
(* too late for its answer breaks this, one that was answered does not.      *)
EntitiesFinal ==
  phase = "joined" /\ (~cleared \/ dropped # {}) =>
    \A n \in Nodes : n \in unsaved \/ ent[n] = rx[n]

(* A dropped item holds only what was counted after the clear. *)
ItemsFresh == \A n \in dropped : rx[n] <= fresh[n]

(* So does the row, once stop() has been through it and unless its last      *)
(* writer was overtaken.                                                     *)
RowsFresh ==
  phase = "joined" =>
    \A n \in dropped : n \in unsaved \/ n \in stale \/ Writing(n) \/ db[n] <= fresh[n]

StatsInv == ItemTypes /\ ClearInOrder /\ RowsFollow /\ EntitiesFinal /\ ItemsFresh /\ RowsFresh

(* A session starts with entities read from their rows. *)
LEMMA InitStatsInv == Init => StatsInv
<1> SUFFICES ASSUME Init PROVE StatsInv
  OBVIOUS
<1>1. db \in [Nodes -> Nat] /\ ent \in [Nodes -> Nat] /\ db = ent
  BY DEF Init
<1> QED
  BY <1>1
  DEF Init, StatsInv, ItemTypes, ClearInOrder, RowsFollow, EntitiesFinal, ItemsFresh, RowsFresh

(* Types are kept. *)
LEMMA NextItemTypes == ItemTypes /\ ClearInOrder /\ [Next]_vars => ItemTypes'
<1> SUFFICES ASSUME ItemTypes, ClearInOrder, [Next]_vars PROVE ItemTypes'
  OBVIOUS
<1> USE DEF vars, loopVars, saveVars, clearVars, Filled
<1>1. CASE Send
  BY <1>1 DEF Send, ItemTypes
<1>2. CASE Fill
  BY <1>2, GroupAssumption DEF Fill, ItemTypes
<1>3. CASE SweepBegin \/ SweepEnd
  BY <1>3 DEF SweepBegin, SweepEnd, ItemTypes
<1>4. CASE Stop \/ Shutdown
  BY <1>4 DEF Stop, Finish, Shutdown, ItemTypes
<1>6. CASE UiClear
  <2>1. PICK toClear \in SUBSET Nodes :
          /\ clearing' = toClear
          /\ db' = [n \in Nodes |-> IF n \in toClear THEN 0 ELSE db[n]]
          /\ fresh' = [n \in Nodes |-> IF n \in toClear THEN 0 ELSE fresh[n]]
    BY <1>6 DEF UiClear
  <2>2. db' \in [Nodes -> Nat] /\ fresh' \in [Nodes -> Nat] /\ clearing' \subseteq Nodes
    BY <2>1 DEF ItemTypes
  <2> QED
    BY <1>6, <2>2 DEF UiClear, ItemTypes
<1>7. CASE ClearStats
  BY <1>7 DEF ClearStats, ItemTypes
<1>8. ASSUME NEW n \in Nodes, SweepOne(n) PROVE ItemTypes'
  <2>1. rx' \in [Nodes -> Nat] /\ fresh' \in [Nodes -> Nat] /\ counter' \in Nat /\ diff' \in Nat \cup {-1}
    BY <1>8 DEF SweepOne, Credit, GetStats, ItemTypes
  <2> QED
    BY <1>8, <2>1 DEF SweepOne, ItemTypes
<1>9. ASSUME NEW n \in Nodes, SelectMain(n) PROVE ItemTypes'
  <2>1. now \in Nodes /\ switches' \in Nat
    BY <1>9 DEF SelectMain, Switch, ItemTypes
  <2>2. ent' \in [Nodes -> Nat] /\ writes' \subseteq [job : Nat, node : Nodes, rx : Nat \cup {-1}]
    BY <1>9, <2>1 DEF SelectMain, Switch, ItemTypes
  <2> QED
    BY <1>9, <2>1, <2>2 DEF SelectMain, Switch, ItemTypes
<1>10. ASSUME NEW n \in Nodes, PersistItem(n) PROVE ItemTypes'
  BY <1>10 DEF PersistItem, ItemTypes
<1>11. ASSUME NEW w \in writes, EvaluateWrite(w) \/ CommitWrite(w) PROVE ItemTypes'
  <2>1. w \in [job : Nat, node : Nodes, rx : Nat \cup {-1}]
    BY DEF ItemTypes
  <2>2. CASE EvaluateWrite(w)
    <3>1. [w EXCEPT !.rx = ent[w.node]] \in [job : Nat, node : Nodes, rx : Nat \cup {-1}]
      BY <2>1 DEF ItemTypes
    <3> QED
      BY <2>2, <3>1 DEF EvaluateWrite, ItemTypes
  <2>3. CASE CommitWrite(w)
    <3>1. w.node \in Nodes /\ w.rx \in Nat
      BY <2>1, <2>3 DEF CommitWrite
    <3> QED
      BY <2>3, <3>1 DEF CommitWrite, ItemTypes
  <2> QED
    BY <1>11, <2>2, <2>3
<1>12. CASE UNCHANGED vars
  BY <1>12 DEF ItemTypes
<1> QED
  BY <1>1, <1>2, <1>3, <1>4, <1>6, <1>7, <1>8, <1>9, <1>10, <1>11, <1>12 DEF Next

(* A clear is broadcast once, and answered after it. *)
LEMMA NextClearInOrder == ItemTypes /\ ClearInOrder /\ [Next]_vars => ClearInOrder'
<1> SUFFICES ASSUME ItemTypes, ClearInOrder, [Next]_vars PROVE ClearInOrder'
  OBVIOUS
<1>1. CASE UiClear
  BY <1>1 DEF UiClear, loopVars, ItemTypes, ClearInOrder
<1>2. CASE ClearStats
  BY <1>2 DEF ClearStats, ItemTypes, ClearInOrder
<1>3. CASE UNCHANGED vars \/ (Next /\ ~UiClear /\ ~ClearStats)
  <2>1. UNCHANGED <<clearing, cleared, dropped>> /\ (phase' = "empty" => phase = "empty")
    BY <1>3
    DEF vars, loopVars, saveVars, clearVars, Next, Send, Fill,
        SweepBegin, SweepEnd, Stop, Finish, Shutdown, SweepOne,
        SelectMain, Switch, PersistItem, EvaluateWrite, CommitWrite
  <2> QED
    BY <2>1 DEF ClearInOrder
<1> QED
  BY <1>1, <1>2, <1>3

(* The four facts about rows, entities and items are kept together: a writer *)
(* that was not overtaken brings into a row what EntitiesFinal and           *)
(* ItemsFresh say of its entity.                                             *)
LEMMA NextStatsInv == StatsInv /\ [Next]_vars => StatsInv'
<1> SUFFICES ASSUME StatsInv, [Next]_vars PROVE StatsInv'
  OBVIOUS
<1> USE DEF vars, loopVars, saveVars, clearVars, Filled
<1>0. ItemTypes /\ ClearInOrder /\ ItemTypes' /\ ClearInOrder'
  BY NextItemTypes, NextClearInOrder DEF StatsInv
<1> DEFINE Rows == RowsFollow /\ EntitiesFinal /\ ItemsFresh /\ RowsFresh
<1>r. Rows
  BY DEF StatsInv
<1> SUFFICES Rows'
  BY <1>0 DEF StatsInv
<1>1. CASE Send \/ SweepBegin \/ SweepEnd \/ UNCHANGED vars
  <2>1. UNCHANGED <<phase, cleared, dropped, db, ent, rx, fresh, writes, unsaved, stale>>
    BY <1>1 DEF Send, SweepBegin, SweepEnd
  <2> QED
    BY <1>r, <2>1 DEF RowsFollow, EntitiesFinal, ItemsFresh, RowsFresh, Writing
<1>2. CASE Fill
  BY <1>r, <1>0, <1>2
  DEF Fill, ClearInOrder, RowsFollow, EntitiesFinal, ItemsFresh, RowsFresh, Writing
<1>3. CASE Stop
  BY <1>r, <1>0, <1>3
  DEF Stop, Finish, ItemTypes, RowsFollow, EntitiesFinal, ItemsFresh, RowsFresh, Writing
<1>4. CASE Shutdown
  BY <1>r, <1>4 DEF Shutdown, RowsFollow, EntitiesFinal, ItemsFresh, RowsFresh, Writing
<1>6. CASE UiClear
  <2>1. cleared' /\ dropped' = {}
    BY <1>0, <1>6 DEF UiClear, ItemTypes, ClearInOrder
  <2> QED
    BY <2>1 DEF RowsFollow, EntitiesFinal, ItemsFresh, RowsFresh
<1>7. CASE ClearStats
  <2>1. cleared' /\ (phase' = "joined" => dropped' = {})
    BY <1>0, <1>7 DEF ClearStats, ItemTypes, ClearInOrder
  <2>2. ItemsFresh'
    BY <1>0, <1>7 DEF ClearStats, ItemTypes, ItemsFresh
  <2> QED
    BY <2>1, <2>2 DEF RowsFollow, EntitiesFinal, RowsFresh
<1>8. ASSUME NEW n \in Nodes, SweepOne(n) PROVE Rows'
  <2>1. phase' = "run" /\ UNCHANGED <<cleared, dropped, db, ent, writes, stale>>
    BY <1>0, <1>8 DEF SweepOne, ItemTypes
  <2>2. ItemsFresh'
    <3>1. ASSUME NEW m \in dropped PROVE rx'[m] <= fresh'[m]
      <4>1. rx[m] <= fresh[m] /\ rx[m] \in Nat /\ fresh[m] \in Nat /\ m \in Nodes
        BY <1>r, <1>0, <3>1 DEF ItemsFresh, ItemTypes
      <4>2. PICK bytes \in Nat : Credit(n, bytes) \/ UNCHANGED <<rx, fresh>>
        BY <1>0, <1>8 DEF SweepOne, ItemTypes
      <4> QED
        BY <1>0, <4>1, <4>2 DEF Credit, ItemTypes
    <3> QED
      BY <3>1, <2>1 DEF ItemsFresh
  <2> QED
    BY <1>r, <2>1, <2>2 DEF RowsFollow, EntitiesFinal, RowsFresh, Writing
<1>9. ASSUME NEW n \in Nodes, SelectMain(n) PROVE Rows'
  <2>1. UNCHANGED <<phase, cleared, dropped, db, rx, fresh, unsaved, stale>> /\ now \in Nodes
    BY <1>0, <1>9 DEF SelectMain, Switch, ItemTypes
  <2>2. CASE UNCHANGED <<ent, writes>>
    BY <1>r, <2>1, <2>2 DEF RowsFollow, EntitiesFinal, ItemsFresh, RowsFresh, Writing
  <2>3. CASE /\ ent' = [ent EXCEPT ![now] = rx[now]]
             /\ writes' = writes \cup {[job |-> switches', node |-> now, rx |-> -1]}
    <3>1. ent'[now] = rx[now] /\ \A m \in Nodes : m # now => ent'[m] = ent[m]
      BY <1>0, <2>1, <2>3 DEF ItemTypes
    <3>2. \A m \in Nodes : m = now \/ Writing(m) => Writing(m)'
      <4> DEFINE p == [job |-> switches', node |-> now, rx |-> -1]
      <4>1. p.node = now /\ p \in writes' /\ writes \subseteq writes'
        BY <2>3
      <4> HIDE DEF p
      <4> QED
        BY <4>1 DEF Writing
    <3> HIDE DEF Writing
    <3> QED
      BY <1>0, <1>r, <2>1, <3>1, <3>2
      DEF ItemTypes, RowsFollow, EntitiesFinal, ItemsFresh, RowsFresh
  <2> QED
    BY <1>9, <2>2, <2>3 DEF SelectMain, Switch
<1>10. ASSUME NEW n \in Nodes, PersistItem(n) PROVE Rows'
  <2>1. ent'[n] = rx[n] /\ \A m \in Nodes : m # n => ent'[m] = ent[m]
    BY <1>0, <1>10 DEF PersistItem, ItemTypes
  <2>2. Writing(n)' /\ \A m \in Nodes : Writing(m) => Writing(m)'
    <3> DEFINE p == [job |-> 0, node |-> n, rx |-> -1]
    <3>1. p.node = n /\ p \in writes' /\ writes \subseteq writes'
      BY <1>10 DEF PersistItem
    <3> HIDE DEF p
    <3> QED
      BY <3>1 DEF Writing
  <2>3. /\ UNCHANGED <<phase, cleared, dropped, db, rx, fresh, stale>>
        /\ unsaved' = unsaved \ {n} /\ dropped \subseteq Nodes
    BY <1>0, <1>10 DEF PersistItem, ItemTypes
  <2> QED
    BY <1>r, <2>1, <2>2, <2>3 DEF RowsFollow, EntitiesFinal, ItemsFresh, RowsFresh
<1>11. ASSUME NEW w \in writes, EvaluateWrite(w) PROVE Rows'
  <2>1. \A m \in Nodes : Writing(m) => Writing(m)'
    <3>1. w \in [job : Nat, node : Nodes, rx : Nat \cup {-1}]
      BY <1>0 DEF ItemTypes
    <3>2. [w EXCEPT !.rx = ent[w.node]].node = w.node
      BY <3>1
    <3> QED
      BY <1>11, <3>2 DEF EvaluateWrite, Writing
  <2>2. UNCHANGED <<phase, cleared, dropped, db, ent, rx, fresh, unsaved, stale>> /\ dropped \subseteq Nodes
    BY <1>0, <1>11 DEF EvaluateWrite, ItemTypes
  <2> QED
    BY <1>r, <2>1, <2>2 DEF RowsFollow, EntitiesFinal, ItemsFresh, RowsFresh
<1>12. ASSUME NEW w \in writes, CommitWrite(w) PROVE Rows'
  <2> DEFINE n == w.node
  <2>1. n \in Nodes /\ \A m \in Nodes : m # n => db'[m] = db[m] /\ (Writing(m) => Writing(m)')
    BY <1>0, <1>12 DEF CommitWrite, ItemTypes, Writing
  <2>2. n \in stale' \/ db'[n] = ent[n]
    BY <1>0, <1>12 DEF CommitWrite, ItemTypes
  <2>3. /\ UNCHANGED <<phase, cleared, dropped, ent, rx, fresh, unsaved>> /\ dropped \subseteq Nodes
        /\ \A m \in stale : m # n => m \in stale'
    BY <1>0, <1>12 DEF CommitWrite, ItemTypes
  <2> HIDE DEF n
  <2>4. RowsFollow'
    BY <1>r, <2>1, <2>2, <2>3 DEF RowsFollow
  <2>5. EntitiesFinal' /\ ItemsFresh'
    BY <1>r, <2>3 DEF EntitiesFinal, ItemsFresh
  <2>6. RowsFresh'
    <3> SUFFICES ASSUME phase' = "joined", NEW m \in dropped, m \notin unsaved, m \notin stale'
                 PROVE  Writing(m)' \/ db'[m] <= fresh[m]
      BY <2>3 DEF RowsFresh
    <3>1. CASE m = n
      <4>1. ent[m] = rx[m] /\ rx[m] <= fresh[m]
        BY <1>r, <2>3 DEF EntitiesFinal, ItemsFresh
      <4> QED
        BY <2>2, <3>1, <4>1
    <3>2. CASE m # n
      BY <1>r, <2>1, <2>3, <3>2 DEF RowsFresh
    <3> QED
      BY <3>1, <3>2
  <2> QED
    BY <2>4, <2>5, <2>6
<1> HIDE DEF Rows
<1> QED
  BY <1>1, <1>2, <1>3, <1>4, <1>6, <1>7, <1>8, <1>9, <1>10, <1>11, <1>12 DEF Next

(* The invariant of the totals, for any group, any number of switches and    *)
(* bytes, and wherever the one clear falls.                                  *)
THEOREM StatsInvariance == Spec => []StatsInv
<1> QED
  BY InitStatsInv, NextStatsInv, PTL DEF Spec

(* The totals in the database at the end of a session are those of the       *)
(* joined loop, however late the writes posted by selectMain are made and    *)
(* whatever persistStats of a shutdown wrote before, except in a row whose   *)
(* last write had read its entity before another write changed it.           *)
THEOREM SessionTotals == Spec => []FinalTotals
<1>1. StatsInv => FinalTotals
  <2> SUFFICES ASSUME StatsInv, Over, ~cleared, NEW n \in Nodes \ stale PROVE db[n] = rx[n]
    BY DEF FinalTotals
  <2>1. ~Writing(n)
    BY DEF Over, Writing
  <2> QED
    BY <2>1 DEF StatsInv, RowsFollow, EntitiesFinal, Over
<1> QED
  BY <1>1, StatsInvariance, PTL

(* A clear the running loop has answered holds: no later writer of the       *)
(* session writes more than was counted since, with the same exception.      *)
THEOREM AnsweredClearHolds == Spec => []ClearHolds
<1>1. StatsInv => ClearHolds
  BY DEF StatsInv, RowsFresh, Over, ClearHolds, Writing
<1> QED
  BY <1>1, StatsInvariance, PTL

-----------------------------------------------------------------------------
(* Sums over the group.  SumOver is a fold: a table of the sums over all     *)
(* subsets, each from the one without its first element.  The induction      *)
(* principles are stated for sets, not for predicates.                       *)

(* Induction over the naturals. *)
LEMMA SetOfNaturals ==
  ASSUME NEW K, K \subseteq Nat, 0 \in K, \A k \in K : k + 1 \in K
  PROVE  K = Nat
<1> SUFFICES ASSUME K # Nat PROVE FALSE
  OBVIOUS
<1> DEFINE Less == OpToRel(<, Nat)
           Rest == Nat \ K
<1>1. Rest \subseteq Nat /\ Rest # {}
  OBVIOUS
<1>2. IsWellFoundedOn(Less, Nat)
  BY NatLessThanWellFounded
<1>3. PICK m \in Rest : \A k \in Rest : <<k, m>> \notin Less
  <2> HIDE DEF Less, Rest
  <2> QED
    BY <1>1, <1>2, WFMin
<1>4. m \in Nat /\ m # 0 /\ m - 1 \in Nat /\ m - 1 < m
  OBVIOUS
<1>5. <<m - 1, m>> \in Less
  BY <1>4 DEF OpToRel
<1>6. m - 1 \in K
  BY <1>3, <1>4, <1>5
<1> QED
  BY <1>4, <1>6

First(s) == CHOOSE x \in s : TRUE

(* A subset of the group without its first element is smaller by one. *)
LEMMA WithoutFirst ==
  ASSUME NEW s \in SUBSET Nodes
  PROVE  /\ Cardinality(s) \in Nat /\ Cardinality(s) <= Cardinality(Nodes)
         /\ (Cardinality(s) = 0 <=> s = {})
         /\ s # {} => /\ First(s) \in s /\ s \ {First(s)} \in SUBSET Nodes
                      /\ Cardinality(s \ {First(s)}) = Cardinality(s) - 1
<1>1. IsFiniteSet(s) /\ Cardinality(s) <= Cardinality(Nodes)
  BY GroupAssumption, FS_Subset
<1>2. Cardinality(s) \in Nat
  BY <1>1, FS_CardinalityType
<1>3. Cardinality(s) = 0 <=> s = {}
  BY <1>1, FS_EmptySet
<1>4. s # {} => First(s) \in s
  BY DEF First
<1>5. s # {} => Cardinality(s \ {First(s)}) = Cardinality(s) - 1
  BY <1>1, <1>4, FS_RemoveElement
<1> QED
  BY <1>1, <1>2, <1>3, <1>4, <1>5

(* Induction over the subsets of the group. *)
LEMMA SetOfSubsets ==
  ASSUME NEW B, {} \in B,
         \A s \in SUBSET Nodes : s # {} /\ s \ {First(s)} \in B => s \in B
  PROVE  \A s \in SUBSET Nodes : s \in B
<1> DEFINE K == {k \in Nat : \A s \in SUBSET Nodes : Cardinality(s) = k => s \in B}
<1>1. 0 \in K
  BY WithoutFirst
<1>2. ASSUME NEW k \in K PROVE k + 1 \in K
  <2>1. ASSUME NEW s \in SUBSET Nodes, Cardinality(s) = k + 1 PROVE s \in B
    <3>1. k \in Nat /\ k + 1 # 0
      OBVIOUS
    <3>2. s # {}
      BY <2>1, <3>1, WithoutFirst
    <3>3. s \ {First(s)} \in SUBSET Nodes /\ Cardinality(s \ {First(s)}) = Cardinality(s) - 1
      BY <3>2, WithoutFirst
    <3>4. Cardinality(s \ {First(s)}) = k
      BY <2>1, <3>1, <3>3
    <3> QED
      BY <3>2, <3>3, <3>4
  <2> QED
    BY <2>1
<1>3. K = Nat
  <2>1. K \subseteq Nat
    OBVIOUS
  <2> HIDE DEF K
  <2> QED
    BY <1>1, <1>2, <2>1, SetOfNaturals
<1>4. ASSUME NEW s \in SUBSET Nodes PROVE s \in B
  <2>1. Cardinality(s) \in K
    <3> HIDE DEF K
    <3> QED
      BY <1>3, WithoutFirst
  <2> QED
    BY <2>1
<1> QED
  BY <1>4

Sums(f, g) == [s \in SUBSET Nodes |-> IF s = {} THEN 0 ELSE f[First(s)] + g[s \ {First(s)}]]

Table(f) == CHOOSE g : g = Sums(f, g)

(* SumOver is the entry of the whole group. *)
LEMMA SumIsEntry == \A f : SumOver(f) = Table(f)[Nodes]
  BY DEF SumOver, MapThenSumSet, MapThenFoldSet, Table, Sums, First

(* The recursion has a solution. *)
LEMMA TableExists ==
  ASSUME NEW f \in [Nodes -> Int]
  PROVE  Table(f) = Sums(f, Table(f))
<1> DEFINE Good(g, k) == \A s \in SUBSET Nodes : Cardinality(s) <= k => g[s] = Sums(f, g)[s]
           K == {k \in Nat : \E g \in [SUBSET Nodes -> Int] : Good(g, k)}
<1>1. 0 \in K
  <2> DEFINE g == [s \in SUBSET Nodes |-> 0]
  <2>1. g \in [SUBSET Nodes -> Int]
    OBVIOUS
  <2>2. ASSUME NEW s \in SUBSET Nodes, Cardinality(s) <= 0 PROVE g[s] = Sums(f, g)[s]
    <3>1. Cardinality(s) \in Nat /\ (Cardinality(s) = 0 <=> s = {})
      BY WithoutFirst
    <3>2. s = {}
      BY <2>2, <3>1
    <3> QED
      BY <3>2 DEF Sums
  <2> QED
    BY <2>1, <2>2
<1>2. ASSUME NEW k \in K PROVE k + 1 \in K
  <2>1. PICK g \in [SUBSET Nodes -> Int] : Good(g, k)
    OBVIOUS
  <2> DEFINE h == [s \in SUBSET Nodes |->
                     IF Cardinality(s) = k + 1 THEN f[First(s)] + g[s \ {First(s)}] ELSE g[s]]
  <2>2. h \in [SUBSET Nodes -> Int]
    <3>1. ASSUME NEW s \in SUBSET Nodes, Cardinality(s) = k + 1
          PROVE  f[First(s)] + g[s \ {First(s)}] \in Int
      <4>1. Cardinality(s) # 0
        BY <3>1
      <4>2. First(s) \in Nodes /\ s \ {First(s)} \in SUBSET Nodes
        BY <4>1, WithoutFirst
      <4> QED
        BY <4>2
    <3> QED
      BY <3>1
  <2>3. ASSUME NEW s \in SUBSET Nodes, Cardinality(s) <= k + 1 PROVE h[s] = Sums(f, h)[s]
    <3>1. CASE s = {}
      <4>1. Cardinality(s) = 0
        BY <3>1, WithoutFirst
      <4>2. Cardinality(s) <= k /\ Cardinality(s) # k + 1
        BY <4>1
      <4> QED
        BY <2>1, <3>1, <4>2 DEF Sums
    <3>2. CASE s # {}
      <4> DEFINE r == s \ {First(s)}
      <4>1. /\ r \in SUBSET Nodes /\ Cardinality(r) = Cardinality(s) - 1
            /\ Cardinality(r) \in Nat /\ Cardinality(s) \in Nat
        BY <3>2, WithoutFirst
      <4>2. h[r] = g[r]
        BY <2>3, <4>1
      <4>3. h[s] = f[First(s)] + g[r]
        <5>1. CASE Cardinality(s) = k + 1
          BY <5>1
        <5>2. CASE Cardinality(s) # k + 1
          <6>1. Cardinality(s) <= k
            BY <2>3, <4>1, <5>2
          <6>2. g[s] = Sums(f, g)[s] /\ h[s] = g[s]
            BY <2>1, <5>2, <6>1
          <6> QED
            BY <3>2, <6>2 DEF Sums
        <5> QED
          BY <5>1, <5>2
      <4> QED
        BY <3>2, <4>2, <4>3 DEF Sums
    <3> QED
      BY <3>1, <3>2
  <2>4. k + 1 \in Nat
    OBVIOUS
  <2> HIDE DEF h
  <2>5. Good(h, k + 1)
    BY <2>3
  <2> HIDE DEF Good
  <2> QED
    BY <2>2, <2>4, <2>5
<1>3. K = Nat
  <2>1. K \subseteq Nat
    OBVIOUS
  <2> HIDE DEF K
  <2> QED
    BY <1>1, <1>2, <2>1, SetOfNaturals
<1>4. PICK g \in [SUBSET Nodes -> Int] : Good(g, Cardinality(Nodes))
  <2>1. Cardinality(Nodes) \in K
    <3> HIDE DEF K
    <3> QED
      BY <1>3, GroupAssumption, FS_CardinalityType
  <2> QED
    BY <2>1
<1>5. ASSUME NEW s \in SUBSET Nodes PROVE g[s] = Sums(f, g)[s]
  BY <1>4, WithoutFirst
<1>6. g = Sums(f, g)
  BY <1>5 DEF Sums
<1> QED
  BY <1>6 DEF Table

(* One entry of it. *)
LEMMA TableEntry ==
  ASSUME NEW f \in [Nodes -> Int], NEW s \in SUBSET Nodes
  PROVE  Table(f)[s] = IF s = {} THEN 0 ELSE f[First(s)] + Table(f)[s \ {First(s)}]
<1>1. Table(f) = Sums(f, Table(f))
  BY TableExists
<1> HIDE DEF Table
<1>2. Sums(f, Table(f))[s] = IF s = {} THEN 0 ELSE f[First(s)] + Table(f)[s \ {First(s)}]
  BY DEF Sums
<1> QED
  BY <1>1, <1>2

(* A sum of numbers is a number. *)
LEMMA TableInt ==
  ASSUME NEW f \in [Nodes -> Int]
  PROVE  \A s \in SUBSET Nodes : Table(f)[s] \in Int
<1> DEFINE B == {s \in SUBSET Nodes : Table(f)[s] \in Int}
<1>1. {} \in B
  <2>1. Table(f)[{}] = 0
    BY TableEntry
  <2> QED
    BY <2>1
<1>2. ASSUME NEW s \in SUBSET Nodes, s # {}, s \ {First(s)} \in B PROVE s \in B
  <2>1. First(s) \in Nodes
    BY <1>2, WithoutFirst
  <2>2. Table(f)[s] = f[First(s)] + Table(f)[s \ {First(s)}]
    BY <1>2, TableEntry
  <2> QED
    BY <1>2, <2>1, <2>2
<1>3. \A s \in SUBSET Nodes : s \in B
  <2> HIDE DEF B
  <2> QED
    BY <1>1, <1>2, SetOfSubsets
<1> QED
  BY <1>3

(* Adding to one node's number adds to the sums of the subsets it is in.     *)
LEMMA TableAdd ==
  ASSUME NEW f \in [Nodes -> Int], NEW h \in [Nodes -> Int], NEW n \in Nodes, NEW b \in Int,
         h[n] = f[n] + b, \A m \in Nodes : m # n => h[m] = f[m]
  PROVE  \A s \in SUBSET Nodes : Table(h)[s] = Table(f)[s] + (IF n \in s THEN b ELSE 0)
<1> DEFINE B == {s \in SUBSET Nodes : Table(h)[s] = Table(f)[s] + (IF n \in s THEN b ELSE 0)}
<1>1. {} \in B
  <2>1. Table(h)[{}] = 0 /\ Table(f)[{}] = 0
    BY TableEntry
  <2> QED
    BY <2>1
<1>2. ASSUME NEW s \in SUBSET Nodes, s # {}, s \ {First(s)} \in B PROVE s \in B
  <2> DEFINE r == s \ {First(s)}
  <2>1. First(s) \in s /\ First(s) \in Nodes /\ r \in SUBSET Nodes
    BY <1>2, WithoutFirst
  <2>2. Table(h)[s] = h[First(s)] + Table(h)[r] /\ Table(f)[s] = f[First(s)] + Table(f)[r]
    BY <1>2, TableEntry
  <2>3. Table(f)[r] \in Int /\ f[First(s)] \in Int
    BY <2>1, TableInt
  <2>4. Table(h)[r] = Table(f)[r] + (IF n \in r THEN b ELSE 0)
    BY <1>2
  <2>5. CASE First(s) = n
    <3>1. n \notin r /\ n \in s
      BY <2>1, <2>5
    <3> HIDE DEF r
    <3> QED
      BY <2>2, <2>3, <2>4, <2>5, <3>1
  <2>6. CASE First(s) # n
    <3>1. (n \in r <=> n \in s) /\ h[First(s)] = f[First(s)]
      BY <2>1, <2>6
    <3> HIDE DEF r
    <3> QED
      BY <2>2, <2>3, <2>4, <3>1
  <2> QED
    BY <2>5, <2>6
<1>3. \A s \in SUBSET Nodes : s \in B
  <2> HIDE DEF B
  <2> QED
    BY <1>1, <1>2, SetOfSubsets
<1> QED
  BY <1>3

(* Sums of smaller numbers are not larger. *)
LEMMA TableLeq ==
  ASSUME NEW f \in [Nodes -> Int], NEW h \in [Nodes -> Int], \A m \in Nodes : h[m] <= f[m]
  PROVE  \A s \in SUBSET Nodes : Table(h)[s] <= Table(f)[s]
<1> DEFINE B == {s \in SUBSET Nodes : Table(h)[s] <= Table(f)[s]}
<1>1. {} \in B
  <2>1. Table(h)[{}] = 0 /\ Table(f)[{}] = 0
    BY TableEntry
  <2> QED
    BY <2>1
<1>2. ASSUME NEW s \in SUBSET Nodes, s # {}, s \ {First(s)} \in B PROVE s \in B
  <2> DEFINE r == s \ {First(s)}
  <2>1. First(s) \in Nodes /\ r \in SUBSET Nodes
    BY <1>2, WithoutFirst
  <2>2. Table(h)[s] = h[First(s)] + Table(h)[r] /\ Table(f)[s] = f[First(s)] + Table(f)[r]
    BY <1>2, TableEntry
  <2>3. /\ Table(f)[r] \in Int /\ f[First(s)] \in Int
        /\ Table(h)[r] \in Int /\ h[First(s)] \in Int
    BY <2>1, TableInt
  <2>4. Table(h)[r] <= Table(f)[r] /\ h[First(s)] <= f[First(s)]
    BY <1>2, <2>1
  <2> HIDE DEF r
  <2> QED
    BY <2>2, <2>3, <2>4
<1>3. \A s \in SUBSET Nodes : s \in B
  <2> HIDE DEF B
  <2> QED
    BY <1>1, <1>2, SetOfSubsets
<1> QED
  BY <1>3

(* What TrafficStats needs of SumOver: it is a natural number, *)
LEMMA SumNat == ASSUME NEW f \in [Nodes -> Nat] PROVE SumOver(f) \in Nat
<1> DEFINE zero == [m \in Nodes |-> 0]
<1>1. f \in [Nodes -> Int] /\ zero \in [Nodes -> Int] /\ \A m \in Nodes : zero[m] <= f[m]
  OBVIOUS
<1>2. SumOver(f) = Table(f)[Nodes] /\ Table(f)[Nodes] \in Int
  BY <1>1, SumIsEntry, TableInt
<1>3. Table(zero)[Nodes] <= Table(f)[Nodes]
  <2> HIDE DEF zero
  <2> QED
    BY <1>1, TableLeq
<1>4. Table(zero)[Nodes] = 0
  <2> DEFINE B == {s \in SUBSET Nodes : Table(zero)[s] = 0}
  <2>1. {} \in B
    <3> HIDE DEF zero
    <3> QED
      BY <1>1, TableEntry
  <2>2. ASSUME NEW s \in SUBSET Nodes, s # {}, s \ {First(s)} \in B PROVE s \in B
    <3>1. First(s) \in Nodes
      BY <2>2, WithoutFirst
    <3>2. zero[First(s)] = 0
      BY <3>1
    <3>3. Table(zero)[s] = zero[First(s)] + Table(zero)[s \ {First(s)}]
      <4> HIDE DEF zero
      <4> QED
        BY <1>1, <2>2, TableEntry
    <3> HIDE DEF zero
    <3> QED
      BY <2>2, <3>2, <3>3
  <2>3. \A s \in SUBSET Nodes : s \in B
    <3> HIDE DEF B
    <3> QED
      BY <2>1, <2>2, SetOfSubsets
  <2> QED
    BY <2>3
<1> HIDE DEF zero
<1> QED
  BY <1>2, <1>3, <1>4

(* it grows by what is credited to one node, *)
LEMMA SumAdd ==
  ASSUME NEW f \in [Nodes -> Nat], NEW n \in Nodes, NEW b \in Nat
  PROVE  SumOver([f EXCEPT ![n] = @ + b]) = SumOver(f) + b
<1> DEFINE h == [f EXCEPT ![n] = @ + b]
<1>1. /\ f \in [Nodes -> Int] /\ h \in [Nodes -> Int]
      /\ h[n] = f[n] + b /\ \A m \in Nodes : m # n => h[m] = f[m]
  OBVIOUS
<1> HIDE DEF h
<1>2. Table(h)[Nodes] = Table(f)[Nodes] + b
  BY <1>1, TableAdd
<1> QED
  BY <1>2, SumIsEntry DEF h

(* and it does not grow when numbers are lowered. *)
LEMMA SumLeq ==
  ASSUME NEW f \in [Nodes -> Nat], NEW h \in [Nodes -> Nat], \A m \in Nodes : h[m] <= f[m]
  PROVE  SumOver(h) <= SumOver(f)
<1>1. f \in [Nodes -> Int] /\ h \in [Nodes -> Int]
  OBVIOUS
<1>2. Table(h)[Nodes] <= Table(f)[Nodes]
  BY <1>1, TableLeq
<1> QED
  BY <1>2, SumIsEntry

-----------------------------------------------------------------------------
(* No byte is counted twice or lost. *)

(* Before the fill nothing has been counted, or dropped by a clear. *)
EmptyIsZero ==
  phase = "empty" =>
    /\ rx = [n \in Nodes |-> 0]
    /\ counter = 0 /\ sent = 0 /\ lost = 0

(* Once updateAll has queried the tag, the item that counts for it has been  *)
(* visited: the diff kept for the tag is credited to nobody again.           *)
OncePerSweep == sweep = "held" /\ diff # -1 => now \notin todo

CountInv ==
  /\ StatsInv
  /\ sent \in Nat /\ switches \in Nat /\ carried \in Nat /\ lost \in Nat /\ todo \subseteq Nodes
  /\ EmptyIsZero /\ OncePerSweep /\ Conservation

(* Nothing is counted in the beginning. *)
LEMMA InitCountInv == Init => CountInv
  BY InitStatsInv DEF Init, CountInv, EmptyIsZero, OncePerSweep, Conservation, Filled

(* Every step keeps the sum: it moves bytes from the core's counter to an    *)
(* item, from an item to what is lost, or from a row to what was carried in. *)
LEMMA NextCountInv == CountInv /\ [Next]_vars => CountInv'
<1> SUFFICES ASSUME CountInv, [Next]_vars PROVE CountInv'
  OBVIOUS
<1> USE DEF vars, loopVars, saveVars, clearVars, Filled
<1>0. StatsInv /\ ItemTypes /\ StatsInv'
  BY NextStatsInv DEF CountInv, StatsInv
<1> DEFINE Rest ==
      /\ sent \in Nat /\ switches \in Nat /\ carried \in Nat /\ lost \in Nat /\ todo \subseteq Nodes
      /\ EmptyIsZero /\ OncePerSweep /\ Conservation
<1> SUFFICES Rest'
  BY <1>0 DEF CountInv
<1>r. Rest
  BY DEF CountInv
<1>s. SumOver(rx) \in Nat /\ counter \in Nat
  <2>1. rx \in [Nodes -> Nat] /\ counter \in Nat
    BY <1>0 DEF ItemTypes
  <2> QED
    BY <2>1, SumNat
<1>1. CASE Send
  <2>1. /\ UNCHANGED <<phase, rx, now, sweep, todo, diff, switches, carried, lost>>
        /\ phase # "empty" /\ counter' = counter + 1 /\ sent' = sent + 1
    BY <1>1 DEF Send
  <2>2. Conservation'
    BY <1>r, <1>s, <2>1 DEF Conservation
  <2> QED
    BY <1>r, <2>1, <2>2 DEF EmptyIsZero, OncePerSweep
<1>2. CASE Fill
  <2>1. SumOver(ent) \in Nat
    BY <1>0, SumNat DEF ItemTypes
  <2>2. sweep = "free"
    BY <1>0, <1>2 DEF Fill, ItemTypes
  <2>3. rx' = ent /\ carried' = SumOver(ent) /\ UNCHANGED <<counter, sent, lost, switches, sweep, todo>>
    BY <1>2 DEF Fill
  <2>4. counter = 0 /\ sent = 0 /\ lost = 0 /\ phase' = "run"
    BY <1>r, <1>2 DEF Fill, EmptyIsZero
  <2> QED
    BY <1>r, <2>1, <2>2, <2>3, <2>4 DEF EmptyIsZero, OncePerSweep, Conservation
<1>3. CASE SweepBegin \/ SweepEnd
  BY <1>r, <1>3 DEF SweepBegin, SweepEnd, EmptyIsZero, OncePerSweep, Conservation
<1>4. CASE Stop \/ Shutdown \/ UiClear \/ UNCHANGED vars
  <2>1. /\ UNCHANGED <<rx, counter, now, sweep, todo, diff, sent, switches, carried, lost>>
        /\ (phase' = "empty") = (phase = "empty")
    BY <1>4 DEF Stop, Finish, Shutdown, UiClear
  <2> QED
    BY <1>r, <2>1 DEF EmptyIsZero, OncePerSweep, Conservation
<1>5. CASE ClearStats
  <2>1. rx' \in [Nodes -> Nat] /\ \A m \in Nodes : rx'[m] <= rx[m]
    BY <1>0, <1>5 DEF ClearStats, ItemTypes
  <2>2. SumOver(rx') \in Nat /\ SumOver(rx') <= SumOver(rx)
    BY <1>0, <2>1, SumNat, SumLeq DEF ItemTypes
  <2>3. lost' = lost + SumOver(rx) - SumOver(rx')
    BY <1>5 DEF ClearStats
  <2>4. UNCHANGED <<phase, counter, now, sweep, todo, diff, sent, switches, carried>>
    BY <1>5 DEF ClearStats
  <2>5. phase = "empty" => rx' = rx
    BY <1>r, <1>5 DEF ClearStats, EmptyIsZero
  <2>6. lost' \in Nat /\ (phase = "empty" => lost' = lost)
    BY <1>r, <1>s, <2>2, <2>3, <2>5
  <2>7. Conservation'
    BY <1>r, <1>s, <2>2, <2>3, <2>4 DEF Conservation
  <2> QED
    BY <1>r, <2>4, <2>5, <2>6, <2>7 DEF EmptyIsZero, OncePerSweep
<1>6. ASSUME NEW n \in Nodes, SweepOne(n) PROVE Rest'
  <2>1. phase = "run" /\ counted = {now}
    BY <1>0, <1>6 DEF SweepOne, ItemTypes
  <2>2. UNCHANGED <<phase, now, sweep, sent, switches, carried, lost>> /\ todo' = todo \ {n}
    BY <1>6 DEF SweepOne
  <2>3. CASE n # now
    BY <1>r, <1>6, <2>1, <2>2, <2>3 DEF SweepOne, EmptyIsZero, OncePerSweep, Conservation
  <2>4. CASE n = now
    <3>1. diff = -1
      BY <1>r, <1>6, <2>4 DEF SweepOne, OncePerSweep
    <3>2. \/ rx' = [rx EXCEPT ![n] = @ + counter] /\ counter' = 0
          \/ UNCHANGED <<rx, counter>>
      BY <1>6, <2>1, <2>4, <3>1 DEF SweepOne, Credit, GetStats
    <3>3. \/ counter' = counter /\ rx' = rx
          \/ counter' = 0 /\ SumOver(rx') = SumOver(rx) + counter
      <4>1. rx \in [Nodes -> Nat] /\ counter \in Nat
        BY <1>0, <1>s DEF ItemTypes
      <4>2. SumOver([rx EXCEPT ![n] = @ + counter]) = SumOver(rx) + counter
        BY <4>1, SumAdd
      <4> QED
        BY <3>2, <4>2
    <3>4. Conservation'
      BY <1>r, <1>s, <2>2, <3>3 DEF Conservation
    <3> QED
      BY <1>r, <2>1, <2>2, <2>4, <3>4 DEF EmptyIsZero, OncePerSweep
  <2> QED
    BY <2>3, <2>4
<1>7. ASSUME NEW n \in Nodes, SelectMain(n) PROVE Rest'
  BY <1>r, <1>7 DEF SelectMain, Switch, EmptyIsZero, OncePerSweep, Conservation
<1>8. ASSUME NEW n \in Nodes, PersistItem(n) PROVE Rest'
  BY <1>r, <1>8 DEF PersistItem, EmptyIsZero, OncePerSweep, Conservation
<1>9. ASSUME NEW w \in writes, EvaluateWrite(w) \/ CommitWrite(w) PROVE Rest'
  BY <1>r, <1>9 DEF EvaluateWrite, CommitWrite, EmptyIsZero, OncePerSweep, Conservation
<1> HIDE DEF Rest
<1> QED
  BY <1>1, <1>2, <1>3, <1>4, <1>5, <1>6, <1>7, <1>8, <1>9 DEF Next

(* The invariant of the counting, for any finite group. *)
THEOREM CountInvariance == Spec => []CountInv
<1> QED
  BY InitCountInv, NextCountInv, PTL DEF Spec

(* Every value of TrafficStats has its type; what clearStats drops is never  *)
(* negative.                                                                 *)
THEOREM StatsTypeCorrect == Spec => []TypeOK
<1>1. CountInv => TypeOK
  BY DEF CountInv, StatsInv, ItemTypes, TypeOK, Filled
<1> QED
  BY <1>1, CountInvariance, PTL

(* At any moment of a sweep and whatever switches and clears come between:   *)
(* the items, the core's counter and what a clear dropped add up to what was *)
(* sent and what the items started with.                                     *)
THEOREM BytesConserved == Spec => []Conservation
<1>1. CountInv => Conservation
  BY DEF CountInv
<1> QED
  BY <1>1, CountInvariance, PTL
=============================================================================
