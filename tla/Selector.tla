------------------------------ MODULE Selector ------------------------------
(***************************************************************************)
(* Switching the node of a running selector group without a restart.  The  *)
(* node is kept in four places: DataStore.selectedProxy (shared by the two *)
(* processes), the core's Selector, the id the traffic looper counts for,  *)
(* and what the user last asked for.  A pick in the app writes             *)
(* selectedProxy and sends a reload, whose coroutine reads selectedProxy   *)
(* back and calls SelectOutbound; a pick in the web UI calls SelectOutbound*)
(* itself.  The core reports each switch to selector_OnProxySelected,      *)
(* which queues it on one serial thread; its handler writes selectedProxy  *)
(* and tells the activity, which writes selectedProxy once more.           *)
(***************************************************************************)
EXTENDS SelectorGroup, Sequences

CONSTANTS
  Calls,     \* coroutines and API requests that may run at the same time
  MaxPicks   \* bound on the user's picks

ASSUME PicksAssumption == MaxPicks \in Nat

VARIABLES
  selected,   \* DataStore.selectedProxy
  core,       \* Selector.selected in the core
  pc, arg,    \* the calls on their way to SelectOutbound
  events,     \* coroutines on the serial dispatcher
  callbacks,  \* cbSelectorUpdate calls on their way to the activity
  picks, picked,  \* history: number of picks and the last one
  odd         \* history: "overlap" after a pick made before the previous one
              \* had settled, "web" after one in the web UI, "early" after a switch reported before the fill

selectorVars == <<selected, core, pc, arg, events, callbacks, now, picks, picked, odd>>

Quiet == (\A c \in Calls : pc[c] = "idle") /\ events = <<>> /\ callbacks = <<>>

SelectorTypeOK ==
  /\ selected \in Nodes /\ core \in Nodes
  /\ pc \in [Calls -> {"idle", "reload", "swap", "callback"}]
  /\ arg \in [Calls -> Nodes \cup {None}]
  /\ events \in Seq(Nodes) /\ callbacks \in Seq(Nodes)
  /\ now \in Nodes \cup {None}
  /\ picks \in 0..MaxPicks /\ picked \in Nodes
  /\ odd \subseteq {"overlap", "web", "early"}

InitSelector ==
  /\ selected = Main /\ core = Main
  /\ pc = [c \in Calls |-> "idle"] /\ arg = [c \in Calls |-> Main]
  /\ events = <<>> /\ callbacks = <<>> /\ now = None
  /\ picks = 0 /\ picked = Main /\ odd = {}

Goto(c, from, to) == pc[c] = from /\ pc' = [pc EXCEPT ![c] = to]

Overlap == IF Quiet THEN odd ELSE odd \cup {"overlap"}

Picks(n) ==
  /\ picks < MaxPicks
  /\ picks' = picks + 1
  /\ picked' = IF n \in Nodes THEN n ELSE picked

-----------------------------------------------------------------------------
(* A click on a node: selectedProxy = id, then reloadService() if it changed *)
(* (the session runs, so serviceState.canStop is true).                      *)
Pick(c, n) ==
  /\ n # selected
  /\ Picks(n) /\ odd' = Overlap
  /\ Goto(c, "idle", "reload")
  /\ selected' = n
  /\ UNCHANGED <<core, arg, events, callbacks, now>>

(* reloadAccess.tryLock() fails while another click sends its reload: this   *)
(* one sends none.                                                           *)
PickUnsent(n) ==
  /\ n # selected
  /\ Picks(n) /\ odd' = Overlap
  /\ \E c \in Calls : pc[c] = "reload"
  /\ selected' = n
  /\ UNCHANGED <<core, pc, arg, events, callbacks, now>>

(* The clash API calls SelectOutbound for the dashboard, for any tag.        *)
WebPick(c, n) ==
  /\ Picks(n) /\ odd' = Overlap \cup {"web"}
  /\ Goto(c, "idle", "swap")
  /\ arg' = [arg EXCEPT ![c] = n]
  /\ UNCHANGED <<selected, core, events, callbacks, now>>

(* reload(), on the Default dispatcher: getById(DataStore.selectedProxy) *)
Reload(c) ==
  /\ Goto(c, "reload", "swap")
  /\ arg' = [arg EXCEPT ![c] = selected]
  /\ UNCHANGED <<selected, core, events, callbacks, now, picks, picked, odd>>

(* SelectOutbound returns for an unknown tag, swaps, and goes on only if     *)
(* the swap changed something.                                               *)
Swap(c) ==
  /\ Goto(c, "swap", IF arg[c] \in {core, None} THEN "idle" ELSE "callback")
  /\ core' = IF arg[c] = None THEN core ELSE arg[c]
  /\ UNCHANGED <<selected, arg, events, callbacks, now, picks, picked, odd>>

(* Selector_OnProxySelected: runOnSerialDispatcher { ... } *)
Report(c) ==
  /\ Goto(c, "callback", "idle")
  /\ events' = Append(events, arg[c])
  /\ UNCHANGED <<selected, core, arg, callbacks, now, picks, picked, odd>>

(* Mutant: a switch to a known node is ignored as well. *)
MutSelectNow(n) == now

(* TrafficLooper.selectMain: an id that is not in idMap is ignored, and      *)
(* before the fill no id is.                                                 *)
SelectNow(n) == IF now = None THEN now ELSE n

(* Mutant: the selection is only broadcast. *)
MutHandle ==
  /\ events # <<>>
  /\ events' = Tail(events)
  /\ now' = SelectNow(Head(events))
  /\ odd' = IF now = None THEN odd \cup {"early"} ELSE odd
  /\ callbacks' \in {callbacks, Append(callbacks, Head(events))}
  /\ UNCHANGED <<selected, core, pc, arg, picks, picked>>

(* The handler of one event, with an activity bound to the service or        *)
(* without one.                                                              *)
Handle ==
  /\ events # <<>>
  /\ events' = Tail(events)
  /\ selected' = Head(events)
  /\ now' = SelectNow(Head(events))
  /\ odd' = IF now = None THEN odd \cup {"early"} ELSE odd
  /\ callbacks' \in {callbacks, Append(callbacks, Head(events))}
  /\ UNCHANGED <<core, pc, arg, picks, picked>>

(* MainActivity.cbSelectorUpdate *)
UiUpdate ==
  /\ callbacks # <<>>
  /\ callbacks' = Tail(callbacks)
  /\ selected' = Head(callbacks)
  /\ UNCHANGED <<core, pc, arg, events, now, picks, picked, odd>>

(* The looper's first round: idMap is filled and mainEntId selected. *)
FillNow ==
  /\ now = None
  /\ now' = Main
  /\ UNCHANGED <<selected, core, pc, arg, events, callbacks, picks, picked, odd>>

NextSelector ==
  \/ \E c \in Calls : Reload(c) \/ Swap(c) \/ Report(c)
  \/ \E c \in Calls, n \in Nodes : Pick(c, n)
  \/ \E n \in Nodes : PickUnsent(n)
  \/ \E c \in Calls, n \in Nodes \cup {None} : WebPick(c, n)
  \/ Handle \/ UiUpdate \/ FillNow

SelectorSpec == InitSelector /\ [][NextSelector]_selectorVars

-----------------------------------------------------------------------------
(* Properties *)

(* Picks that wait for one another win: when everything has settled the      *)
(* core runs the node picked last, wherever it was picked, and selectedProxy *)
(* says so ("an unpersisted selection is rolled back to the stale            *)
(* selectedProxy on the next service reload").                               *)
LastPickWins == Quiet /\ "overlap" \notin odd => core = picked /\ selected = picked

(* The looper counts for the core's node as well, after picks in the app and *)
(* in the web UI that waited for one another.  Left out are sessions with    *)
(* picks that overlapped, whose reports can come in another order than the   *)
(* swaps, and with a switch reported before the looper was filled, which     *)
(* finds no item and is dropped.                                             *)
LooperFollows ==
  Quiet /\ odd \cap {"overlap", "early"} = {} /\ now # None => now = core

(* What "rapid switches A->B must persist in event order" is there for:      *)
(* however quickly the clicks in the app follow one another, the last one is *)
(* what the core runs and what is persisted in the end.                      *)
RapidPickWins == Quiet /\ "web" \notin odd => core = picked /\ selected = picked
=============================================================================
