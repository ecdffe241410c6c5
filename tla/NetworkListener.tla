--------------------------- MODULE NetworkListener ---------------------------
(***************************************************************************)
(* utils/DefaultNetworkListener.kt in the :bg process: the actor that      *)
(* keeps the listeners and the default network, the service's listener     *)
(* (BaseService.preInit and killProcesses), and the system's network       *)
(* callback, modelled as external.                                         *)
(*                                                                         *)
(* mailbox is the actor's channel: senders are queued in the order of      *)
(* their sends.  A listener posts its work to the serial dispatcher, whose *)
(* queue is `serial`.                                                      *)
(***************************************************************************)
EXTENDS Naturals, Sequences, FiniteSets

CONSTANTS
  Services,   \* identities of the Service object
  Networks,   \* networks of the system
  None,       \* null
  MaxQueue    \* bound on queued messages and callbacks

ASSUME ListenerAssumption ==
  /\ None \notin Services \cup Networks
  /\ MaxQueue \in Nat

VARIABLES
  service,      \* the Service object, None before the first and after onDestroy
  running,      \* "yes" between preInit and killProcesses
  mailbox,      \* messages sent to the actor
  listeners,    \* keys of the actor's `listeners`
  network,      \* the actor's `network`
  registered,   \* "yes" while the system callback is registered
  serial,       \* callbacks queued on the serial dispatcher
  underlying,   \* SagerNet.underlyingNetwork
  up,           \* networks that exist
  def           \* the network the system callback follows

sysVars == <<up, def>>
actorVars == <<listeners, network, registered>>
listenerVars == <<service, running, mailbox, actorVars, serial, underlying, sysVars>>

Message ==
  [type : {"Start", "Stop"}, key : Services \cup {None}]
    \cup [type : {"Put", "Update", "Lost"}, net : Networks]

ListenerTypeOK ==
  /\ service \in Services \cup {None}
  /\ running \in {"yes", "no"}
  /\ mailbox \in Seq(Message)
  /\ listeners \subseteq Services
  /\ network \in Networks \cup {None}
  /\ registered \in {"yes", "no"}
  /\ serial \in Seq(Networks \cup {None})
  /\ underlying \in Networks \cup {None}
  /\ up \subseteq Networks
  /\ def \in up \cup {None}

InitListener ==
  /\ service = None /\ running = "no"
  /\ mailbox = <<>> /\ serial = <<>>
  /\ listeners = {} /\ network = None /\ registered = "no"
  /\ underlying = None
  /\ up = {} /\ def = None

Room == Len(mailbox) + Len(serial) < MaxQueue

Send(msg) == mailbox' = Append(mailbox, msg)

-----------------------------------------------------------------------------
(* The service, on the main thread *)

(* preInit of a connecting service, an existing object or a new one *)
PreInit(s) ==
  /\ Room
  /\ running = "no"
  /\ service \in {None, s}
  /\ service' = s
  /\ running' = "yes"
  /\ Send([type |-> "Start", key |-> s])
  /\ UNCHANGED <<actorVars, serial, underlying, sysVars>>

(* The key that killProcesses gives to DefaultNetworkListener.stop: `this`   *)
(* inside runOnMainDispatcher { } is the coroutine's scope, which nobody     *)
(* ever gave to start.                                                       *)
StopKey(s) == None

(* killProcesses of a stopping service *)
KillProcesses ==
  /\ Room
  /\ running = "yes"
  /\ running' = "no"
  /\ Send([type |-> "Stop", key |-> StopKey(service)])
  /\ UNCHANGED <<service, actorVars, serial, underlying, sysVars>>

(* stopSelf and no client bound: the object is gone. *)
OnDestroy ==
  /\ running = "no" /\ service # None
  /\ service' = None
  /\ UNCHANGED <<running, mailbox, actorVars, serial, underlying, sysVars>>

-----------------------------------------------------------------------------
(* The actor.  Each listener posts one callback to the serial dispatcher. *)

Notify(L, n) == serial' = serial \o [i \in 1..Cardinality(L) |-> n]

(* register(): the system answers with the current default network. *)
Register(box) ==
  IF def = None THEN box ELSE Append(box, [type |-> "Put", net |-> def])

ActorStart(msg, rest) ==
  /\ msg.type = "Start"
  /\ mailbox' = IF listeners = {} THEN Register(rest) ELSE rest
  /\ registered' = IF listeners = {} THEN "yes" ELSE registered
  /\ listeners' = listeners \cup {msg.key}
  /\ IF network = None THEN UNCHANGED serial ELSE Notify({msg.key}, network)
  /\ UNCHANGED network

(* The last listener's Stop unregisters. *)
ActorStop(msg, rest) ==
  /\ msg.type = "Stop"
  /\ mailbox' = rest
  /\ listeners' = listeners \ {msg.key}
  /\ IF listeners # {} /\ listeners' = {}
       THEN network' = None /\ registered' = "no"
       ELSE UNCHANGED <<network, registered>>
  /\ UNCHANGED serial

ActorPut(msg, rest) ==
  /\ msg.type = "Put"
  /\ mailbox' = rest
  /\ network' = msg.net
  /\ Notify(listeners, msg.net)
  /\ UNCHANGED <<listeners, registered>>

ActorUpdate(msg, rest) ==
  /\ msg.type = "Update"
  /\ mailbox' = rest
  /\ IF network = msg.net THEN Notify(listeners, network) ELSE UNCHANGED serial
  /\ UNCHANGED actorVars

ActorLost(msg, rest) ==
  /\ msg.type = "Lost"
  /\ mailbox' = rest
  /\ IF network = msg.net
       THEN network' = None /\ Notify(listeners, None)
       ELSE UNCHANGED <<network, serial>>
  /\ UNCHANGED <<listeners, registered>>

Actor ==
  /\ mailbox # <<>>
  /\ LET msg == Head(mailbox)
         rest == Tail(mailbox)
     IN \/ ActorStart(msg, rest) \/ ActorStop(msg, rest) \/ ActorPut(msg, rest)
        \/ ActorUpdate(msg, rest) \/ ActorLost(msg, rest)
  /\ UNCHANGED <<service, running, underlying, sysVars>>

(* Mutant: the callbacks run on a pool of threads. *)
MutCallback ==
  /\ \E i \in DOMAIN serial :
       /\ serial' = SubSeq(serial, 1, i - 1) \o SubSeq(serial, i + 1, Len(serial))
       /\ underlying' = IF serial[i] \in up \cup {None} THEN serial[i] ELSE underlying
  /\ UNCHANGED <<service, running, mailbox, actorVars, sysVars>>

(* The service's callback: null clears, a network without link properties    *)
(* (it is gone) is passed over.                                              *)
Callback ==
  /\ serial # <<>>
  /\ serial' = Tail(serial)
  /\ underlying' = IF Head(serial) \in up \cup {None} THEN Head(serial) ELSE underlying
  /\ UNCHANGED <<service, running, mailbox, actorVars, sysVars>>

-----------------------------------------------------------------------------
(* The system (external) *)

Deliver(msg) == mailbox' = IF registered = "yes" THEN Append(mailbox, msg) ELSE mailbox

(* Another network becomes the default one; the old one may stay up. *)
Available(n) ==
  /\ Room
  /\ n # def
  /\ up' = up \cup {n}
  /\ def' = n
  /\ Deliver([type |-> "Put", net |-> n])
  /\ UNCHANGED <<service, running, actorVars, serial, underlying>>

CapabilitiesChanged ==
  /\ Room
  /\ def # None
  /\ Deliver([type |-> "Update", net |-> def])
  /\ UNCHANGED <<service, running, actorVars, serial, underlying, sysVars>>

(* A network goes away, the default one or one that was the default once. *)
NetworkLost(n) ==
  /\ Room
  /\ n \in up
  /\ up' = up \ {n}
  /\ def' = IF n = def THEN None ELSE def
  /\ Deliver([type |-> "Lost", net |-> n])
  /\ UNCHANGED <<service, running, actorVars, serial, underlying>>

NextListener ==
  \/ \E s \in Services : PreInit(s)
  \/ KillProcesses \/ OnDestroy
  \/ Actor \/ Callback
  \/ \E n \in Networks : Available(n) \/ NetworkLost(n)
  \/ CapabilitiesChanged

(* The actor and the serial dispatcher keep working. *)
ListenerSpec ==
  /\ InitListener /\ [][NextListener]_listenerVars
  /\ WF_listenerVars(Actor) /\ WF_listenerVars(Callback)

-----------------------------------------------------------------------------
(* Properties *)

Quiet == mailbox = <<>> /\ serial = <<>>

(* While the service runs, SagerNet.underlyingNetwork, which the tunnel      *)
(* hands to the system as its underlying network, ends up at the default     *)
(* network whatever was queued in between: callbacks that find their network *)
(* gone are corrected by a later one.                                        *)
UnderlyingFollowsDefault == running = "yes" /\ Quiet => underlying = def

(* What killProcesses intends with its Stop ("on a restart the Stop always   *)
(* reaches the listener actor before the new Start"): once the actor has     *)
(* handled it, a stopped service has no listener.                            *)
StoppedIsRemoved == running = "no" /\ mailbox = <<>> => service \notin listeners

=============================================================================
