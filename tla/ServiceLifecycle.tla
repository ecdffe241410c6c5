--------------------------- MODULE ServiceLifecycle ---------------------------
(***************************************************************************)
(* The life cycle of the background proxy service: BaseService.Interface   *)
(* with the overrides of VpnService, and the ProxyInstance each start      *)
(* creates (a "session").  Nearly everything runs on the main thread, and  *)
(* one action is one main-thread task: the code between two suspension     *)
(* points of a coroutine.  Elsewhere run Executable.killAll (IO            *)
(* dispatcher), the plugin processes and their reaping, and                *)
(* VpnService.onRevoke, which the system calls on a binder thread.  Its    *)
(* accesses come between those of a main-thread task, so the tasks that    *)
(* read or write what it does are cut there: stopRunner before its         *)
(* coroutine, and the connecting job around Box.Start.  While the main     *)
(* thread is inside such a task no other task of it runs (MainFree).       *)
(*                                                                         *)
(* GlobalScope.launch(Main.immediate) called on the main thread runs at    *)
(* once, so a stop with no connecting job completes within its task, and a *)
(* stop that joins the job completes in the task that ends the job.        *)
(* Called on another thread it posts to the main queue.                    *)
(***************************************************************************)
EXTENDS Naturals, FiniteSets

CONSTANTS
  Sessions,    \* identities of ProxyInstance objects
  NoSession,   \* null
  Plugins,     \* the external plugin programs that profiles use
  VpnMode,     \* TRUE for VpnService, FALSE for ProxyService
  MaxStarts    \* bound on start intents and reload requests under way

(* The plugin binaries that Executable.killAll knows by name. *)
EXECUTABLES == {"trojan", "trojan-go", "naive", "tuic", "hysteria", "xray", "mihomo"}

(* The plugins BoxInstance.launch can start. *)
LaunchedPlugins == {"trojan-go", "mieru", "naive", "hysteria", "xray", "mihomo"}

ASSUME ServiceAssumption ==
  /\ NoSession \notin Sessions
  /\ Plugins \subseteq LaunchedPlugins
  /\ VpnMode \in BOOLEAN
  /\ MaxStarts \in Nat

VARIABLES
  state,         \* data.state
  proxy,         \* data.proxy
  jobPc,         \* data.connectingJob: where it is, "none" when null
  jobSess,       \* the job's captured local `proxy`
  stops,         \* the stopRunner coroutines that cancelled the job and join it
  halt,          \* the stopRunner coroutine the main thread is about to run
  box,           \* libcore box of every session
  pool,          \* GuardedProcessPool of every session
  procs,         \* live plugin processes, <<session, plugin>>
  mainInstance,  \* libcore's mainInstance
  held,          \* fields of the service and of DataStore that are set
  starts,        \* start intents not delivered yet
  reloads,       \* reload coroutines not finished yet
  fatals,        \* sessions whose pool posted onFatal to the main queue
  revoke,        \* where the binder thread is in onRevoke, or its posted coroutine
  met            \* history: onRevoke did something since the last start

jobVars == <<jobPc, jobSess, stops>>
instVars == <<proxy, box, pool, mainInstance>>
envVars == <<procs, reloads, fatals>>
revokeVars == <<revoke, met>>
vars == <<state, halt, jobVars, instVars, envVars, revokeVars, held, starts>>

(* VpnService.conn, the wake lock, the broadcast receiver, the notification *)
(* and the two references in DataStore.                                     *)
Resources ==
  {"conn", "wakeLock", "receiver", "notification", "baseService", "vpnService"}

(* State.canStop, which is also State.started. *)
CanStop == state \in {"Connecting", "Connected"}

(* The main thread is not inside a task. *)
MainFree == halt = "none" /\ jobPc \notin {"launch", "launched"}

Pending == starts + reloads + (IF "restart" \in stops \cup {halt} THEN 1 ELSE 0)

TypeOK ==
  /\ state \in {"Stopped", "Connecting", "Connected", "Stopping"}
  /\ proxy \in Sessions \cup {NoSession}
  /\ jobPc \in {"none", "killAll", "killed", "preInit", "launch", "launched"}
  /\ jobSess \in Sessions \cup {NoSession}
  /\ stops \subseteq {"stop", "restart"}
  /\ halt \in {"none", "stop", "restart"}
  /\ box \in [Sessions -> {"none", "new", "running", "closed"}]
  /\ pool \in [Sessions -> {"none", "open", "closed"}]
  /\ procs \subseteq Sessions \X Plugins
  /\ mainInstance \in Sessions \cup {NoSession}
  /\ held \subseteq Resources
  /\ starts \in Nat
  /\ reloads \in Nat
  /\ fatals \subseteq Sessions
  /\ revoke \in {"none", "called", "cleared", "checked", "posted"}
  /\ met \in BOOLEAN

Init ==
  /\ state = "Stopped" /\ halt = "none"
  /\ proxy = NoSession
  /\ jobPc = "none" /\ jobSess = NoSession /\ stops = {}
  /\ box = [s \in Sessions |-> "none"]
  /\ pool = [s \in Sessions |-> "none"]
  /\ procs = {}
  /\ mainInstance = NoSession
  /\ held = {}
  /\ starts = 0 /\ reloads = 0 /\ fatals = {}
  /\ revoke = "none" /\ met = FALSE

-----------------------------------------------------------------------------
(* Stopping *)

(* BoxInstance.close and libcore BoxInstance.Close on data.proxy: close the *)
(* pool and the box if they were created.                                   *)
CloseCurrent(f) ==
  [s \in Sessions |-> IF s = proxy /\ f[s] # "none" THEN "closed" ELSE f[s]]

(* Mutant: the override in VpnService is missing and the tun stays open. *)
MutKillProcesses ==
  /\ box' = CloseCurrent(box)
  /\ pool' = CloseCurrent(pool)
  /\ mainInstance' = IF mainInstance = proxy THEN NoSession ELSE mainInstance
  /\ held' = held \ {"wakeLock", "receiver"}

(* killProcesses: the tun descriptor, the instance (whose Close gives up    *)
(* libcore's mainInstance) and the wake lock; then stopRunner unregisters   *)
(* the receiver.                                                            *)
KillProcesses ==
  /\ box' = CloseCurrent(box)
  /\ pool' = CloseCurrent(pool)
  /\ mainInstance' = IF mainInstance = proxy THEN NoSession ELSE mainInstance
  /\ held' = held \ {"conn", "wakeLock", "receiver"}

(* Mutant: the restart argument is lost. *)
MutFinishStop(hows) ==
  /\ KillProcesses
  /\ proxy' = NoSession
  /\ state' = "Stopped"
  /\ UNCHANGED starts
  /\ jobPc' = "none" /\ jobSess' = NoSession /\ stops' = {} /\ halt' = "none"

(* The coroutines of stopRunner once no connecting job is left.  `hows` are  *)
(* their arguments: "restart" sends the service a start intent.              *)
FinishStop(hows) ==
  /\ KillProcesses
  /\ proxy' = NoSession
  /\ state' = "Stopped"
  /\ starts' = IF "restart" \in hows THEN starts + 1 ELSE starts
  /\ jobPc' = "none" /\ jobSess' = NoSession /\ stops' = {} /\ halt' = "none"

(* Mutant: the coroutine does not cancel and join the connecting job. *)
MutStopCoroutine ==
  /\ halt # "none"
  /\ KillProcesses
  /\ proxy' = NoSession /\ state' = "Stopped"
  /\ starts' = IF halt = "restart" THEN starts + 1 ELSE starts
  /\ halt' = "none"
  /\ UNCHANGED <<jobVars, envVars, revokeVars>>

(* The coroutine starts: it cancels and joins the job, or goes on at once. *)
StopCoroutine ==
  /\ halt # "none"
  /\ \/ /\ jobPc # "none"
        /\ stops' = stops \cup {halt} /\ halt' = "none"
        /\ UNCHANGED <<state, jobPc, jobSess, instVars, held, starts>>
     \/ jobPc = "none" /\ FinishStop({halt})
  /\ UNCHANGED <<envVars, revokeVars>>

(* stopRunner on the main thread, up to its coroutine, by a task that        *)
(* leaves q start intents.                                                   *)
StopRunner(how, q) ==
  /\ starts' = q
  /\ IF state = "Stopping"
       THEN /\ held' = held \ {"baseService", "vpnService"}
            /\ UNCHANGED <<state, halt>>
       ELSE /\ held' = held \ {"baseService", "vpnService", "notification"}
            /\ state' = "Stopping" /\ halt' = how

(* A main-thread task that is nothing but a call of stopRunner. *)
StopTask(how, q) ==
  /\ MainFree
  /\ StopRunner(how, q)
  /\ UNCHANGED <<jobVars, instVars, revokeVars>>

-----------------------------------------------------------------------------
(* VpnService.onRevoke, on a binder thread: stopRunner's accesses one by     *)
(* one, and its coroutine, which is posted to the main queue.  The system    *)
(* revokes a tun that was established; the call may come any time later, and *)
(* a second one would need another tun.                                      *)

OnRevoke ==
  /\ VpnMode /\ "conn" \in held
  /\ revoke = "none" /\ revoke' = "called"
  /\ UNCHANGED <<state, halt, jobVars, instVars, envVars, met, held, starts>>

RevokeClears ==
  /\ revoke = "called" /\ revoke' = "cleared" /\ met' = TRUE
  /\ held' = held \ {"baseService", "vpnService"}
  /\ UNCHANGED <<state, halt, jobVars, instVars, envVars, starts>>

(* if (data.state == State.Stopping) return *)
RevokeChecks ==
  /\ revoke = "cleared"
  /\ revoke' = IF state = "Stopping" THEN "none" ELSE "checked"
  /\ UNCHANGED <<state, halt, jobVars, instVars, envVars, met, held, starts>>

(* changeState(State.Stopping), whatever the state is by now *)
RevokePosts ==
  /\ revoke = "checked" /\ revoke' = "posted" /\ met' = TRUE
  /\ held' = held \ {"notification"}
  /\ state' = "Stopping"
  /\ UNCHANGED <<halt, jobVars, instVars, envVars, starts>>

(* The main thread takes the posted coroutine. *)
RevokedStop ==
  /\ MainFree
  /\ revoke = "posted" /\ revoke' = "none" /\ met' = TRUE
  /\ halt' = "stop"
  /\ UNCHANGED <<state, jobVars, instVars, envVars, held, starts>>

BinderThread == RevokeClears \/ RevokeChecks \/ RevokePosts

-----------------------------------------------------------------------------
(* Starting *)

(* startForegroundService by the UI, the tile or the boot receiver. *)
StartService ==
  /\ Pending < MaxStarts
  /\ starts' = starts + 1
  /\ UNCHANGED <<state, halt, jobVars, instVars, envVars, revokeVars, held>>

(* A ProxyInstance object nothing refers to any more stands for a new one. *)
Fresh(s) ==
  /\ s # proxy /\ s \notin fatals
  /\ box[s] \in {"none", "closed"} /\ pool[s] \in {"none", "closed"}
  /\ \A p \in Plugins : <<s, p>> \notin procs

(* VpnService.onStartCommand without the VPN permission, or started while   *)
(* the service mode is not VPN.                                             *)
OnStartCommandNoVpn ==
  /\ VpnMode
  /\ starts > 0
  /\ StopTask("stop", starts - 1)
  /\ UNCHANGED envVars

(* onStartCommand while not stopped. *)
OnStartCommandIgnored ==
  /\ MainFree
  /\ starts > 0
  /\ state # "Stopped"
  /\ starts' = starts - 1
  /\ held' = held \cup {"baseService"}
  /\ UNCHANGED <<state, halt, jobVars, instVars, envVars, revokeVars>>

(* onStartCommand with no selected profile, or whose notification cannot be *)
(* shown: either way the stopRunner it calls undoes within the same task    *)
(* what it had set up.                                                      *)
OnStartCommandNoProfile ==
  /\ starts > 0
  /\ state = "Stopped"
  /\ StopTask("stop", starts - 1)
  /\ UNCHANGED envVars

(* Mutant: the check for a service that is already running is missing. *)
MutOnStartCommand(s) ==
  /\ MainFree /\ jobPc = "none"
  /\ starts > 0 /\ Fresh(s)
  /\ starts' = starts - 1
  /\ held' = held \cup {"baseService", "receiver", "notification"}
  /\ proxy' = s
  /\ box' = [box EXCEPT ![s] = "none"]
  /\ pool' = [pool EXCEPT ![s] = "none"]
  /\ state' = "Connecting"
  /\ jobPc' = "killAll" /\ jobSess' = s
  /\ UNCHANGED <<stops, halt, mainInstance, envVars, revokeVars>>

(* onStartCommand with a profile: up to the job's first suspension. *)
OnStartCommand(s) ==
  /\ MainFree
  /\ starts > 0
  /\ state = "Stopped"
  /\ Fresh(s)
  /\ starts' = starts - 1
  /\ held' = held \cup {"baseService", "receiver", "notification"}
  /\ proxy' = s
  /\ box' = [box EXCEPT ![s] = "none"]
  /\ pool' = [pool EXCEPT ![s] = "none"]
  /\ state' = "Connecting"
  /\ jobPc' = "killAll" /\ jobSess' = s
  /\ met' = (revoke \notin {"none", "called"})
  /\ UNCHANGED <<stops, halt, mainInstance, envVars, revoke>>

(* Mutant: the old processes are not killed. *)
MutJobKillAll ==
  /\ jobPc = "killAll"
  /\ jobPc' = "killed"
  /\ UNCHANGED <<state, halt, jobSess, stops, instVars, envVars, revokeVars, held, starts>>

(* Executable.killAll on the IO dispatcher; a cancelled withContext still   *)
(* waits for its block.                                                     *)
JobKillAll ==
  /\ jobPc = "killAll"
  /\ procs' = {e \in procs : e[2] \notin EXECUTABLES}
  /\ jobPc' = "killed"
  /\ UNCHANGED <<state, halt, jobSess, stops, instVars, reloads, fatals, revokeVars, held,
                 starts>>

(* The job is resumed on the main thread, and was not cancelled. *)
Resumes(at) == MainFree /\ jobPc = at /\ stops = {}

(* preInit sends to the listener's actor. *)
JobPreInit ==
  /\ Resumes("killed")
  /\ jobPc' = "preInit"
  /\ UNCHANGED <<state, halt, jobSess, stops, instVars, envVars, revokeVars, held, starts>>

(* Mutant: a job suspended in preInit does not see its cancellation. *)
MutJobCancelledEnd ==
  /\ MainFree /\ jobPc = "killed" /\ stops # {}
  /\ FinishStop(stops)
  /\ UNCHANGED <<envVars, revokeVars>>

(* The job is resumed with its cancellation and ends; the stopRunner        *)
(* coroutines that joined it go on in the same task.                        *)
JobCancelledEnd ==
  /\ MainFree /\ jobPc \in {"killed", "preInit"} /\ stops # {}
  /\ FinishStop(stops)
  /\ UNCHANGED <<envVars, revokeVars>>

(* VpnService.startProcesses publishes the service before the launch. *)
StartProcesses == IF VpnMode THEN {"vpnService"} ELSE {}

(* Mutant: VpnService.startProcesses does not publish the service. *)
MutJobInit ==
  /\ Resumes("preInit")
  /\ jobPc' = "launch"
  /\ box' = [box EXCEPT ![jobSess] = "new"]
  /\ pool' = [pool EXCEPT ![jobSess] = "open"]
  /\ UNCHANGED <<state, halt, jobSess, stops, proxy, mainInstance, envVars, revokeVars, held,
                 starts>>

(* Mutant: the job runs on after its cancellation. *)
MutJobInitCancelled ==
  /\ MainFree /\ jobPc = "preInit"
  /\ jobPc' = "launch"
  /\ box' = [box EXCEPT ![jobSess] = "new"]
  /\ pool' = [pool EXCEPT ![jobSess] = "open"]
  /\ held' = held \cup StartProcesses
  /\ UNCHANGED <<state, halt, jobSess, stops, proxy, mainInstance, envVars, revokeVars, starts>>

(* proxy.init() and the pool; from here the job runs to its end without a   *)
(* suspension.                                                              *)
JobInit ==
  /\ Resumes("preInit")
  /\ jobPc' = "launch"
  /\ box' = [box EXCEPT ![jobSess] = "new"]
  /\ pool' = [pool EXCEPT ![jobSess] = "open"]
  /\ held' = held \cup StartProcesses
  /\ UNCHANGED <<state, halt, jobSess, stops, proxy, mainInstance, envVars, revokeVars, starts>>

(* launch: setAsMain, then the plugins P that the profile's chain needs. *)
Launches ==
  /\ jobPc = "launch"
  /\ mainInstance' = proxy
  /\ \E P \in SUBSET Plugins : procs' = procs \cup ({proxy} \X P)

(* VpnService.startVpn, which the core calls while the main thread is inside *)
(* Box.Start: it keeps the tun it establishes in conn, unless the service is *)
(* no longer started by then; in that case it throws and the launch fails.   *)
StartVpn ==
  /\ VpnMode => CanStop
  /\ held' = IF VpnMode THEN held \cup {"conn"} ELSE held

JobLaunch ==
  /\ Launches
  /\ StartVpn
  /\ jobPc' = "launched"
  /\ UNCHANGED <<state, halt, jobSess, stops, proxy, box, pool, reloads, fatals, revokeVars,
                 starts>>

(* Connected, whatever the state is by now, and lateInit; the user may want  *)
(* a wake lock.                                                              *)
JobConnected ==
  /\ jobPc = "launched"
  /\ box' = [box EXCEPT ![jobSess] = "running"]
  /\ \E w \in SUBSET {"wakeLock"} : held' = held \cup w
  /\ state' = "Connected"
  /\ jobPc' = "none" /\ jobSess' = NoSession
  /\ UNCHANGED <<stops, halt, proxy, pool, mainInstance, envVars, revokeVars, starts>>

(* stopRunner called by the job's own catch clauses: the stop coroutine      *)
(* joins the very job that called it, which ends at once.                    *)
JobFails ==
  /\ StopRunner("stop", starts)
  /\ jobPc' = "none" /\ jobSess' = NoSession
  /\ UNCHANGED <<stops, proxy, box, pool, reloads, fatals, revokeVars>>

(* init throws: a bad profile, a missing plugin, a config sing-box refuses. *)
JobInitFails ==
  /\ Resumes("preInit")
  /\ JobFails
  /\ UNCHANGED <<mainInstance, procs>>

(* launch throws: a plugin that does not start, after some did, or openTun. *)
JobLaunchFails == Launches /\ JobFails

(* Box.Start fails after openTun. *)
JobStartFails ==
  /\ jobPc = "launched"
  /\ JobFails
  /\ UNCHANGED <<mainInstance, procs>>

-----------------------------------------------------------------------------
(* Requests and failures while running *)

(* Action.CLOSE, or Action.RELOAD with no selected profile *)
ReceiveClose ==
  /\ "receiver" \in held
  /\ StopTask("stop", starts)
  /\ UNCHANGED envVars

(* Action.RELOAD: the rest of reload() moves to the Default dispatcher. *)
ReceiveReload ==
  /\ MainFree
  /\ "receiver" \in held
  /\ Pending < MaxStarts
  /\ reloads' = reloads + 1
  /\ UNCHANGED <<state, halt, jobVars, instVars, procs, fatals, revokeVars, held, starts>>

(* The reload only switches the selector of the running box. *)
ReloadSelects ==
  /\ reloads > 0
  /\ proxy # NoSession /\ box[proxy] = "running"
  /\ reloads' = reloads - 1
  /\ UNCHANGED <<state, halt, jobVars, instVars, procs, fatals, revokeVars, held, starts>>

(* The reload comes back to the main thread for a full restart. *)
ReloadRestarts ==
  /\ reloads > 0
  /\ reloads' = reloads - 1
  /\ \/ CanStop /\ StopTask("restart", starts)
     \/ /\ MainFree /\ ~CanStop
        /\ starts' = IF state = "Stopped" THEN starts + 1 ELSE starts
        /\ UNCHANGED <<state, halt, jobVars, instVars, revokeVars, held>>
  /\ UNCHANGED <<procs, fatals>>

(* A guarded process exits too fast or cannot be restarted. *)
PluginFatal(s, p) ==
  /\ pool[s] = "open"
  /\ <<s, p>> \in procs
  /\ procs' = procs \ {<<s, p>>}
  /\ fatals' = fatals \cup {s}
  /\ UNCHANGED <<state, halt, jobVars, instVars, reloads, revokeVars, held, starts>>

(* The posted onFatal stops whatever the service runs by then. *)
OnFatal(s) ==
  /\ s \in fatals
  /\ fatals' = fatals \ {s}
  /\ StopTask("stop", starts)
  /\ UNCHANGED <<procs, reloads>>

(* The looper of a closed pool kills its process. *)
Reap(s, p) ==
  /\ pool[s] = "closed"
  /\ <<s, p>> \in procs
  /\ procs' = procs \ {<<s, p>>}
  /\ UNCHANGED <<state, halt, jobVars, instVars, reloads, fatals, revokeVars, held, starts>>

Job == \/ JobKillAll \/ JobPreInit \/ JobCancelledEnd \/ JobInit \/ JobLaunch
       \/ JobConnected \/ JobInitFails \/ JobLaunchFails \/ JobStartFails

Command == \/ OnStartCommandNoVpn \/ OnStartCommandIgnored
           \/ OnStartCommandNoProfile
           \/ \E s \in Sessions : OnStartCommand(s)

Request == ReceiveClose \/ ReceiveReload \/ OnRevoke

Reload == ReloadSelects \/ ReloadRestarts

Next ==
  \/ StartService \/ Command \/ Job \/ Request \/ Reload
  \/ StopCoroutine \/ BinderThread \/ RevokedStop
  \/ \E s \in Sessions : OnFatal(s)
  \/ \E s \in Sessions, p \in Plugins : PluginFatal(s, p) \/ Reap(s, p)

(* The main looper, the binder thread, the Default and IO dispatchers and    *)
(* the reaping loopers keep running whatever is queued to them.              *)
Fairness ==
  /\ WF_vars(Job) /\ WF_vars(StopCoroutine) /\ WF_vars(Command) /\ WF_vars(Reload)
  /\ WF_vars(BinderThread) /\ WF_vars(RevokedStop)
  /\ \A s \in Sessions : WF_vars(OnFatal(s))
  /\ \A s \in Sessions, p \in Plugins : WF_vars(Reap(s, p))

Spec == Init /\ [][Next]_vars /\ Fairness

-----------------------------------------------------------------------------
(* Properties *)

(* A stopped service holds nothing: whatever path led to Stopped (a stop of *)
(* a running session, a cancelled or failed connecting job, a revocation, a *)
(* stop of a stopped service), the tun, the wake lock, the receiver and the *)
(* session are released.  DataStore.baseService may be set, by a start      *)
(* ignored while stopping.  Only a revocation that raced the session may    *)
(* leave the notification (its coroutine ends a session that was started    *)
(* after stopRunner destroyed the notification) or DataStore.vpnService     *)
(* (published after stopRunner cleared it).                                 *)
StoppedIsClean ==
  state = "Stopped" =>
    /\ proxy = NoSession /\ mainInstance = NoSession
    /\ jobPc = "none"
    /\ held \subseteq {"baseService"} \cup (IF met THEN {"notification", "vpnService"} ELSE {})
    /\ \A s \in Sessions : box[s] \in {"none", "closed"} /\ pool[s] # "open"

(* A box or a process pool that has not been closed belongs to data.proxy:  *)
(* a restart never leaves the previous session's box or pool behind, and    *)
(* libcore's mainInstance is never another session's.                       *)
LiveIsCurrent ==
  /\ \A s \in Sessions :
       box[s] \in {"new", "running"} \/ pool[s] = "open" => s = proxy
  /\ mainInstance \in {proxy, NoSession}

(* A revocation has begun to take the service down. *)
Revoking == revoke \in {"cleared", "checked", "posted"} \/ halt # "none"

(* Connected means that everything the session needs is in place, including *)
(* the DataStore references that every stopRunner clears first, even one    *)
(* that then returns early.  Where a revocation has taken the notification  *)
(* or the references away, its stop is on the way; box, pool and tun stay   *)
(* until then, also when the job overwrote Stopping with Connected.         *)
ConnectedIsComplete ==
  state = "Connected" =>
    /\ proxy # NoSession
    /\ box[proxy] = "running" /\ pool[proxy] = "open"
    /\ mainInstance = proxy
    /\ "receiver" \in held /\ (VpnMode => "conn" \in held)
    /\ ~Revoking => {"notification", "baseService"} \cup StartProcesses \subseteq held

(* Connecting has a job that will decide it, and Stopping has a stop: the   *)
(* coroutine that is about to run, one that joins a cancelled job, or one a *)
(* revocation has posted.  No interleaving of requests leaves the service   *)
(* in a transient state with nobody to move it on, or a job in one that is  *)
(* not transient.                                                           *)
TransientHasOwner ==
  /\ jobPc # "none" => state \in {"Connecting", "Stopping"}
  /\ state = "Connecting" => jobPc # "none"
  /\ state = "Stopping" => halt # "none" \/ stops # {} \/ revoke = "posted"
  /\ stops # {} => jobPc \in {"killAll", "killed", "preInit"}

(* When a session is connected, the plugin processes of earlier sessions    *)
(* are gone: the connecting job's Executable.killAll ("clean up old         *)
(* processes") finished before the new ones were started.                   *)
NoStalePlugins ==
  state = "Connected" => \A e \in procs : e[1] = proxy

(* A job that a stop cancelled never makes the service Connected, and what  *)
(* ends the stop is Stopped, never a new attempt.  The one thing that makes *)
(* a service Connected again after Stopping is the end of a job that a      *)
(* revocation, waiting in the main queue, has not cancelled yet.            *)
CancelledNeverConnects ==
  [][/\ stops # {} => state' # "Connected" /\ (stops' # {} \/ state' = "Stopped")
     /\ state = "Stopping" /\ state' = "Connected" => revoke = "posted"]_vars

(* Every stop completes, the one that Connected has overwritten too. *)
StopCompletes == state = "Stopping" ~> state = "Stopped"

(* A reload that finds the service connecting is never lost: the restart it *)
(* asked stopRunner for delivers a start intent once the stop is complete.  *)
RestartIsDelivered ==
  "restart" \in stops \cup {halt} ~> (state = "Stopped" /\ starts > 0)
=============================================================================
