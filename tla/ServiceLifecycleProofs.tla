------------------------ MODULE ServiceLifecycleProofs ------------------------
(***************************************************************************)
(* Proofs about ServiceLifecycle for every set of sessions, every set of   *)
(* plugins, both service modes and every bound on the pending requests.    *)
(***************************************************************************)
EXTENDS ServiceLifecycle, TLAPS

(* What the safety properties of ServiceLifecycle leave out and an          *)
(* induction needs: what a connecting job owns while it is under way, and   *)
(* what a revocation may have taken away from it.                           *)

(* The job's captured instance is data.proxy, and the receiver stays        *)
(* registered while there is a job.                                         *)
JobOwnsProxy ==
  jobPc # "none" =>
    /\ proxy \in Sessions /\ jobSess = proxy
    /\ "receiver" \in held

(* Inside the last, uninterrupted part of the job, the main thread has no   *)
(* other task, and box and pool exist.                                      *)
JobOnMain ==
  /\ jobPc \in {"launch", "launched"} =>
       /\ halt = "none"
       /\ box[proxy] = "new" /\ pool[proxy] = "open"
  /\ jobPc = "launched" =>
       mainInstance = proxy /\ (VpnMode => "conn" \in held)

(* What onStartCommand and startProcesses set up stays for the job, until a *)
(* stop or a revocation takes it down.                                      *)
JobIsPrepared ==
  jobPc # "none" /\ stops = {} /\ ~Revoking =>
    /\ state = "Connecting"
    /\ {"notification", "baseService"} \subseteq held
    /\ jobPc \in {"launch", "launched"} => StartProcesses \subseteq held

(* `met` remembers a revocation that is under way, and without one a stop   *)
(* has already taken down what stopRunner takes down first.                 *)
StopClearedFirst ==
  /\ revoke \in {"cleared", "checked", "posted"} => met
  /\ ~met /\ (halt # "none" \/ stops # {}) =>
       held \cap {"notification", "vpnService"} = {}

IInv ==
  /\ TypeOK
  /\ StoppedIsClean
  /\ LiveIsCurrent
  /\ ConnectedIsComplete
  /\ TransientHasOwner
  /\ JobOwnsProxy
  /\ JobOnMain
  /\ JobIsPrepared
  /\ StopClearedFirst

(* From killAll on the only plugin processes are those the job launches. *)
KilledIsEmpty ==
  /\ jobPc \in {"killed", "preInit", "launch"} => procs = {}
  /\ jobPc = "launched" => \A e \in procs : e[1] = proxy

-----------------------------------------------------------------------------
(* The initial state satisfies the inductive invariant. *)
LEMMA InitIInv == Init => IInv
<1> SUFFICES ASSUME Init PROVE IInv
  OBVIOUS
<1>1. TypeOK
  BY DEF Init, TypeOK
<1>2. StoppedIsClean
  BY DEF Init, StoppedIsClean
<1>3. LiveIsCurrent /\ ConnectedIsComplete /\ TransientHasOwner
  BY DEF Init, LiveIsCurrent, ConnectedIsComplete, TransientHasOwner
<1>4. JobOwnsProxy /\ JobOnMain /\ JobIsPrepared /\ StopClearedFirst
  BY DEF Init, JobOwnsProxy, JobOnMain, JobIsPrepared, StopClearedFirst
<1> QED
  BY <1>1, <1>2, <1>3, <1>4 DEF IInv

USE DEF IInv, TypeOK, StoppedIsClean, LiveIsCurrent, ConnectedIsComplete,
        TransientHasOwner, JobOwnsProxy, JobOnMain, JobIsPrepared, StopClearedFirst,
        Revoking, jobVars, instVars, envVars, revokeVars, vars

(* FinishStop leaves a clean service, in whatever state the coroutine of    *)
(* stopRunner found it.                                                     *)
LEMMA FinishStopIInv ==
  ASSUME IInv, NEW hows, FinishStop(hows), halt # "none" \/ stops # {},
         UNCHANGED <<envVars, revokeVars>>
  PROVE  IInv'
<1>1. /\ box' \in [Sessions -> {"none", "new", "running", "closed"}]
      /\ pool' \in [Sessions -> {"none", "open", "closed"}]
  BY DEF FinishStop, KillProcesses, CloseCurrent
<1>2. \A s \in Sessions : box'[s] \in {"none", "closed"} /\ pool'[s] # "open"
  BY DEF FinishStop, KillProcesses, CloseCurrent
<1>3. mainInstance' = NoSession
  BY DEF FinishStop, KillProcesses
<1>4. /\ held' \subseteq Resources
      /\ held' \subseteq {"baseService"} \cup (IF met THEN {"notification", "vpnService"} ELSE {})
  BY DEF FinishStop, KillProcesses, Resources
<1>5. starts' \in Nat
  BY DEF FinishStop
<1> QED
  BY <1>1, <1>2, <1>3, <1>4, <1>5 DEF FinishStop

(* A main-thread task that calls stopRunner preserves the invariant in      *)
(* every state it can run in, and leaves q start intents.                   *)
LEMMA StopTaskIInv ==
  ASSUME IInv, NEW how \in {"stop", "restart"}, NEW q \in Nat,
         StopTask(how, q),
         procs' \subseteq Sessions \X Plugins, reloads' \in Nat,
         fatals' \subseteq Sessions
  PROVE  IInv'
<1>1. CASE state = "Stopping"
  BY <1>1 DEF StopTask, StopRunner, MainFree
<1>2. CASE state # "Stopping"
  <2>1. /\ held' = held \ {"baseService", "vpnService", "notification"}
        /\ state' = "Stopping" /\ halt' = how /\ starts' = q
        /\ UNCHANGED <<jobVars, instVars, revokeVars>>
        /\ jobPc \notin {"launch", "launched"}
    BY <1>2 DEF StopTask, StopRunner, MainFree
  <2> QED
    BY <2>1
<1> QED
  BY <1>1, <1>2

(* The coroutine of stopRunner on the main thread. *)
LEMMA StopCoroutineIInv ==
  ASSUME IInv, StopCoroutine
  PROVE  IInv'
<1>1. CASE jobPc # "none"
  <2>1. /\ halt # "none" /\ stops' = stops \cup {halt} /\ halt' = "none"
        /\ UNCHANGED <<state, jobPc, jobSess, instVars, held, starts, envVars, revokeVars>>
    BY <1>1 DEF StopCoroutine
  <2> QED
    BY <1>1, <2>1
<1>2. CASE jobPc = "none"
  <2>1. FinishStop({halt}) /\ halt # "none" /\ UNCHANGED <<envVars, revokeVars>>
    BY <1>2 DEF StopCoroutine
  <2> HIDE DEF IInv
  <2> QED
    BY <2>1, FinishStopIInv
<1> QED
  BY <1>1, <1>2

(* The binder thread in onRevoke, and the coroutine it posts. *)
LEMMA RevokeIInv ==
  ASSUME IInv, OnRevoke \/ BinderThread \/ RevokedStop
  PROVE  IInv'
<1>1. CASE OnRevoke
  BY <1>1 DEF OnRevoke
<1>2. CASE RevokeClears
  BY <1>2 DEF RevokeClears
<1>3. CASE RevokeChecks
  BY <1>3 DEF RevokeChecks
<1>4. CASE RevokePosts
  BY <1>4 DEF RevokePosts
<1>5. CASE RevokedStop
  BY <1>5 DEF RevokedStop, MainFree
<1> QED
  BY <1>1, <1>2, <1>3, <1>4, <1>5 DEF BinderThread

(* The commands: startForegroundService's delivery, in all its outcomes. *)
LEMMA CommandIInv ==
  ASSUME IInv, Command
  PROVE  IInv'
<1>1. CASE OnStartCommandNoVpn
  BY <1>1, StopTaskIInv DEF OnStartCommandNoVpn
<1>2. CASE OnStartCommandIgnored
  <2>1. /\ held' = held \cup {"baseService"} /\ state # "Stopped"
        /\ UNCHANGED <<state, halt, jobVars, instVars, envVars, revokeVars>>
        /\ starts' \in Nat
    BY <1>2 DEF OnStartCommandIgnored
  <2>2. held' \subseteq Resources
    BY <2>1 DEF Resources
  <2> QED
    BY <2>1, <2>2
<1>3. CASE OnStartCommandNoProfile
  BY <1>3, StopTaskIInv DEF OnStartCommandNoProfile
<1>4. ASSUME NEW s \in Sessions, OnStartCommand(s)
      PROVE  IInv'
  <2>1. ASSUME NEW r \in Sessions
        PROVE  box'[r] \in {"none", "closed"} /\ pool'[r] # "open"
    <3>1. box[r] \in {"none", "closed"} /\ pool[r] # "open"
      BY <1>4 DEF OnStartCommand
    <3>2. box' = [box EXCEPT ![s] = "none"] /\ pool' = [pool EXCEPT ![s] = "none"]
      BY <1>4 DEF OnStartCommand
    <3> QED
      BY <3>1, <3>2
  <2>2. /\ state' = "Connecting" /\ jobPc' = "killAll" /\ jobSess' = s /\ proxy' = s
        /\ halt = "none" /\ halt' = "none" /\ stops = {} /\ stops' = {}
        /\ mainInstance = NoSession /\ mainInstance' = NoSession
        /\ held' = held \cup {"baseService", "receiver", "notification"}
        /\ starts' \in Nat /\ UNCHANGED <<envVars, revoke>>
        /\ met' = (revoke \notin {"none", "called"})
    BY <1>4 DEF OnStartCommand, MainFree
  <2>3. held' \subseteq Resources
    BY <2>2 DEF Resources
  <2>4. /\ box' \in [Sessions -> {"none", "new", "running", "closed"}]
        /\ pool' \in [Sessions -> {"none", "open", "closed"}]
    BY <1>4 DEF OnStartCommand
  <2>5. met' \in BOOLEAN /\ (revoke \in {"cleared", "checked", "posted"} => met')
    BY <2>2
  <2> QED
    BY <2>1, <2>2, <2>3, <2>4, <2>5, ServiceAssumption
<1> QED
  BY <1>1, <1>2, <1>3, <1>4 DEF Command

(* A set of plugin processes of data.proxy is well typed. *)
LEMMA LaunchType ==
  ASSUME IInv, Launches
  PROVE  procs' \subseteq Sessions \X Plugins /\ mainInstance' = proxy /\ jobPc = "launch"
BY DEF Launches

(* stopRunner called by the job itself, which nobody has cancelled. *)
LEMMA JobFailsIInv ==
  ASSUME IInv, JobFails, jobPc # "none", halt = "none", stops = {},
         mainInstance' \in {mainInstance, proxy},
         procs' \subseteq Sessions \X Plugins
  PROVE  IInv'
<1>1. /\ jobPc' = "none" /\ jobSess' = NoSession /\ stops' = {}
      /\ UNCHANGED <<proxy, box, pool, reloads, fatals, revokeVars>> /\ starts' = starts
  BY DEF JobFails, StopRunner
<1>2. CASE state = "Stopping"
  <2>1. held' = held \ {"baseService", "vpnService"} /\ UNCHANGED <<state, halt>>
    BY <1>2 DEF JobFails, StopRunner
  <2> QED
    BY <1>1, <1>2, <2>1
<1>3. CASE state # "Stopping"
  <2>1. /\ held' = held \ {"baseService", "vpnService", "notification"}
        /\ state' = "Stopping" /\ halt' = "stop"
    BY <1>3 DEF JobFails, StopRunner
  <2> QED
    BY <1>1, <1>3, <2>1
<1> QED
  BY <1>2, <1>3

(* The connecting job: its resumptions, its success and its failures. *)
LEMMA JobIInv ==
  ASSUME IInv, Job
  PROVE  IInv'
<1>1. CASE JobKillAll
  BY <1>1 DEF JobKillAll
<1>2. CASE JobPreInit
  BY <1>2 DEF JobPreInit, Resumes
<1>3. CASE JobCancelledEnd
  <2>1. FinishStop(stops) /\ stops # {} /\ UNCHANGED <<envVars, revokeVars>>
    BY <1>3 DEF JobCancelledEnd
  <2> HIDE DEF IInv
  <2> QED
    BY <2>1, FinishStopIInv
<1>4. CASE JobInit
  <2>1. /\ jobPc = "preInit" /\ halt = "none" /\ stops = {} /\ jobPc' = "launch"
        /\ box' = [box EXCEPT ![proxy] = "new"]
        /\ pool' = [pool EXCEPT ![proxy] = "open"]
        /\ proxy \in Sessions
        /\ held' = held \cup StartProcesses
        /\ UNCHANGED <<state, halt, jobSess, stops, proxy, mainInstance, envVars, revokeVars,
                       starts>>
    BY <1>4 DEF JobInit, Resumes, MainFree
  <2>2. held' \subseteq Resources
    BY <2>1, ServiceAssumption DEF StartProcesses, Resources
  <2>3. state \in {"Connecting", "Stopping"}
    BY <2>1
  <2> QED
    BY <2>1, <2>2, <2>3
<1>5. CASE JobLaunch
  <2>1. /\ procs' \subseteq Sessions \X Plugins /\ mainInstance' = proxy /\ jobPc = "launch"
    BY <1>5, LaunchType DEF JobLaunch
  <2>2. /\ held' \subseteq Resources /\ held \subseteq held'
        /\ held' \cap {"notification", "vpnService"} = held \cap {"notification", "vpnService"}
        /\ VpnMode => "conn" \in held'
    BY <1>5, ServiceAssumption DEF JobLaunch, StartVpn, Resources
  <2>3. /\ jobPc' = "launched"
        /\ UNCHANGED <<state, halt, jobSess, stops, proxy, box, pool, reloads, fatals, revokeVars,
                       starts>>
    BY <1>5 DEF JobLaunch
  <2> QED
    BY <2>1, <2>2, <2>3
<1>6. CASE JobConnected
  <2>1. /\ jobPc = "launched"
        /\ box' = [box EXCEPT ![proxy] = "running"]
        /\ state' = "Connected" /\ jobPc' = "none" /\ jobSess' = NoSession
        /\ UNCHANGED <<stops, halt, proxy, pool, mainInstance, envVars, revokeVars, starts>>
        /\ proxy \in Sessions
    BY <1>6 DEF JobConnected
  <2>2. /\ held' \subseteq Resources /\ held \subseteq held'
    BY <1>6 DEF JobConnected, Resources
  <2>3. stops = {} /\ halt = "none"
    BY <2>1
  <2> QED
    BY <2>1, <2>2, <2>3, ServiceAssumption
<1>7. CASE JobInitFails
  <2>1. /\ JobFails /\ jobPc # "none" /\ halt = "none" /\ stops = {}
        /\ mainInstance' = mainInstance /\ procs' = procs
    BY <1>7 DEF JobInitFails, Resumes, MainFree
  <2>2. procs' \subseteq Sessions \X Plugins
    BY <2>1
  <2> HIDE DEF IInv
  <2> QED
    BY <2>1, <2>2, JobFailsIInv
<1>8. CASE JobLaunchFails
  <2>1. JobFails /\ Launches
    BY <1>8 DEF JobLaunchFails
  <2>2. procs' \subseteq Sessions \X Plugins /\ mainInstance' = proxy /\ jobPc = "launch"
    BY <2>1, LaunchType
  <2>3. halt = "none" /\ stops = {}
    BY <2>2
  <2> HIDE DEF IInv
  <2> QED
    BY <2>1, <2>2, <2>3, JobFailsIInv
<1>9. CASE JobStartFails
  <2>1. /\ JobFails /\ jobPc = "launched"
        /\ mainInstance' = mainInstance /\ procs' = procs
    BY <1>9 DEF JobStartFails
  <2>2. procs' \subseteq Sessions \X Plugins /\ halt = "none" /\ stops = {}
    BY <2>1
  <2> HIDE DEF IInv
  <2> QED
    BY <2>1, <2>2, JobFailsIInv
<1> QED
  BY <1>1, <1>2, <1>3, <1>4, <1>5, <1>6, <1>7, <1>8, <1>9 DEF Job

(* Broadcasts and reloads. *)
LEMMA RequestIInv ==
  ASSUME IInv, ReceiveClose \/ ReceiveReload \/ Reload
  PROVE  IInv'
<1>1. CASE ReceiveClose
  BY <1>1, StopTaskIInv DEF ReceiveClose
<1>2. CASE ReceiveReload
  BY <1>2 DEF ReceiveReload
<1>3. CASE ReloadSelects
  BY <1>3 DEF ReloadSelects
<1>4. CASE ReloadRestarts
  <2>1. reloads' \in Nat /\ procs' = procs /\ fatals' = fatals
    BY <1>4 DEF ReloadRestarts
  <2>2. CASE StopTask("restart", starts)
    BY <2>1, <2>2, StopTaskIInv
  <2>3. CASE ~StopTask("restart", starts)
    <3>1. /\ starts' \in Nat
          /\ UNCHANGED <<state, halt, jobVars, instVars, revokeVars, held>>
      BY <1>4, <2>3 DEF ReloadRestarts
    <3> QED
      BY <2>1, <3>1
  <2> QED
    BY <2>2, <2>3
<1> QED
  BY <1>1, <1>2, <1>3, <1>4 DEF Reload

(* Failing and dying plugin processes. *)
LEMMA PluginIInv ==
  ASSUME IInv, NEW s \in Sessions,
         \/ OnFatal(s)
         \/ \E p \in Plugins : PluginFatal(s, p) \/ Reap(s, p)
  PROVE  IInv'
<1>1. CASE OnFatal(s)
  BY <1>1, StopTaskIInv DEF OnFatal
<1>2. ASSUME NEW p \in Plugins, PluginFatal(s, p)
      PROVE  IInv'
  BY <1>2 DEF PluginFatal
<1>3. ASSUME NEW p \in Plugins, Reap(s, p)
      PROVE  IInv'
  BY <1>3 DEF Reap
<1> QED
  BY <1>1, <1>2, <1>3

(* Every step preserves the inductive invariant. *)
LEMMA NextIInv == IInv /\ [Next]_vars => IInv'
<1> SUFFICES ASSUME IInv, [Next]_vars
             PROVE  IInv'
  OBVIOUS
<1>1. CASE StartService
  BY <1>1 DEF StartService
<1>2. CASE Command
  BY <1>2, CommandIInv
<1>3. CASE Job
  BY <1>3, JobIInv
<1>4. CASE ReceiveClose \/ ReceiveReload \/ Reload
  BY <1>4, RequestIInv
<1>5. CASE OnRevoke \/ BinderThread \/ RevokedStop
  BY <1>5, RevokeIInv
<1>6. CASE StopCoroutine
  BY <1>6, StopCoroutineIInv
<1>7. CASE \E s \in Sessions : OnFatal(s)
  BY <1>7, PluginIInv
<1>8. CASE \E s \in Sessions, p \in Plugins : PluginFatal(s, p) \/ Reap(s, p)
  BY <1>8, PluginIInv
<1>9. CASE UNCHANGED vars
  BY <1>9
<1> QED
  BY <1>1, <1>2, <1>3, <1>4, <1>5, <1>6, <1>7, <1>8, <1>9 DEF Next, Request

(* In every reachable state the inductive invariant holds. *)
LEMMA ReachableIInv == Spec => []IInv
<1> HIDE DEF IInv
<1> QED
  BY InitIInv, NextIInv, PTL DEF Spec

-----------------------------------------------------------------------------
(* The service's variables have their types in every reachable state. *)
THEOREM ServiceTypeOK == Spec => []TypeOK
<1>1. IInv => TypeOK
  OBVIOUS
<1> HIDE DEF IInv, TypeOK
<1> QED
  BY <1>1, ReachableIInv, PTL

(* Whatever led to Stopped, the service then holds no tun descriptor, wake  *)
(* lock, receiver, instance, box or process pool, and no notification but   *)
(* one a racing revocation left.                                            *)
THEOREM ServiceStoppedIsClean == Spec => []StoppedIsClean
<1>1. IInv => StoppedIsClean
  OBVIOUS
<1> HIDE DEF IInv, StoppedIsClean
<1> QED
  BY <1>1, ReachableIInv, PTL

(* Only the current session has an open box or pool, and mainInstance is    *)
(* never another session's.                                                 *)
THEOREM ServiceLiveIsCurrent == Spec => []LiveIsCurrent
<1>1. IInv => LiveIsCurrent
  OBVIOUS
<1> HIDE DEF IInv, LiveIsCurrent
<1> QED
  BY <1>1, ReachableIInv, PTL

(* A connected service has its running box, its pool, libcore's main        *)
(* instance, its receiver and, in VPN mode, its tun, also when the job      *)
(* overwrote a revocation's Stopping; the rest it has until a revocation    *)
(* takes it.                                                                *)
THEOREM ServiceConnectedIsComplete == Spec => []ConnectedIsComplete
<1>1. IInv => ConnectedIsComplete
  OBVIOUS
<1> HIDE DEF IInv, ConnectedIsComplete
<1> QED
  BY <1>1, ReachableIInv, PTL

(* A transient state always has an owner: the job, or a stop coroutine that *)
(* runs, joins the job or is posted by a revocation.                        *)
THEOREM ServiceTransientHasOwner == Spec => []TransientHasOwner
<1>1. IInv => TransientHasOwner
  OBVIOUS
<1> HIDE DEF IInv, TransientHasOwner
<1> QED
  BY <1>1, ReachableIInv, PTL

(* A job that a stop cancelled never reaches Connected, and only the job a  *)
(* posted revocation has not cancelled yet leads from Stopping to Connected. *)
THEOREM ServiceCancelledNeverConnects == Spec => CancelledNeverConnects
<1> DEFINE A == /\ stops # {} => state' # "Connected" /\ (stops' # {} \/ state' = "Stopped")
                /\ state = "Stopping" /\ state' = "Connected" => revoke = "posted"
<1>1. ASSUME IInv, [Next]_vars
      PROVE  A
  <2>1. \A how, q : StopTask(how, q) => stops' = stops /\ state' \in {state, "Stopping"}
    BY DEF StopTask, StopRunner
  <2>2. stops # {} => jobPc \in {"killAll", "killed", "preInit"} /\ state # "Connected"
    BY <1>1
  <2>3. CASE StartService
    BY <2>2, <2>3 DEF StartService
  <2>4. CASE Command
    BY <1>1, <2>1, <2>2, <2>4 DEF Command, OnStartCommandNoVpn, OnStartCommandIgnored,
       OnStartCommandNoProfile, OnStartCommand
  <2>5. CASE JobConnected
    BY <1>1, <2>2, <2>5 DEF JobConnected
  <2>6. CASE JobKillAll \/ JobPreInit \/ JobCancelledEnd \/ JobInit \/ JobLaunch
    BY <1>1, <2>2, <2>6 DEF JobKillAll, JobPreInit, JobCancelledEnd, JobInit, JobLaunch,
       FinishStop
  <2>7. CASE JobInitFails \/ JobLaunchFails \/ JobStartFails
    BY <1>1, <2>2, <2>7 DEF JobInitFails, JobLaunchFails, JobStartFails, JobFails, Launches,
       Resumes, StopRunner
  <2>8. CASE Request \/ Reload
    BY <1>1, <2>1, <2>2, <2>8 DEF Request, ReceiveClose, ReceiveReload, OnRevoke,
       Reload, ReloadSelects, ReloadRestarts
  <2>9. CASE StopCoroutine
    BY <1>1, <2>2, <2>9 DEF StopCoroutine, FinishStop
  <2>10. CASE BinderThread \/ RevokedStop
    BY <1>1, <2>2, <2>10 DEF BinderThread, RevokeClears, RevokeChecks, RevokePosts, RevokedStop
  <2>11. CASE \E s \in Sessions : OnFatal(s)
    BY <1>1, <2>1, <2>2, <2>11 DEF OnFatal
  <2>12. CASE \E s \in Sessions, p \in Plugins : PluginFatal(s, p) \/ Reap(s, p)
    BY <1>1, <2>2, <2>12 DEF PluginFatal, Reap
  <2>13. CASE UNCHANGED vars
    BY <1>1, <2>2, <2>13
  <2> QED
    BY <1>1, <2>3, <2>4, <2>5, <2>6, <2>7, <2>8, <2>9, <2>10, <2>11, <2>12, <2>13
       DEF Next, Job
<1>2. IInv /\ [Next]_vars => [A]_vars
  BY <1>1
<1> HIDE DEF IInv, vars
<1> QED
  BY <1>2, ReachableIInv, PTL DEF Spec, CancelledNeverConnects

(* If killAll knows every plugin that profiles use, a connected service has *)
(* no plugin process of an earlier session: killAll empties the set, and    *)
(* only the launch that follows it, of the current session, adds to it.     *)
THEOREM ServiceNoStalePlugins ==
  ASSUME Plugins \subseteq EXECUTABLES
  PROVE  Spec => []NoStalePlugins
<1> DEFINE PInv == NoStalePlugins /\ KilledIsEmpty
<1>1. Init => PInv
  BY DEF Init, NoStalePlugins, KilledIsEmpty
<1>2. ASSUME IInv, PInv, [Next]_vars
      PROVE  PInv'
  <2> USE DEF NoStalePlugins, KilledIsEmpty
  <2>1. \A how, q : StopTask(how, q) =>
          /\ jobPc' = jobPc /\ proxy' = proxy
          /\ state' = "Connected" => state = "Connected"
    BY <1>2 DEF StopTask, StopRunner
  <2>2. CASE StartService
    BY <1>2, <2>2 DEF StartService
  <2>3. CASE Command
    BY <1>2, <2>1, <2>3 DEF Command, OnStartCommandNoVpn, OnStartCommandIgnored,
       OnStartCommandNoProfile, OnStartCommand
  <2>4. CASE JobKillAll
    <3>1. procs' = {}
      BY <1>2, <2>4 DEF JobKillAll
    <3> QED
      BY <3>1, <2>4 DEF JobKillAll
  <2>5. CASE JobLaunch
    <3>1. procs = {} /\ proxy' = proxy /\ jobPc' = "launched" /\ state' = state
      BY <1>2, <2>5 DEF JobLaunch, Launches
    <3>2. PICK P \in SUBSET Plugins : procs' = {proxy} \X P
      BY <2>5, <3>1 DEF JobLaunch, Launches
    <3>3. state # "Connected"
      BY <1>2, <2>5 DEF JobLaunch, Launches
    <3> QED
      BY <3>1, <3>2, <3>3
  <2>6. CASE JobConnected
    BY <1>2, <2>6 DEF JobConnected
  <2>7. CASE JobPreInit \/ JobCancelledEnd \/ JobInit
    BY <1>2, <2>7 DEF JobPreInit, JobCancelledEnd, JobInit, Resumes, FinishStop
  <2>8. CASE JobInitFails \/ JobLaunchFails \/ JobStartFails
    <3>1. jobPc' = "none" /\ state' # "Connected"
      BY <1>2, <2>8 DEF JobInitFails, JobLaunchFails, JobStartFails, JobFails, Launches,
         Resumes, StopRunner
    <3> QED
      BY <3>1
  <2>9. CASE Request \/ Reload
    BY <1>2, <2>1, <2>9 DEF Request, ReceiveClose, ReceiveReload, OnRevoke,
       Reload, ReloadSelects, ReloadRestarts
  <2>10. CASE StopCoroutine
    BY <1>2, <2>10 DEF StopCoroutine, FinishStop
  <2>11. CASE BinderThread \/ RevokedStop
    BY <1>2, <2>11 DEF BinderThread, RevokeClears, RevokeChecks, RevokePosts, RevokedStop
  <2>12. CASE \E s \in Sessions : OnFatal(s)
    BY <1>2, <2>1, <2>12 DEF OnFatal
  <2>13. CASE \E s \in Sessions, p \in Plugins : PluginFatal(s, p) \/ Reap(s, p)
    BY <1>2, <2>13 DEF PluginFatal, Reap
  <2>14. CASE UNCHANGED vars
    BY <1>2, <2>14
  <2> QED
    BY <1>2, <2>2, <2>3, <2>4, <2>5, <2>6, <2>7, <2>8, <2>9, <2>10, <2>11, <2>12, <2>13, <2>14
       DEF Next, Job
<1>3. PInv => NoStalePlugins
  OBVIOUS
<1> HIDE DEF IInv, vars, PInv
<1> QED
  BY <1>1, <1>2, <1>3, ReachableIInv, PTL DEF Spec
=============================================================================
