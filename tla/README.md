# A TLA+ model of QuinMo for Android

QuinMo for Android (a fork of NekoBox) runs a sing-box core inside an Android
service.  This directory holds TLA+ models of the program's own logic, the TLC
configurations that check them on small instances, and TLAPS proofs for the
parts where a result for every instance matters.  Paths below are relative to
the repository; `K/` stands for `app/src/main/java/io/nekohasekai/sagernet/`.

## 1. The system

The app runs as two Android processes.  The *main* process holds the UI, the
profile database and the connection tests; the *:bg* process holds the proxy
service, the Go core (`libcore`, bound with gomobile) and the plugin processes.
They talk over a binder (`ISagerNetService`), broadcasts and a shared database.

| Component | State | Operations | Talks to |
|---|---|---|---|
| Service life cycle (`K/bg/BaseService.kt`, `VpnService.kt`, `ProxyService.kt`) | `state`, `proxy`, `connectingJob`, receiver, notification, wake lock, tun descriptor, `DataStore.baseService/vpnService` | `onStartCommand`, `stopRunner`, `reload`, `killProcesses`, `onRevoke`, broadcasts | everything below |
| Session instance (`K/bg/proto/BoxInstance.kt`, `ProxyInstance.kt`, `TestInstance.kt`) | `closed`, `looper`, box, pool, cache files | `init`, `launch`, `close`, `doTest` | libcore, process pool, traffic looper |
| Guarded process pool (`K/bg/GuardedProcessPool.kt`, `Executable.kt`) | guards, loopers, job | `start`, `looper`, `close`, `killAll` | plugin processes, `onFatal` |
| Traffic accounting (`K/bg/proto/TrafficLooper.kt`, `TrafficUpdater.kt`, `libcore/sing-box/boxapi`) | `idMap`, `tagMap`, selected id, counters | `loop`, `selectMain`, `clearStats`, `stop`, `persistStats`, `QueryStats` | database, binder |
| Core instance (`libcore/box.go`) | per-box `state` and mutex, `mainInstance`, protect server | `Start`, `Close`, `SetAsMain`, `UrlTest`, `SetV2rayStats`, `QueryStats`, `ResetAllConnections` | sing-box, protect server |
| Default network listener (`K/utils/DefaultNetworkListener.kt`) | actor's `listeners`, `network` | `Start`, `Stop`, `Put`, `Update`, `Lost` | service `preInit` callback |
| Group update (`K/group/GroupUpdater.kt`, `RawUpdater.kt`, `K/bg/SubscriptionUpdater.kt`) | `updating`, file locks, profiles of a group | `executeUpdate`, `doUpdate`, `finishUpdate` | database, scheduler |
| Profile and group store (`K/database/*`) | profiles, groups, `selectedProxy`, front and landing proxies | create, update, delete, rearrange, clear | UI, service |
| Service connection (`K/bg/SagerConnection.kt`, `BaseService.Binder`) | binder, callback registrations, connection id | `connect`, `disconnect`, `onServiceConnected`, `binderDied`, `registerCallback` | UI, traffic looper |
| DNS router (`libcore/sing-box/dns/router.go`) | the rules; per query: rule index, background queries (futures), armed race rules, `wake` | `Exchange`, `ExchangeAsync`, `Lookup` | DNS client |
| DNS client (`libcore/sing-box/dns/client.go`) | response cache, `cacheLock`, `backgroundRefresh`, all keyed by the network environment | `Exchange`, `ExchangeAsync`, `Lookup`, `ClearCache` | transports, network manager |
| DNS bridge (`libcore/dns_box.go`, `nb4a/net/LocalResolverImpl.kt`) | one exchange's result and `done` | `exchange`, `lookup`, success or errno callbacks | sing-box |
| Protect server (`libcore/libneko/protect_server`) | listener | accept, receive a descriptor, reply | plugins, main process |
| Config builder (`K/fmt/ConfigBuilder.kt`), link and subscription parsers (`K/fmt`, `K/group/RawUpdater.kt`) | none (pure) | build, parse | instances, group update |
| HTTP client (`libcore/http.go`), assets (`libcore/assets_android.go`), STUN, geo databases, UI, preferences | I/O | | |

What is hard in this code: coroutines that suspend in the middle of a start
while a stop arrives; `close()` racing `launch()` on another dispatcher; a
process pool closed while a process is being started; Go mutexes taken in two
orders; messages posted to an actor from two threads; an update that holds a
snapshot of a group while the user edits it; two processes updating one group;
a DNS query that walks its rules while its background queries answer in any
order; DNS calls that wait on one another's query while the network changes.

For each component, what makes it correct: a stopped service holds nothing and
a transient state always has somebody to end it; a closed session leaves no
loop, box, process or file behind; the core's locks never deadlock and the
protect server follows the main instance; every byte is counted once and the
totals reach the database; the last pick of a node wins; the network told to
the tunnel is the default one; one update at a time writes a group and loses
nothing that others wrote meanwhile; a DNS query ends as its rules say, however
fast the servers are, and a cached answer belongs to the network it came from.

## 2. Modules

An action is one uninterrupted piece of code: a main-thread task between two
suspension points where everything runs on the main thread, one access of a
shared field or one critical section where threads really race (a task that another
thread's access can fall into is cut there).  The operators
named `Mut...` are not part of a specification: each is a definition changed
the way a plausible bug would change it, kept next to the definition it alters,
to show that the properties notice.  `PROJECT.json` maps every definition to
its source lines.

| Module | Code | State and actions |
|---|---|---|
| `ServiceLifecycle` | `BaseService.Interface`, `VpnService` | `state`, `proxy`, the connecting job (`jobPc`, `jobSess`), the stop coroutines that join it (`stops`) or that the main thread is about to run (`halt`), box, pool and plugin processes of every session, `mainInstance`, the fields that are set (`held`), the revocation under way (`revoke`).  Actions: the outcomes of `onStartCommand`, the resumptions of the job, `stopRunner` with and without a job, `reload`, broadcasts, `onFatal`, and `onRevoke`.  `GlobalScope.launch(Main.immediate)` runs at once on the main thread, which is why a stop without a job completes within its task.  `onRevoke` comes on a binder thread: the accesses of its `stopRunner` are steps of their own between those of the main thread, and its coroutine is posted to the main queue.  The job's last part is therefore two tasks, around `Box.Start`, in which `startVpn` runs with its second look at the state after `establish()` |
| `ProxyLooper` | `ProxyInstance.launch/close`, `TrafficLooper.start/stop`, `Binder.broadcast` | the volatile `looper` and `job`, the atomic `closed` and `stopped`, the loop, and the fair `broadcastMutex` with its queue.  One action per access, two callers of `stop`; the loop, `stop()` and the `stateChanged` coroutines of the main thread broadcast under the mutex, and those coroutines run only while the main thread is not blocked in `close()` |
| `LibcoreBox` | `libcore/box.go` | every `b.access` and `mainInstanceAccess`, `b.state`, `mainInstance`, the protect server, `v2api`.  One action per lock acquisition or critical section of `Start`, `Close`, `SetAsMain`, `SetV2rayStats`, `QueryStats`, `UrlTest`, `ResetAllConnections`.  The service's thread owns the service boxes; tests are started and closed from any thread |
| `GuardedProcessPool` | `GuardedProcessPool.kt` | per guard: where `start()` is, its looper, its process; the pool's Job, the list of guards, where `close()` is |
| `TestInstance` | `TestInstance.doTest`, `BoxInstance.init/launch/close` | the tester on the IO dispatcher, the continuation, the winner of `closed`, the deleter of cache files, box, pool, process, files on disk and in the list.  Uses the pool and the box through what their modules show |
| `NetworkListener` | `DefaultNetworkListener.kt`, `BaseService.preInit/killProcesses` | the actor's mailbox and state, the serial dispatcher, `underlyingNetwork`; the system's callbacks are external.  `MCSessionHelpers` runs it and `GuardedProcessPool` |
| `SelectorGroup` | the nodes of a selector group | its nodes and the looper's `selectorNowId`, which `Selector` and `TrafficStats` share |
| `Selector` | the click in `ConfigurationFragment`, `reload`, `Selector.SelectOutbound`, `selector_OnProxySelected`, `cbSelectorUpdate` | `selectedProxy`, the core's selection, calls under way, the serial handler's queue, callbacks to the activity, the looper's `selectorNowId`.  A click whose `reloadAccess` is taken, or that finds the service not running, writes `selectedProxy` and sends no reload (`PickUnsent`) |
| `TrafficStats` | `TrafficLooper`, `TrafficUpdater`, `SbStatsService`, `ProfileManager.updateTraffic`, the UI's clear | the core's counter, the items, entities, the calls of `updateTraffic` under way, the database column, a clear under way.  A call of `updateTraffic` reads the entity for its arguments and is committed later, in any order with the others.  A selector session, one direction (the other is handled alike).  `MCSelectorSession` runs it and `Selector` |
| `UpdateExclusion` | what `executeUpdate` promises | the set of holders of a group: `Acquire`, `Release` |
| `GroupUpdater` | `GroupUpdater.executeUpdate`, `GroupInterfaceAdapter.confirm` | calls in two processes, the marker `updating`, the POSIX record lock behind `FileLock`, open channels, progress entries, the activity.  Either process may die.  Groups share no state and `tryLock` never waits, so one group is modelled |
| `SubscriptionMerge` | `RawUpdater.doUpdate` | the group's rows, the downloaded list, the snapshot `exists`; the renaming of duplicates, deduplication, `forceResolve`, the plan and the transaction, against edits, renames, test results and deletions, whose rearranging of the rows is a write of its own.  A name is a base and the number `uniquify` appends; downloaded names do not end in " (k)" themselves.  `MCGroupUpdate` runs it and `GroupUpdater` |
| `DnsRouter` | `walkDNSRules`, `resumeExchangeWithRules`, `sweepArmedDNSRules`, `finishPendingExchange`, `exchangeLegacy`, the legacy loop of `Lookup`, `buildRules` with the checks of `NewDNSRule` | one query: the rule list, what each server answers in the end, the walk's index and suspension, the futures with their cancellation, the armed rules, `wake`.  Every look of the walk at a future is a step of its own, and so are the two halves of a future's callback (`done` closed, `wake` signalled).  `settleDNSFutures`, which reads every future once, is one step.  A list contains the rules that match the query itself; what varies is whether they match a response.  The query is for an address: for any other one `matchDNS` passes over the rules with an address filter (`router.go:296`), which is the walk of the list without them.  `odd` is history: it records the two cases of section 6.  `MCDnsRouter` gives the rule lists |
| `DnsClient` | `beginExchange`, `finishExchange`, `questionCache`, `backgroundRefreshDNS`, `finishCacheKey`; `postUpdateNetworkEnvironment`, `updateNetworkEnvironment` | calls for one question through one transport: cache, lock and refresh for each environment, and where each call is.  The network that queries go out on (`link`) and the environment recorded for it (`network`) change in two steps, because the record waits for a timer of one second or for the goroutine of `updateInterface`.  `Delete` of the lock and `close(cond)` are separate steps.  `Nested` is a call that the transport makes while it is asked for `Outer`, with its context.  The hash is taken to tell networks apart |
| `ServiceLifecycleProofs`, `ProxyLooperProofs`, `LibcoreBoxProofs`, `TestInstanceProofs` | | theorems about the module they are named after |
| `SessionHelperProofs` | | theorems about `GuardedProcessPool` and `NetworkListener` |
| `SelectorSessionProofs` | | theorems about `Selector` and `TrafficStats` |
| `GroupUpdateProofs` | | theorems about `GroupUpdater` and `SubscriptionMerge` |
| `DnsProofs` | | theorems about `DnsClient` and `DnsRouter` |

`GroupUpdater` composes with `SubscriptionMerge` through `UpdateExclusion`: the
first implements it, the second assumes it (one update at a time).  `DnsRouter`
uses the DNS client through what `DnsClient` shows: a query it sends comes back
(`CallsReturn`), also after it was cancelled.

## 3. Runs

Every property of a passing run has a mutant that breaks it in that run.  Three runs
expect a violation: each checks what a comment or a note of the repository says and
the code does not do (section 6).

| Run | States | What it shows |
|---|---|---|
| `service` | 383,675 | three sessions, two plugins, VPN mode, up to three pending requests, a revocation for each tun: `StoppedIsClean`, `LiveIsCurrent`, `ConnectedIsComplete`, `TransientHasOwner`, `NoStalePlugins`, `CancelledNeverConnects`; `StopCompletes` and `RestartIsDelivered` under fairness.  Three sessions allow a fatal error or a revocation of a session before the last to arrive during the next |
| `looper` | 595 | the whole state space (there are no constants): `PersistOnce`, `FoundLooperStops`, `JoinedBeforeClose`, `CloseReturnsOrDeadlocks` |
| `looper_deadlock` | | the same state space; `CloseReturns` is violated |
| `box` | 87,368 | the service's thread and two others (two are needed for two concurrent `SetV2rayStats`), a service box and a test box (so that the close of a box that is not the main one happens): `MainFollowsSession`, `AccessSerialises`, `CallsReturn` |
| `session_helpers` | 184,265 | the process pool with three processes and one restart each, or the listener with two incarnations of the service, two networks and queues of up to four: `NoRestartAfterClose`, `DownIsNoticed`, `CloseKillsAll`; `UnderlyingFollowsDefault` |
| `test_instance` | 2,149 | one test, one cache file from `init` and two from `launch`: `NothingLingers`, `FilesGoneUnlessCancelled`, `TestEnds` |
| `group_update` | 402,663 | three user updates and two of the worker, with crashes, or two merges with every download of up to two nodes, one title, two hosts, two writes by others: `NothingLeftBehind`, `ImplementsExclusion`, `MarkerReturns`; `NoOrphans`, `MergeExact`, `OthersWritesStay`.  Two nodes are enough for names to collide before and after resolving; the second update meets rows the first one made |
| `selector_session` | 2,360,000 | two nodes and three picks with two concurrent calls, or one byte over rows that hold up to one, two switches (so that two posted writes can overtake each other) and one clear: `LastPickWins`, `LooperFollows`; `Conservation`, `FinalTotals`, `ClearHolds` |
| `clear_race` | | two nodes, one byte, one switch; `ClearIsFinal` is violated |
| `dns_walk` | 785,932 | every accepted list of up to three rules of a palette of fifteen (each action, tagged and anonymous evaluates, races that answer, reject or route, an inverted match, speculative rules, fallback, an unknown and a fake-address server, the rules that switch to legacy mode), and nine longer lists with two races and something held back or sent ahead; every combination of answers, `Exchange` and `Lookup`, a caller that gives up: `OrderedOutcome`, `NoWastedQuery`, `QueryReturns`.  Two servers that answer are enough: a race has two runners |
| `dns_fallback` | | the lists of up to two rules; `FallbackInOrder` is violated |
| `dns_client` | 642,814 | two calls and a nested one, two networks and none, any changes of the network of which two are recorded (so that an environment can come back during a query), one ageing, eviction or `ClearCache`: `SingleFlight`, `NoForeignAnswer`, `CallsReturn` |

Three runs hold two modules that share no state, or only `now`: `part`, chosen in the
initial state, says which of them takes the steps of a behaviour.

Deadlock is checked where the system always has a next request; it is off where
the modelled story ends (one session, one test, a closed pool, used-up bounds).

Each module's `TypeOK` (`ListenerTypeOK`, `SelectorTypeOK`, `MergeTypeOK` where two
modules meet in one run) describes its state.  It is proved (section 5) for all
but two: in `SubscriptionMerge` it also bounds ids and orders by the bounds of the
instance, and holds there; the types its proofs use are `StoreTypes`.  Those of
`DnsRouter` are `WalkTypes`, in `DnsProofs`.  It is not among the properties of the runs.

## 4. Fairness

* `ServiceLifecycle`: weak fairness of the job, of the delivery of start
  intents, of reloads, of posted `onFatal`s, of the steps of a revocation that has
  begun and of the reaping loopers: main looper, dispatchers and binder threads run
  what they have.  None on the user, on plugins or on the system's decision to revoke.
* `ProxyLooper`, `GuardedProcessPool`, `TestInstance`: weak fairness of each
  thread or coroutine once it has work.  Not on the decision to close, to
  cancel, or on a process to die; `TestInstance` relies on the test's own
  timeout for the tester's steps to end.  In `ProxyLooper` a `stateChanged` coroutine
  is owed steps only while the main thread is free.
* `LibcoreBox`: strong fairness of each thread's steps.  Go's mutexes hand over
  to a waiter after a millisecond, so a waiter is not starved; sing-box's own
  operations are assumed to return.
* `GroupUpdater`: weak fairness of each call's own steps (downloads time out).
  Not on the answer to a dialog nor on the activity: hence the exception in
  `MarkerReturns` for a dialog that is on screen.

* `DnsRouter`: weak fairness of the walk and of the callbacks of background
  queries.  The client ends every query after its timeout.  Not on the caller to
  give up, nor on any order among callbacks.
* `DnsClient`: weak fairness of each call's own steps and of the timeout that
  `exchangeToTransport` gives every query, of a refresh too.  Not on answers, on
  callers, on the network or on the record that follows it.

`Selector`, `TrafficStats` and `SubscriptionMerge` are checked for safety only and
have no fairness; of `NetworkListener` too only a safety property is checked.

## 5. Proofs

All by induction, for every value of the constants; checked by TLAPS.

**`ServiceLifecycleProofs`** (from `ServiceAssumption`).  The inductive
invariant is the conjunction of the type invariant and the safety properties
with four facts they leave out: `JobOwnsProxy` (the job's session is `data.proxy`),
`JobOnMain` (while the job is inside its last part the main thread has no other task,
and box, pool and then the tun are there), `JobIsPrepared` (what `onStartCommand` and
`startProcesses` set up stays for the job until a stop or a revocation begins) and
`StopClearedFirst` (what a stop takes down first is gone, unless a revocation mixed
with the session).  `FinishStopIInv` shows once that the stop coroutine establishes the
invariant from whatever an attempt left; every stopping path cites it.  `NoStalePlugins`
needs in addition that `killAll` knows every plugin in use, an explicit hypothesis of
its theorem.

**`ProxyLooperProofs`** (no assumption).  The invariant says that nothing was
cancelled or written before the compare-and-set of `stop()` (`NotStopped`), that
one caller gets past it (`OneStops`), that a job is published with its loop
(`JobIsLoop`), and that a stop and a start in either order cancel the loop
(`StopCancels`): `start()` looks again after publishing, `stop()` reads the job
after its compare-and-set.  `CloseStops`, `CloseJoins` and `ClosedIsDone` tie
this to `close()`.  The mutex matters for liveness only; of it the proof needs the type.

**`GroupUpdateProofs`, exclusion** (from `TasksAssumption`).  Neither lock is enough: the
marker does not reach the other process, and the record lock is dropped by any
`close()` of a channel of the file in the holder's process.  `OneMarked` (one call
per process between `updating.add` and `updating.remove`) makes sure that nobody
else closes a channel there, so that `HolderOwns` is kept; `OwnerHolds`,
`MarkerHasCall`, `ProgressHasCall` and `ChannelHasCall` are the converse directions,
for `NothingLeftBehind`; `DialogIsLive` is for the dialog.  `Implements` is the
refinement: the holders are the calls between `tryLock` and the release, and
every step is an `Acquire`, a `Release` or a stutter of `UpdateExclusion`.
`Exclusion` and `DialogHasActivity` are proved and follow from what the run
checks (`ImplementsExclusion`, `MarkerReturns`).

**`GroupUpdateProofs`, merge** (from `MergeAssumption`; any titles, hosts, length of
a subscription, number of updates and writes).  All three properties of the run
are theorems.  First what the pure steps compute: `UniquifyResult` (the renamed
list is as long as the downloaded one and no two nodes have one display name)
rests on `RenamedIsNew`, and that on `FreeName`, a pigeonhole argument: fewer than
`MaxLen` names taken leave one of `name (1)` ... `name (MaxLen)` free.  `TargetIn` and
`TargetsDiffer` say that the plan picks one row for a name and never one row for
two nodes; `InsertedIds` that new ids are new and differ.  The invariant adds to
`NoOrphans` that the list about to be committed is distinct (`PlanIsDistinct`) and
that the snapshot is what is there, test results apart, until somebody writes
(`SnapshotIsFresh`).  `MergeIsExact` then exhibits the bijection between the
downloaded nodes and the rows the transaction leaves.

**`LibcoreBoxProofs`** (from `BoxAssumption`).  `LockOwner` ties every mutex to the
one thread that is inside, `UnderAccess` keeps what a thread read under `b.access`
until it unlocks, `Roles` and `Session` say that only the service's thread makes,
keeps and closes a main instance; `ProtectsMain` that outside `mainInstanceAccess`
the protect server is the main instance's.  `AccessExcludes` is the action property.

**`TestInstanceProofs`** (no assumption).  `CloseOrder` (the winner
of `closed` closes the pool before the box, and the deletion is hooked onto the
pool), `BoxHasCloser` (a box made after `close()` looked has the tester to close
it), `FilesListed` and `Uncancelled` (without a cancellation every file on disk is
listed until the deletion).

**`SessionHelperProofs`, pool** (from `PoolAssumption`).  `OpenIsGuarded` (in an open pool whoever started a
process leaves a looper) gives `DownIsNoticed`; `ClosingKills` (once the Job is
cancelled each live process has somebody who is going to kill it: `start()`, its
looper or `close()`) gives `ClosedPoolIsDead`: what `close()` leaves alive is at most a
process that a concurrent `start()` is about to destroy.

**`SessionHelperProofs`, listener** (from `ListenerAssumption`; any number of services and networks, queues of
any length).  The mailbox is read as what it will make of the actor's `network`:
`Settles` (the last word about the default network is the default network),
`Empties` (or that there is none) and `Corrects` (a network that is gone is taken
back), of any queue and any value before its first message.  The lemmas `Append...`
and `Tail...` say how sending and taking a message changes each; `Told` says the same
of the queued callbacks.

**`SelectorSessionProofs`, picks** (from `GroupAssumption` and `PicksAssumption`).  Picks made in turn are at one of six places
(`OneAtATime`), each of which says where `selectedProxy`, the core and the looper
stand; a pick that overlaps another sets `odd`.

**`SelectorSessionProofs`, traffic** (from `GroupAssumption`).  `FinalTotals` and `ClearHolds` need that a row
behind its entity has a write on its way or was last written with an outdated value
(`RowsFollow`, `stale`), that after the join no writer changes an entity away from its item
(`EntitiesFinal`), and that dropped items and their rows hold what was counted since
(`ItemsFresh`, `RowsFresh`).  `CommitWrite` is where the two steps of `updateTraffic` show: the
row gets what the call has read, and the node becomes or stops being `stale`.
`Conservation` is about a sum over the nodes.  The library defines the sum as a recursive
function over subsets; that it has a solution, and how it changes with one entry (`SumAdd`), is
shown with a least number and a least counterexample.  `OncePerSweep` is what keeps
a diff from being credited to both nodes of a switch.

**`DnsProofs`, client** (from `CallsAssumption`).  `LockOwner`: `cacheLock` holds the
call that stored itself there and no other.  `AnswersTraced`: by the number of
changes of the recorded environment since a key was made, where an answer may come
from that was not obtained while the record was behind; with `finishCacheKey` this gives
`NoForeignAnswer`.  `SingleFlight` is about an undisturbed
client: `CalmKeys`, `CalmQuery` (whoever goes on without the lock does so after the
answer is in the cache) and `CalmNested`.

**`DnsProofs`, router** (from `ServersAssumption` and `ListsAssumption`; any rule
lists).  A future stands for an evaluate rule the walk has left behind, or for the
one route rule that sent its query ahead (`Launched`, `Once`); only a suspension
leads to asking, and it waits for what its rule sent (`AskPlace`, `AskOwn`).
`ListsAssumption` says that lists are finite, that evaluate rules use declared tags
and that no tag has the names the model gives to the anonymous future and to the
one sent ahead, which are fields of their own in the code.  `LegacyKeepsOrder` is the
legacy half of `OrderedOutcome`: the rules before the one at hand did not end the query
(`LegacyWalk`), and the rule that does is the one `LegacyPromised` chooses, unless it
failed and its fallback was to catch the failure (`FallbackIgnored`).

`WalkKeepsOrder` is `OrderedOutcome` in full, for every list `buildRules` accepts.  Its
invariant `OrderInv` says nothing in legacy mode, or once the caller has given up or one
of the two cases that `odd` records has happened (`Undisturbed`); up to then:
- a future asks the server of its rule and has that server's answer or, not being
  cancelled, will have it (`FutureRules`, `FuturesTrue`);
- each name stands for the query of the rule that `Evaluated` gives at the walk's
  index (`NamesTrue`), and what an armed rule refers to for the one it gave there
  (`ArmedTrue`).  This needs what `validateLegacyDNSModeDisabledRules` checks: a tag is
  evaluated once, and before every rule that refers to it (`AcceptedList`).  An armed
  rule that waits for nothing is swept before the anonymous future can change
  (`ArmedNow`), which is why `ArmedResponse` may look at the current one;
- so a rule matches in the walk exactly if it does in the listed order
  (`ResponseTrue`, `ActTrue`, `ArmedResponseTrue`);
- there is a rule `k`, the first or the one after the last failed fallback, such that
  what is promised from `k` on (`From`, of which `Promised` is the value at 1) is
  promised, and of the rules from `k` to the walk's index only race rules that are
  still armed end the query (`Trail`).  Then a race that wins is among the results
  (`RaceWins`: everything before it that ends the query is a race), and once no race
  is left the rule at hand is, or what follows it when it fails and says fallback
  (`FirstWins`); the exception for a query sent ahead needs that it was sent past a
  race (`SentAhead`);
- a commitment names such a rule (`Chosen`).
That a race rule has `match_response`, a final action and no query of its own sent
ahead is what `validateDNSRuleAction` and `NewDNSRule` check (`Valid`); without it the
walk would pass a race rule as an ordinary one.

Recursive definitions in proved modules (`UniquifyNames`, `Deduplicate`, the sum in
`TrafficStats`, `Evaluated` and `Promised`) are recursive functions.  The library's induction theorems cannot be
used, so each proof shows first that the recursion has a solution and then argues
with the set of numbers (or of subsets) for which the claim holds (`Numbers`,
`SetOfNaturals`, `SetOfSubsets`), from the well-foundedness of `<`.

Only model-checked: all liveness (`StopCompletes`, `RestartIsDelivered`,
`CloseReturnsOrDeadlocks`, `CallsReturn`, `CloseKillsAll`, `TestEnds`, `MarkerReturns`,
`QueryReturns`), which is out of the prover's reach.  Every safety invariant of the runs
is a theorem.  Every inductive invariant above was also checked by TLC on the instance
of its run.

## 6. Where the code falls short of its comments

Three runs show a disagreement as a trace (`findings` in `PROJECT.json`).

* `looper_deadlock`, `CloseReturns`: "it joins quickly now" (`K/bg/proto/ProxyInstance.kt:76`).
  `close()` blocks the main thread in `runBlocking`, and `stop()` ends with a broadcast
  under the fair `broadcastMutex` (`K/bg/proto/TrafficLooper.kt:61`).  If the loop was
  broadcasting when `changeState(Stopping)` queued its `stateChanged` coroutine
  (`K/bg/BaseService.kt:188`), the loop's unlock hands the mutex to that coroutine, which
  can run only on the main thread.  Both wait for ever.
* `clear_race`, `ClearIsFinal`: the comments at `clearStats` (`K/bg/proto/TrafficLooper.kt:110`)
  and at the UI's broadcast say that the totals from before a clear do not come back.
  The write that a switch posts reads the entity (`K/database/ProfileManager.kt:106`) and
  waits for the database; it can be committed after the clear and after `stop()`'s write.
* `dns_fallback`, `FallbackInOrder`: the fork's note (`libcore/sing-box/NEKO.md:31`) and the
  comments at the builder (`K/fmt/ConfigBuilder.kt:219`, `:916`) promise that a failed rule
  with `fallback` goes on with the next rule.  `exchangeLegacy` and the legacy loop of
  `Lookup` never look at the field (`router.go:1137`, `:1306`), and the builder gives the same
  rules a strategy (`:943`), which selects legacy mode (`resolveLegacyDNSMode`).

Three further properties are defined that the code does not have.  Put in the place
of the invariants of the run of their module, each gives a trace.

* `StoppedIsRemoved` (`session_helpers`): `DefaultNetworkListener.stop(this)` inside
  `runOnMainDispatcher { }` (`K/bg/BaseService.kt:287`) passes the coroutine scope
  as the key, while `preInit` registered the service.  The Stop removes nothing
  and the system callback stays registered.  A fix of the key alone would leave a
  second case to look at: a `Put` queued behind the `Stop` sets the actor's
  `network` with no listener left to correct it.
* `RapidPickWins` (`selector_session`): of two quick clicks the second can be lost, because
  the report of the first overwrites `selectedProxy` before the reload of the second
  reads it (`nb4a/NativeInterface.kt:110`), although "rapid switches A->B must
  persist in event order" (`nb4a/NativeInterface.kt:99`).
* `SpeedOnlyAmongRaces` (`dns_walk`): `docs/configuration/dns/rule_action.md` of the
  core promises that the result depends on server speed only among race rules.  A
  background query that answers after `settleDNSFutures` and before the walk or the
  sweep looks at it (`router.go:591` and `:636`, `:785` and `:831`) is found resolved
  with no response under its tag: its rule is judged as if the server had failed,
  so that an inverted rule matches and another is skipped.  The same walk without
  the race gives the other result.

The conditions in other properties mark further cases.  Dropping a condition and
running TLC gives the trace.

* `FoundLooperStops` speaks of a looper that `close()` found.  `close()` reads
  `looper` before it sets `closed` (`K/bg/proto/ProxyInstance.kt:83`); if the whole
  block of `launch()` runs in between, the loop is never stopped.
* A revocation can fall between the steps of the main thread.  `data.state` is
  "written on the main thread" (`K/bg/BaseService.kt:47`), but `onRevoke` writes it on a
  binder thread (`K/bg/VpnService.kt:284`, `K/bg/BaseService.kt:292`): the state then goes
  Connecting, Stopping, Connected (`:439`), Stopping, Stopped.  `CancelledNeverConnects` and
  `ConnectedIsComplete` allow it while the revocation's coroutine waits in the main
  queue, and `StopCompletes` shows that it ends in Stopped.  `StoppedIsClean` leaves
  out what such a revocation can leave behind: the notification of a session that its
  coroutine ended without destroying it, and `DataStore.vpnService` published after
  `stopRunner` cleared it.
* `LooperFollows` excludes sessions in which a pick was made before the previous one
  had settled (the reports may then come in another order than the swaps), and those
  in which a switch is reported before the looper is filled: `selectMain` finds no item,
  the switch is dropped, and the fill selects the node the session was started with
  (`K/bg/proto/TrafficLooper.kt:214`).  A pick in the web UI is not excluded.
* `FinalTotals` and `ClearHolds` exclude a row whose last write had read the entity
  before the entity got its final value: `updateTraffic` reads first and waits for the
  database after (`K/database/ProfileManager.kt:105`), so a posted write can overtake
  `stop()`'s.  `ClearIsFinal` above is the second without the exclusion.
* `FilesGoneUnlessCancelled`: a cancelled test can leave cache files
  (`K/bg/proto/BoxInstance.kt:55`): `closeAfterLateInit` runs only when `init()`
  returns, and not for files of `launch()`.
* `ClearHolds` also speaks only of the nodes the running loop was told to drop.  The UI
  broadcasts only ids whose columns are not zero (`K/ui/ConfigurationFragment.kt:483`),
  so a node used for the first time keeps what was counted before the clear.
* `MergeExact` excludes rows written meanwhile: overrides edited while an update
  resolves addresses are replaced by those of its snapshot
  (`K/group/RawUpdater.kt:273`).
* `NoStalePlugins` is checked with plugins that `Executable.EXECUTABLES` names; it
  does not name mieru (`K/bg/Executable.kt:13`).  With `Plugins = {"mieru"}` a quick
  restart connects while the old process lives.
* `OrderedOutcome` excludes that window, and the executions in which a route with
  fallback asks while an evaluate is under way: `finishPendingExchange` cancels all
  other background queries (`router.go:916`), so a rule after the fallback that
  refers to one sees no response although the query went well.
* In legacy mode `OrderedOutcome` excludes the queries that end with the failure of a
  rule with fallback, the case of `dns_fallback` above.
* `NoForeignAnswer` leaves out answers obtained while the record was behind the
  network.  `postUpdateNetworkEnvironment` records the environment a second after a
  change of the Wi-Fi state or of the routes (`route/network_environment.go:20`, called at
  `route/network.go:128` and `:460`), and `updateInterface` in a goroutine of its own
  (`:527`); until then answers of the new network are cached for the one before.  It also
  leaves out an environment that is replaced and recorded again during a query, and a
  query begun before one was known: the key cannot tell (`client.go:128`).  It speaks of transports with an environment; the app's
  `platformLocalDNSTransport` (`libcore/dns_box.go`) has none, so for it answers of
  one network are served in the next until they expire (`client.go:137`).
* `CallsReturn` of `DnsClient` holds for a nested call only because its context ends
  with the outer query: `beginExchange` waits for the lock before it checks for a
  loopback (`client.go:294` and `:324`), so a transport that asks itself the same
  question is not told so but waits out the timeout.
* `LibcoreBox` starts a box once.  The comments in `Start` allow a retry
  (`libcore/box.go:159`), but a failed `Box.Start` has closed the Box, so a retry
  could report success on a box without inbounds.  No caller retries.

## 7. Not modelled

The configuration builder, link and subscription parsers (pure string work), the
HTTP client, assets, STUN, the protect server's descriptor passing, notification,
tile and other views.  The rest of sing-box is modelled only where this program
calls it.  Of its DNS router: logical rules, the options rules set on a query, the
start and close of the router, rule-set updates and the reverse mapping; of its DNS
client: the cache file, the cache of rejected responses, TTL arithmetic, and the
two questions of one `Lookup` (they share nothing but the caller).  In the merge: the group's metadata columns, and nodes added or moved
into the group while an update runs (they are not in `exists`, so they stay).
Sessions without a selector in `TrafficStats`.  WorkManager's scheduling.

## 8. Plan

Done: the modules and the proofs above.  Next, in this order:

1. `ServiceConnection`: `SagerConnection.connect/disconnect`, binder death and
   `registerCallback` against `onCallbackDied`, composed with `ServiceLifecycle`.
2. `ProfileStore`: deletion, selection, front and landing proxies and default
   rules as separate writes, with a crash between them, composed with
   `SubscriptionMerge`.
3. The DNS bridge (`libcore/dns_box.go` with `LocalResolverImpl`) as a transport of
   `DnsClient`: one answer, cancellation and late callbacks.
4. An abstract specification of one live session at a time that
   `ServiceLifecycle` implements.
