----------------------------- MODULE TestInstance -----------------------------
(***************************************************************************)
(* One connection test: TestInstance.doTest with BoxInstance.init, launch  *)
(* and close.  The test runs on the IO dispatcher (the tester); whoever    *)
(* cancels doTest closes the instance from another thread, at any moment.  *)
(* close() is executed by the first of the two that wins closed's          *)
(* compareAndSet, and it deletes the cache files only after the process    *)
(* pool is down, in a coroutine of its own (the deleter).                  *)
(*                                                                         *)
(* The process pool is used through what GuardedProcessPool shows: a       *)
(* closed pool ends its processes and keeps no new one.  libcore's box is  *)
(* used through LibcoreBox: Close waits for Start, and a closed box        *)
(* refuses to start.                                                       *)
(***************************************************************************)
EXTENDS Naturals, FiniteSets

CONSTANTS InitFiles, LaunchFiles   \* cache files that init and launch create

ASSUME FilesAssumption == InitFiles \cap LaunchFiles = {}

Files == InitFiles \cup LaunchFiles

VARIABLES
  tester,     \* where the tester is
  cont,       \* doTest's continuation
  close,      \* how far the winner of closed's compareAndSet got; "none": open
  deleter,    \* the deletion hooked onto the pool's end
  box,        \* libcore's box, "none" while the field is not initialized
  pool,       \* the GuardedProcessPool
  proc,       \* a plugin process
  todo,       \* cache files the tester has still to create
  unlisted,   \* the file it has created and not yet added to the list
  disk,       \* cache files on disk
  cacheFiles  \* the list cacheFiles

fileVars == <<todo, unlisted, disk, cacheFiles>>
vars == <<tester, cont, close, deleter, box, pool, proc, fileVars>>

TypeOK ==
  /\ tester \in {"queued", "init", "inited", "late", "lateClear", "lateBox", "launch",
                 "plugins", "start", "test", "use", "closing", "done"}
  /\ cont \in {"pending", "resumed", "cancelled"}
  /\ close \in {"none", "pool", "box", "done"}
  /\ deleter \in {"none", "hooked", "clear", "done"}
  /\ box \in {"none", "new", "running", "closed"}
  /\ pool \in {"open", "closed"}
  /\ proc \in {"none", "alive", "dead"}
  /\ todo \subseteq Files
  /\ unlisted \subseteq disk
  /\ disk \subseteq Files \ todo
  /\ cacheFiles \subseteq Files \ todo

Init ==
  /\ tester = "queued" /\ cont = "pending" /\ close = "none" /\ deleter = "none"
  /\ box = "none" /\ pool = "open" /\ proc = "none"
  /\ todo = Files /\ unlisted = {} /\ disk = {} /\ cacheFiles = {}

isClosed == close # "none"

Goto(from, to) == tester = from /\ tester' = to

(* tryResume and tryResumeWithException *)
Resume == cont' = IF cont = "pending" THEN "resumed" ELSE cont

CloseBox == box' = IF box = "none" THEN box ELSE "closed"

-----------------------------------------------------------------------------
(* The tester *)

(* if (isClosed()) throw CancellationException *)
Begin ==
  /\ \/ isClosed /\ Goto("queued", "use") /\ Resume
     \/ ~isClosed /\ Goto("queued", "init") /\ UNCHANGED cont
  /\ UNCHANGED <<close, deleter, box, pool, proc, fileVars>>

(* newCacheFile creates the file, then adds it to the list. *)
NewCacheFile(f) ==
  /\ \/ tester = "init" /\ f \in InitFiles
     \/ tester = "plugins" /\ f \in LaunchFiles
  /\ f \in todo /\ unlisted = {}
  /\ todo' = todo \ {f}
  /\ unlisted' = {f}
  /\ disk' = disk \cup {f}
  /\ UNCHANGED <<tester, cont, close, deleter, box, pool, proc, cacheFiles>>

(* Mutant: files of init are not remembered. *)
MutAddCacheFile(f) ==
  /\ f \in unlisted
  /\ unlisted' = {}
  /\ cacheFiles' = cacheFiles \cup (unlisted \ InitFiles)
  /\ UNCHANGED <<tester, cont, close, deleter, box, pool, proc, todo, disk>>

AddCacheFile(f) ==
  /\ f \in unlisted
  /\ unlisted' = {}
  /\ cacheFiles' = cacheFiles \cup unlisted
  /\ UNCHANGED <<tester, cont, close, deleter, box, pool, proc, todo, disk>>

(* The rest of init: the box is created.  The profile may not need the files. *)
InitDone ==
  /\ unlisted = {}
  /\ Goto("init", "inited")
  /\ box' = "new"
  /\ UNCHANGED <<cont, close, deleter, pool, proc, fileVars>>

(* Mutant: the exception is not passed on. *)
MutInitFails ==
  /\ unlisted = {}
  /\ Goto("init", "use")
  /\ UNCHANGED <<cont, close, deleter, box, pool, proc, fileVars>>

(* init throws: a missing plugin, a config that sing-box refuses. *)
InitFails ==
  /\ unlisted = {}
  /\ Goto("init", "use")
  /\ Resume
  /\ UNCHANGED <<close, deleter, box, pool, proc, fileVars>>

(* Mutant: launch's own check is relied on. *)
MutInited ==
  /\ Goto("inited", "launch")
  /\ UNCHANGED <<cont, close, deleter, box, pool, proc, fileVars>>

(* if (isClosed()) { closeAfterLateInit(); throw ... } *)
Inited ==
  /\ Goto("inited", IF isClosed THEN "late" ELSE "launch")
  /\ UNCHANGED <<cont, close, deleter, box, pool, proc, fileVars>>

(* deleteCacheFiles: delete every listed file, then clear the list; then     *)
(* box.close().                                                              *)
LateDelete ==
  /\ Goto("late", "lateClear")
  /\ disk' = disk \ cacheFiles
  /\ UNCHANGED <<cont, close, deleter, box, pool, proc, todo, unlisted, cacheFiles>>

LateClear ==
  /\ Goto("lateClear", "lateBox")
  /\ cacheFiles' = {}
  /\ UNCHANGED <<cont, close, deleter, box, pool, proc, todo, unlisted, disk>>

LateCloseBox ==
  /\ Goto("lateBox", "use")
  /\ CloseBox
  /\ Resume
  /\ UNCHANGED <<close, deleter, pool, proc, fileVars>>

(* launch: if (isClosed()) return *)
Launch ==
  /\ Goto("launch", IF isClosed THEN "test" ELSE "plugins")
  /\ UNCHANGED <<cont, close, deleter, box, pool, proc, fileVars>>

(* The plugin processes; a closed pool kills what it is asked to start. *)
LaunchPlugins ==
  /\ unlisted = {}
  /\ Goto("plugins", "start")
  /\ proc' \in {proc, IF pool = "open" THEN "alive" ELSE "dead"}
  /\ UNCHANGED <<cont, close, deleter, box, pool, fileVars>>

(* A plugin does not start, perhaps after another one did, or box.start()    *)
(* fails: launch throws.                                                     *)
LaunchFails ==
  /\ unlisted = {}
  /\ \/ /\ Goto("plugins", "use")
        /\ proc' \in {proc, IF pool = "open" THEN "alive" ELSE "dead"}
     \/ Goto("start", "use") /\ UNCHANGED proc
  /\ Resume
  /\ UNCHANGED <<close, deleter, box, pool, fileVars>>

(* box.start() *)
StartBox ==
  /\ box # "closed"
  /\ Goto("start", "test")
  /\ box' = "running"
  /\ UNCHANGED <<cont, close, deleter, pool, proc, fileVars>>

(* The delay is measured, or measuring it fails. *)
Test ==
  /\ Goto("test", "use")
  /\ Resume
  /\ UNCHANGED <<close, deleter, box, pool, proc, fileVars>>

(* The end of use { }: close(), unless somebody else has won it. *)
UseClose ==
  /\ \/ isClosed /\ Goto("use", "done") /\ UNCHANGED close
     \/ ~isClosed /\ Goto("use", "closing") /\ close' = "pool"
  /\ UNCHANGED <<cont, deleter, box, pool, proc, fileVars>>

UseClosed ==
  /\ close = "done"
  /\ Goto("closing", "done")
  /\ UNCHANGED <<cont, close, deleter, box, pool, proc, fileVars>>

Tester ==
  \/ Begin \/ InitDone \/ InitFails \/ Inited \/ LateDelete \/ LateClear \/ LateCloseBox
  \/ Launch \/ LaunchPlugins \/ LaunchFails \/ StartBox \/ Test \/ UseClose \/ UseClosed
  \/ \E f \in Files : AddCacheFile(f)

-----------------------------------------------------------------------------
(* Everybody else *)

(* The caller gives up: invokeOnCancellation calls close(). *)
Cancel ==
  /\ cont = "pending"
  /\ cont' = "cancelled"
  /\ close' = IF isClosed THEN close ELSE "pool"
  /\ UNCHANGED <<tester, deleter, box, pool, proc, fileVars>>

(* The pool's onFatal resumes doTest with the error; the tester goes on. *)
OnFatal ==
  /\ proc # "none" /\ cont = "pending"
  /\ Resume
  /\ UNCHANGED <<tester, close, deleter, box, pool, proc, fileVars>>

(* processes.close(...).invokeOnCompletion { deleteCacheFiles() } *)
ClosePool ==
  /\ close = "pool"
  /\ close' = "box"
  /\ pool' = "closed"
  /\ deleter' = "hooked"
  /\ UNCHANGED <<tester, cont, box, proc, fileVars>>

(* if (::box.isInitialized) box.close() *)
CloseTheBox ==
  /\ close = "box"
  /\ close' = "done"
  /\ CloseBox
  /\ UNCHANGED <<tester, cont, deleter, pool, proc, fileVars>>

(* A closed pool ends its processes. *)
PoolReaps ==
  /\ pool = "closed" /\ proc = "alive"
  /\ proc' = "dead"
  /\ UNCHANGED <<tester, cont, close, deleter, box, pool, fileVars>>

(* The pool is down: delete the listed files, then clear the list. *)
Delete ==
  /\ deleter = "hooked" /\ proc # "alive"
  /\ deleter' = "clear"
  /\ disk' = disk \ cacheFiles
  /\ UNCHANGED <<tester, cont, close, box, pool, proc, todo, unlisted, cacheFiles>>

DeleteClear ==
  /\ deleter = "clear"
  /\ deleter' = "done"
  /\ cacheFiles' = {}
  /\ UNCHANGED <<tester, cont, close, box, pool, proc, todo, unlisted, disk>>

Others == ClosePool \/ CloseTheBox \/ PoolReaps \/ Delete \/ DeleteClear

Next == Tester \/ (\E f \in Files : NewCacheFile(f)) \/ Cancel \/ OnFatal \/ Others

(* The dispatchers run; whether and when the caller cancels is open. *)
Spec == Init /\ [][Next]_vars /\ WF_vars(Tester) /\ WF_vars(Others)

-----------------------------------------------------------------------------
(* Properties *)

(* The tester has returned and close() has run to its end. *)
Over == tester = "done" /\ close = "done" /\ deleter = "done"

(* No test leaves its box or a plugin running ("close the instance so its    *)
(* box and plugin processes don't linger after the caller gave up"):         *)
(* whenever the cancellation hits, before init assigned the box, between the *)
(* checks or during launch, what was created is closed.                      *)
NothingLingers == Over => box \in {"none", "closed"} /\ proc # "alive"

(* A test that is not cancelled deletes every cache file it created.  A      *)
(* cancelled one may leave some: closeAfterLateInit cleans up only when       *)
(* init() returns, and not what launch() creates.                            *)
FilesGoneUnlessCancelled == Over /\ cont = "resumed" => disk = {}

(* doTest always returns to its caller, and the instance is always closed. *)
TestEnds == <>(cont # "pending" /\ Over)
=============================================================================
