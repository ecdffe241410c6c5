---------------------------- MODULE GroupUpdater ----------------------------
(***************************************************************************)
(* GroupUpdater.executeUpdate for one group.  The user's updates run in    *)
(* the main process, the periodic worker's in :bg.  Inside a process the   *)
(* set `updating` keeps a second update out; between processes a           *)
(* java.nio FileLock on group_update_<id>.lock does.  That lock is a POSIX *)
(* record lock: closing any channel of the file in a process drops the     *)
(* lock that process holds, and the death of a process drops it too.       *)
(* A user update may have to ask a question first; the dialog belongs to   *)
(* an activity that can be destroyed under it.                             *)
(*                                                                         *)
(* Groups share no state (the marker, the lock file and the progress entry *)
(* are per id, and tryLock never waits), so one group is modelled.         *)
(***************************************************************************)
EXTENDS Naturals

CONSTANTS
  MainTasks,  \* concurrent calls of executeUpdate in the main process
  BgTasks     \* and in :bg

ASSUME TasksAssumption == MainTasks \cap BgTasks = {}

VARIABLES
  pc,        \* where each call is
  updating,  \* processes whose GroupUpdater.updating holds the group
  owner,     \* the process that holds the record lock, or "none"
  channels,  \* calls whose RandomAccessFile channel is open
  progress,  \* processes whose GroupUpdater.progress has an entry
  ui         \* GroupManager.userInterface of the main process

vars == <<pc, updating, owner, channels, progress, ui>>

Tasks == MainTasks \cup BgTasks

Procs == {"main", "bg"}

Proc(t) == IF t \in MainTasks THEN "main" ELSE "bg"

(* Between a successful tryLock and the release.                             *)
Holding == {"locked", "confirm", "shown", "orphan", "update", "release"}

(* The call owns its process's marker.                                       *)
Marked == Holding \cup {"open", "try", "closeFailed", "drop", "close", "finish"}

Steps == Marked \cup {"idle", "unprogress"}

TypeOK ==
  /\ pc \in [Tasks -> Steps]
  /\ updating \subseteq Procs
  /\ owner \in Procs \cup {"none"}
  /\ channels \subseteq Tasks
  /\ progress \subseteq Procs
  /\ ui \in {"set", "null"}
  /\ \A t \in BgTasks : pc[t] \notin {"confirm", "shown", "orphan"}

Init ==
  /\ pc = [t \in Tasks |-> "idle"]
  /\ updating = {} /\ owner = "none" /\ channels = {} /\ progress = {}
  /\ ui = "null"

Goto(t, from, to) == pc[t] = from /\ pc' = [pc EXCEPT ![t] = to]

-----------------------------------------------------------------------------
(* Taking the group *)

(* if (!updating.add(id)) return false: a refused call changes nothing.      *)
AddMarker(t) ==
  /\ Proc(t) \notin updating
  /\ Goto(t, "idle", "open")
  /\ updating' = updating \cup {Proc(t)}
  /\ UNCHANGED <<owner, channels, progress, ui>>

(* RandomAccessFile(...).channel, which throws when it is out of fds.        *)
OpenChannel(t) ==
  /\ \/ Goto(t, "open", "try") /\ channels' = channels \cup {t}
     \/ Goto(t, "open", "drop") /\ UNCHANGED channels
  /\ UNCHANGED <<updating, owner, progress, ui>>

(* Mutant: a refused tryLock is taken for a lock. *)
MutTryLock(t) ==
  /\ Goto(t, "try", "locked")
  /\ owner' = Proc(t)
  /\ UNCHANGED <<updating, channels, progress, ui>>

(* channel.tryLock(): OverlappingFileLockException when this process already *)
(* has the lock, null when another one does, or an IOException.              *)
TryLock(t) ==
  /\ \/ /\ owner = "none"
        /\ \A u \in Tasks : Proc(u) = Proc(t) => pc[u] \notin Holding
        /\ Goto(t, "try", "locked")
        /\ owner' = Proc(t)
     \/ Goto(t, "try", "closeFailed") /\ UNCHANGED owner
  /\ UNCHANGED <<updating, channels, progress, ui>>

(* Mutant: the channel is closed only when the lock was taken. *)
MutCloseFailed(t) ==
  /\ Goto(t, "closeFailed", "drop")
  /\ UNCHANGED <<updating, owner, channels, progress, ui>>

(* What closing a channel of the lock file does to the record lock. *)
OwnerAfterClose(t) == IF owner = Proc(t) THEN "none" ELSE owner

(* finally { if (lock == null) channel.close() } *)
CloseFailed(t) ==
  /\ Goto(t, "closeFailed", "drop")
  /\ channels' = channels \ {t}
  /\ owner' = OwnerAfterClose(t)
  /\ UNCHANGED <<updating, progress, ui>>

(* if (lockPair == null) { updating.remove(id); return false } *)
DropMarker(t) ==
  /\ Goto(t, "drop", "idle")
  /\ updating' = updating \ {Proc(t)}
  /\ UNCHANGED <<owner, channels, progress, ui>>

-----------------------------------------------------------------------------
(* The body: every way out of it, cancellation included, leads to the        *)
(* finally blocks.                                                           *)

(* postReload, the subscription check, and for a user update that needs it   *)
(* userInterface.confirm, refused when there is no interface.                *)
Begin(t) ==
  /\ \/ Goto(t, "locked", "release")
     \/ t \in MainTasks /\ ui = "set" /\ Goto(t, "locked", "confirm")
     \/ Goto(t, "locked", "update")
  /\ UNCHANGED <<updating, owner, channels, progress, ui>>

(* confirm's block on the main thread: a destroyed activity is a refusal.    *)
ShowDialog(t) ==
  /\ \/ Goto(t, "confirm", "shown")
     \/ Goto(t, "orphan", "release")
  /\ UNCHANGED <<updating, owner, channels, progress, ui>>

(* The user's answer; dismissing the dialog is a refusal.                    *)
Answer(t) ==
  /\ Goto(t, "shown", "update") \/ Goto(t, "shown", "release")
  /\ UNCHANGED <<updating, owner, channels, progress, ui>>

(* forceResolve: GroupUpdater.progress[groupId] = progress *)
ForceResolve(t) ==
  /\ pc[t] = "update"
  /\ progress' = progress \cup {Proc(t)}
  /\ UNCHANGED <<pc, updating, owner, channels, ui>>

(* doUpdate returned, failed or was cancelled. *)
UpdateEnds(t) ==
  /\ Goto(t, "update", "release")
  /\ UNCHANGED <<updating, owner, channels, progress, ui>>

-----------------------------------------------------------------------------
(* The finally blocks *)

ReleaseLock(t) ==
  /\ Goto(t, "release", "close")
  /\ owner' = "none"
  /\ UNCHANGED <<updating, channels, progress, ui>>

CloseChannel(t) ==
  /\ Goto(t, "close", "finish")
  /\ channels' = channels \ {t}
  /\ owner' = OwnerAfterClose(t)
  /\ UNCHANGED <<updating, progress, ui>>

(* Mutant: finishUpdate is not reached when the update fails. *)
MutFinishMarker(t) ==
  /\ Goto(t, "finish", "unprogress")
  /\ UNCHANGED <<owner, channels, progress, ui, updating>>

(* finishUpdate: updating.remove, then progress.remove *)
FinishMarker(t) ==
  /\ Goto(t, "finish", "unprogress")
  /\ updating' = updating \ {Proc(t)}
  /\ UNCHANGED <<owner, channels, progress, ui>>

FinishProgress(t) ==
  /\ Goto(t, "unprogress", "idle")
  /\ progress' = progress \ {Proc(t)}
  /\ UNCHANGED <<updating, owner, channels, ui>>

-----------------------------------------------------------------------------
(* The surroundings *)

CreateActivity ==
  /\ ui = "null"
  /\ ui' = "set"
  /\ UNCHANGED <<pc, updating, owner, channels, progress>>

(* onDestroy: the lifecycle observer of a dialog on show refuses for it; a   *)
(* dialog not yet shown will find its activity destroyed.                    *)
DestroyActivity ==
  /\ ui = "set"
  /\ ui' = "null"
  /\ pc' = [t \in Tasks |-> CASE pc[t] = "shown" -> "release"
                              [] pc[t] = "confirm" -> "orphan"
                              [] OTHER -> pc[t]]
  /\ UNCHANGED <<updating, owner, channels, progress>>

(* A process dies: its memory is gone, the kernel closes its files.          *)
Crash(p) ==
  /\ pc' = [t \in Tasks |-> IF Proc(t) = p THEN "idle" ELSE pc[t]]
  /\ updating' = updating \ {p}
  /\ progress' = progress \ {p}
  /\ channels' = {t \in channels : Proc(t) # p}
  /\ owner' = IF owner = p THEN "none" ELSE owner
  /\ ui' = IF p = "main" THEN "null" ELSE ui

(* What a call does by itself, once it has the marker.                       *)
Own(t) ==
  \/ OpenChannel(t) \/ TryLock(t) \/ CloseFailed(t) \/ DropMarker(t)
  \/ Begin(t) \/ ShowDialog(t) \/ UpdateEnds(t)
  \/ ReleaseLock(t) \/ CloseChannel(t) \/ FinishMarker(t) \/ FinishProgress(t)

Next ==
  \/ \E t \in Tasks : AddMarker(t) \/ Own(t) \/ Answer(t) \/ ForceResolve(t)
  \/ CreateActivity \/ DestroyActivity
  \/ \E p \in Procs : Crash(p)

(* Dispatchers run their coroutines and downloads time out; nothing makes    *)
(* the user start an update, answer a dialog or leave the activity.          *)
Spec == Init /\ [][Next]_vars /\ \A t \in Tasks : WF_vars(Own(t))

-----------------------------------------------------------------------------
(* Properties *)

(* "cross-process mutex": no two calls write the group at the same time,     *)
(* however a failed attempt's channel.close() treats the record lock.        *)
Exclusion ==
  \A t, u \in Tasks : pc[t] \in Holding /\ pc[u] \in Holding => t = u

(* Every way out of executeUpdate cleans up ("each failed attempt leaks an   *)
(* fd"): once the calls of a process have returned, it holds no marker, no   *)
(* channel, no lock and no progress entry.                                   *)
NothingLeftBehind ==
  \A p \in Procs :
    (\A t \in Tasks : Proc(t) = p => pc[t] = "idle") =>
      /\ p \notin updating \cup progress
      /\ owner # p
      /\ \A t \in channels : Proc(t) # p

(* No call waits for a dialog whose activity is gone ("the coroutine would   *)
(* hang forever with the group's updating lock held").                       *)
DialogHasActivity == (\E t \in Tasks : pc[t] = "shown") => ui = "set"

(* The marker of a process is always given back, unless the user keeps the   *)
(* dialog open, so that the group can be updated again.                      *)
MarkerReturns ==
  \A p \in Procs : p \in updating ~> (p \notin updating \/ \E t \in MainTasks : pc[t] = "shown")

(* executeUpdate implements UpdateExclusion, with the calls between tryLock  *)
(* and release for its holders: one call at a time gets the group, and only  *)
(* when the one before has given it up or died with its process.             *)
Holders == {t \in Tasks : pc[t] \in Holding}

Abstract == INSTANCE UpdateExclusion WITH holders <- Holders

ImplementsExclusion == Abstract!Spec
=============================================================================
