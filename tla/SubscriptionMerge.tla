-------------------------- MODULE SubscriptionMerge --------------------------
(***************************************************************************)
(* RawUpdater.doUpdate against everybody else who writes the nodes of the  *)
(* group.  The update reads the group's rows once, resolves addresses for  *)
(* as long as that takes, and then writes its plan in one transaction; in  *)
(* between the user edits and deletes nodes or deletes the group, and      *)
(* tests write their results.  One update runs at a time, which            *)
(* UpdateExclusion promises.                                               *)
(*                                                                         *)
(* A display name is <<base, k>>: the base alone for k = 0, else the base  *)
(* followed by " (k)".  Downloaded names do not end in " (k)" themselves.  *)
(***************************************************************************)
EXTENDS Integers, Sequences, FiniteSets

CONSTANTS
  Titles,    \* names a node may be given
  Hosts,     \* server addresses that are domain names
  Ip,        \* the address that the hosts resolve to
  Blank,     \* the name of a node that has none
  MaxLen,    \* bound on the length of a subscription
  MaxUpdates, MaxEdits   \* bounds on the updates and the other writes

ASSUME MergeAssumption ==
  /\ Titles \cap Hosts = {} /\ Ip \notin Titles \cup Hosts
  /\ Blank \notin Titles \cup Hosts \cup {Ip}
  /\ {MaxLen, MaxUpdates, MaxEdits} \subseteq Nat

VARIABLES
  group,    \* "present" or "deleted"
  rows,     \* the group's nodes: a function from ids to rows
  nextId,   \* autoincrement
  stage,    \* "idle", "resolve" or "commit"
  list,     \* the downloaded nodes
  snap,     \* `exists`, the rows when the update read them
  touched,  \* history: nodes others have written since
  gaps,     \* deletions that have yet to call rearrange()
  updates, edits

mergeVars == <<group, rows, nextId, stage, list, snap, touched, gaps, updates, edits>>

Ids == 1..(MaxLen * MaxUpdates)

Bases == Titles \cup Hosts \cup {Ip}

Names == (Bases \X (0..MaxLen)) \cup {<<Blank, 0>>}

Beans == [name : Names, addr : Hosts \cup {Ip}]

Rows == [name : Names, addr : Hosts \cup {Ip}, custom : 0..1, stat : 0..MaxEdits,
         order : 1..MaxLen]

(* AbstractBean.displayName *)
Display(bean) == IF bean.name = <<Blank, 0>> THEN <<bean.addr, 0>> ELSE bean.name

Displays(beans) == {Display(beans[i]) : i \in DOMAIN beans}

(* A downloaded list as the later steps may rely on it: no two nodes with    *)
(* the same display name.                                                    *)
Unique(beans) == Cardinality(Displays(beans)) = Len(beans)

MergeTypeOK ==
  /\ group \in {"present", "deleted"}
  /\ DOMAIN rows \subseteq 1..(nextId - 1) /\ \A i \in DOMAIN rows : rows[i] \in Rows
  /\ DOMAIN snap \subseteq 1..(nextId - 1) /\ \A i \in DOMAIN snap : snap[i] \in Rows
  /\ nextId \in 1..(MaxLen * MaxUpdates + 1)
  /\ stage \in {"idle", "resolve", "commit"}
  /\ list \in Seq(Beans) /\ Unique(list)
  /\ touched \subseteq Ids
  /\ gaps \in 0..MaxEdits /\ updates \in 0..MaxUpdates /\ edits \in 0..MaxEdits

InitMerge ==
  /\ group = "present" /\ rows = <<>> /\ nextId = 1
  /\ stage = "idle" /\ list = <<>> /\ snap = <<>>
  /\ touched = {} /\ gaps = 0 /\ updates = 0 /\ edits = 0

-----------------------------------------------------------------------------
(* doUpdate up to its transaction *)

(* The first of name, "name (1)", "name (2)", ... that is not taken.         *)
Renamed(taken, bean) ==
  LET d == Display(bean)
      Free(k) == <<d[1], k>> \notin taken
  IN  IF d \notin taken THEN bean
      ELSE [bean EXCEPT !.name = CHOOSE nm \in Names :
              /\ nm[1] = d[1] /\ nm[2] > 0 /\ Free(nm[2])
              /\ \A k \in 1..(nm[2] - 1) : ~Free(k)]

(* uniquifyNames: in list order, each node keeps clear of those before it.   *)
UniquifyNames(beans) ==
  LET done[n \in 0..Len(beans)] ==
        IF n = 0 THEN <<>>
        ELSE Append(done[n - 1], Renamed(Displays(done[n - 1]), beans[n]))
  IN  done[Len(beans)]

(* Deduplication: a node whose server an earlier node has is dropped.        *)
Deduplicate(beans) ==
  LET done[n \in 0..Len(beans)] ==
        IF n = 0 THEN <<>>
        ELSE IF \E i \in DOMAIN done[n - 1] : done[n - 1][i].addr = beans[n].addr
        THEN done[n - 1]
        ELSE Append(done[n - 1], beans[n])
  IN  done[Len(beans)]

(* What a subscription may contain.                                          *)
Downloads ==
  UNION {[1..n -> [name : {<<t, 0>> : t \in Titles \cup {Blank}}, addr : Hosts]] : n \in 1..MaxLen}

(* Download, parse, uniquify, read `exists`, deduplicate if so configured.   *)
Fetch(raw) ==
  /\ stage = "idle" /\ updates < MaxUpdates /\ group = "present"
  /\ updates' = updates + 1
  /\ stage' = "resolve"
  /\ list' \in {UniquifyNames(raw), Deduplicate(UniquifyNames(raw))}
  /\ snap' = rows /\ touched' = {}
  /\ UNCHANGED <<group, rows, nextId, gaps, edits>>

(* The nodes in S are resolved; the lookups of the others fail. *)
Resolved(S) == [i \in DOMAIN list |-> IF i \in S THEN [list[i] EXCEPT !.addr = Ip] ELSE list[i]]

(* forceResolve, with S empty also for a group that does not ask for it.     *)
ResolveAddresses(S) ==
  /\ stage = "resolve"
  /\ stage' = "commit"
  /\ list' = UniquifyNames(Resolved(S))
  /\ UNCHANGED <<group, rows, nextId, snap, touched, gaps, updates, edits>>

(* A failure, a cancellation or the death of the process.                    *)
Abort ==
  /\ stage # "idle"
  /\ stage' = "idle" /\ list' = <<>> /\ snap' = <<>> /\ touched' = {}
  /\ UNCHANGED <<group, rows, nextId, gaps, updates, edits>>

-----------------------------------------------------------------------------
(* The plan and the transaction *)

Before(f, i, j) == f[i].order < f[j].order \/ (f[i].order = f[j].order /\ i <= j)

Matching(bean) == {i \in DOMAIN snap : Display(snap[i]) = Display(bean)}

(* toReplace: of the rows with a downloaded name the first in the group's    *)
(* order, 0 if there is none.                                                *)
Target(bean) ==
  IF Matching(bean) = {} THEN 0
  ELSE CHOOSE i \in Matching(bean) : \A j \in Matching(bean) : Before(snap, i, j)

(* Mutant: of several rows with one name none is deleted. *)
MutToDelete == {i \in DOMAIN snap : Display(snap[i]) \notin Displays(list)}

(* toDelete: every other row *)
ToDelete == {i \in DOMAIN snap : \A k \in DOMAIN list : Target(list[k]) # i}

(* toInsert: positions in the list without a row *)
ToInsert == {k \in DOMAIN list : Target(list[k]) = 0}

IdFor(k) == nextId + Cardinality({j \in ToInsert : j < k})

(* Mutant: the whole row of the snapshot is written back. *)
MutMerged(cur, old, k) ==
  [old EXCEPT !.order = k, !.name = list[k].name, !.addr = list[k].addr]

(* toUpdate: order and bean, with the overrides of the snapshot's bean, go   *)
(* into the row as it is now; toReorder: only the order; else nothing.       *)
Merged(cur, old, k) ==
  IF <<old.name, old.addr>> # <<list[k].name, list[k].addr>>
  THEN [cur EXCEPT !.order = k, !.name = list[k].name, !.addr = list[k].addr,
                   !.custom = old.custom]
  ELSE IF old.order # k THEN [cur EXCEPT !.order = k]
  ELSE cur

Inserted(k) ==
  [name |-> list[k].name, addr |-> list[k].addr, custom |-> 0, stat |-> 0, order |-> k]

(* getById(entity.id) ?: continue *)
Kept == DOMAIN rows \ ToDelete

(* The rows after the transaction. *)
Written ==
  [i \in Kept \cup {IdFor(k) : k \in ToInsert} |->
     IF i >= nextId THEN Inserted(CHOOSE k \in ToInsert : IdFor(k) = i)
     ELSE IF \E k \in DOMAIN list : Target(list[k]) = i
     THEN Merged(rows[i], snap[i],
                 CHOOSE k \in DOMAIN list : Target(list[k]) = i)
     ELSE rows[i]]

(* Mutant: the group is not looked up again. *)
MutCommit ==
  /\ stage = "commit"
  /\ rows' = Written
  /\ nextId' = nextId + Cardinality(ToInsert)
  /\ stage' = "idle" /\ list' = <<>> /\ snap' = <<>> /\ touched' = {}
  /\ UNCHANGED <<group, gaps, updates, edits>>

(* runInTransaction; a group deleted meanwhile makes it fail (Abort).        *)
Commit ==
  /\ stage = "commit" /\ group = "present"
  /\ rows' = Written
  /\ nextId' = nextId + Cardinality(ToInsert)
  /\ stage' = "idle" /\ list' = <<>> /\ snap' = <<>> /\ touched' = {}
  /\ UNCHANGED <<group, gaps, updates, edits>>

-----------------------------------------------------------------------------
(* The other writers *)

Write(i, row) ==
  /\ edits < MaxEdits /\ edits' = edits + 1
  /\ rows' = [rows EXCEPT ![i] = row]
  /\ touched' = touched \cup {i}
  /\ UNCHANGED <<group, nextId, stage, list, snap, gaps, updates>>

(* updateEditableFields from the profile editor *)
EditCustom(i) == Write(i, [rows[i] EXCEPT !.custom = 1 - @])

Rename(i, t) == rows[i].name # <<t, 0>> /\ Write(i, [rows[i] EXCEPT !.name = <<t, 0>>])

(* updateStatus, updateTraffic *)
Test(i) ==
  /\ edits < MaxEdits /\ edits' = edits + 1
  /\ rows' = [rows EXCEPT ![i].stat = @ + 1]
  /\ UNCHANGED <<group, nextId, stage, list, snap, touched, gaps, updates>>

(* deleteProfile: deleteById, *)
Delete(i) ==
  /\ edits < MaxEdits /\ edits' = edits + 1
  /\ rows' = [j \in DOMAIN rows \ {i} |-> rows[j]]
  /\ touched' = touched \cup {i}
  /\ gaps' = gaps + 1
  /\ UNCHANGED <<group, nextId, stage, list, snap, updates>>

(* and then, for two or more rows, rearrange(): a transaction of its own     *)
(* that numbers the rows in their order.                                     *)
Rearrange ==
  /\ gaps > 0 /\ gaps' = gaps - 1
  /\ IF Cardinality(DOMAIN rows) > 1
     THEN /\ rows' = [j \in DOMAIN rows |->
                       [rows[j] EXCEPT !.order =
                          Cardinality({k \in DOMAIN rows : Before(rows, k, j)})]]
          /\ touched' = touched \cup DOMAIN rows
     ELSE UNCHANGED <<rows, touched>>
  /\ UNCHANGED <<group, nextId, stage, list, snap, updates, edits>>

(* deleteGroup: the group and its rows in one transaction *)
DeleteGroup ==
  /\ edits < MaxEdits /\ edits' = edits + 1
  /\ group = "present" /\ group' = "deleted"
  /\ rows' = <<>>
  /\ touched' = touched \cup DOMAIN rows
  /\ UNCHANGED <<nextId, stage, list, snap, gaps, updates>>

NextMerge ==
  \/ \E raw \in Downloads : Fetch(raw)
  \/ \E S \in SUBSET DOMAIN list : ResolveAddresses(S)
  \/ Abort \/ Commit \/ Rearrange \/ DeleteGroup
  \/ \E i \in DOMAIN rows : EditCustom(i) \/ Test(i) \/ Delete(i) \/ \E t \in Titles : Rename(i, t)

MergeSpec == InitMerge /\ [][NextMerge]_mergeVars

-----------------------------------------------------------------------------
(* Properties *)

(* An update nobody interfered with leaves exactly the downloaded nodes, in  *)
(* their order ("the group ends up with exactly one entity per name",        *)
(* "associateBy would silently drop nodes"), and a node whose name was in    *)
(* the group already is still the same row with the same overrides.          *)
Exact ==
  /\ Cardinality(DOMAIN rows') = Len(list)
  /\ \A k \in DOMAIN list : \E i \in DOMAIN rows' :
       /\ Display(rows'[i]) = Display(list[k])
       /\ rows'[i].addr = list[k].addr /\ rows'[i].order = k
       /\ (\E j \in DOMAIN rows : Display(rows[j]) = Display(list[k])) =>
            i \in DOMAIN rows /\ rows'[i].custom = rows[i].custom

MergeExact == [][Commit /\ touched = {} => Exact]_mergeVars

(* No row outlives its group ("orphan nodes pointing at a group that does    *)
(* not exist").                                                              *)
NoOrphans == group = "deleted" => DOMAIN rows = {}

(* The merge does not undo what others wrote during the download: test       *)
(* results and traffic are not rolled back, and a node the user deleted      *)
(* does not return.                                                          *)
OthersWritesStay ==
  [][/\ \A i \in DOMAIN rows \cap DOMAIN rows' : rows'[i].stat >= rows[i].stat
     /\ \A i \in 1..(nextId - 1) : i \in DOMAIN rows' => i \in DOMAIN rows]_mergeVars
=============================================================================
