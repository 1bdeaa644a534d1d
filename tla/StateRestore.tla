---------------------------- MODULE StateRestore ----------------------------
(***************************************************************************)
(* Snapshots of the local state and their restoration                       *)
(* (services/local-state-backup.ts).  A snapshot copies the tracked targets *)
(* one by one while the program goes on writing; old snapshots are pruned.  *)
(* A restore validates a snapshot, stages a copy of each selected target    *)
(* and a rollback copy of what is there, then removes and moves the targets *)
(* one by one and rolls back when that fails.  Targets may be nested (the   *)
(* database lies in the memory directory), so a target is modelled by the   *)
(* files it holds, and a checksum by the contents it is computed from.      *)
(***************************************************************************)
EXTENDS Naturals, Sequences, FiniteSets, FiniteSetsExt

CONSTANTS Targets,        \* SNAPSHOT_TARGETS, in their order
          Holds,          \* the files of each target
          Retention,      \* retentionLimit
          MaxSnapshots,   \* bound: snapshots taken
          MaxRestores,    \* bound: restores, one at a time
          MaxEvents       \* bound: writes of the program, failed operations, damage and deaths

VARIABLES live,           \* the workspace: contents by file
          snap,           \* the snapshot directories by id, older ids first
          rows,           \* local_state_snapshots: id, or 0 for a failed one, in the order of their n
          job,            \* the createSnapshot call of each trigger
          restore,        \* the restoreSnapshot call
          events,         \* outcomes in local_state_restore_events
          restores, moves
vars == <<live, snap, rows, job, restore, events, restores, moves>>

TargetSet == {Targets[i] : i \in DOMAIN Targets}
LiveFiles == UNION {Holds[t] : t \in TargetSet}
Triggers == {"scheduled", "manual"}
Ids == 1..MaxSnapshots
\* Contents are numbered by the writes they come from; no file, and a damaged one, have a number too.
Absent == 0
Damaged == MaxEvents + 2
Nothing == [f \in LiveFiles |-> Absent]
NoCopies == [t \in TargetSet |-> Nothing]

\* What a target holds in a set of files: the files of other targets read as absent.
Part(files, t) == [f \in LiveFiles |-> IF f \in Holds[t] THEN files[f] ELSE Absent]
Exists(files, t) == \E f \in Holds[t] : files[f] # Absent
\* A set of files with a target removed, or with the files of another copied over it.
Without(files, t) == [f \in LiveFiles |-> IF f \in Holds[t] THEN Absent ELSE files[f]]
CopiedOver(files, t, from) == [f \in LiveFiles |-> IF f \in Holds[t] /\ from[f] # Absent THEN from[f] ELSE files[f]]

NoSnapshot == [dir |-> FALSE, tree |-> Nothing, manifest |-> FALSE, sums |-> NoCopies, quiet |-> TRUE]
NoJob == [at |-> "idle", id |-> 0, i |-> 1, sums |-> NoCopies, quiet |-> TRUE]
NoRestore == [at |-> "none", id |-> 0, i |-> 1, plan |-> {}, dry |-> FALSE, present |-> {},
              staged |-> NoCopies, saved |-> NoCopies,
              before |-> Nothing, written |-> {}, torn |-> {}]   \* history

Init == /\ live = [f \in LiveFiles |-> 1]
        /\ snap = [i \in Ids |-> NoSnapshot] /\ rows = {} /\ events = <<>>
        /\ job = [t \in Triggers |-> NoJob]
        /\ restore = NoRestore
        /\ restores = 0 /\ moves = 0

Restoring == restore.at \in {"validate", "stage", "clear", "move", "persist", "undo", "putback"}

\* History: a snapshot is quiet when nothing else moves from its first copy to its manifest.
Disturb(jobs) == [t \in Triggers |-> [jobs[t] EXCEPT !.quiet = @ /\ jobs[t].at = "idle"]]

\* The program writes one of its files.
Write(f) == /\ moves < MaxEvents /\ live[f] # Absent
            /\ live' = [live EXCEPT ![f] = moves + 2]
            /\ moves' = moves + 1
            /\ restore' = [restore EXCEPT !.written = IF Restoring THEN @ \cup {f} ELSE @]
            /\ job' = Disturb(job)
            /\ UNCHANGED <<snap, rows, events, restores>>

(***************************************************************************)
(* Snapshots.                                                               *)
(***************************************************************************)

RowIds == {r.id : r \in rows}
AddRow(id) == rows \cup {[n |-> 1 + Max({0} \cup {r.n : r \in rows}), id |-> id]}

\* A new directory, with the newest id.
Fresh == {i \in Ids : ~\E k \in i..MaxSnapshots : snap[k].dir \/ k \in RowIds \/ \E q \in Triggers : job[q].id = k}
CreateSnapshot(t) ==
    /\ job[t].at = "idle"
    /\ \E i \in Fresh :
          /\ \A k \in Fresh : i <= k
          /\ snap' = [snap EXCEPT ![i].dir = TRUE]
          /\ job' = [Disturb(job) EXCEPT ![t] = [NoJob EXCEPT !.at = "copy", !.id = i,
                          !.quiet = ~Restoring /\ \A q \in Triggers : job[q].at = "idle"]]
    /\ UNCHANGED <<live, rows, restore, events, restores, moves>>

\* One target copied, and its checksum taken from the copy.  The copies share one tree.
CopyTarget(t) ==
    LET target == Targets[job[t].i]
        tree == CopiedOver(snap[job[t].id].tree, target, live)
    IN /\ job[t].at = "copy"
       /\ snap' = IF Exists(live, target) THEN [snap EXCEPT ![job[t].id].tree = tree, ![job[t].id].dir = TRUE] ELSE snap
       /\ job' = [job EXCEPT ![t].sums[target] = IF Exists(live, target) THEN Part(tree, target) ELSE Nothing,
                             ![t].i = IF @ < Len(Targets) THEN @ + 1 ELSE @,
                             ![t].at = IF job[t].i < Len(Targets) THEN "copy" ELSE "manifest"]
       /\ UNCHANGED <<live, rows, restore, events, restores, moves>>

\* The manifest with its checksums, and the row of the table.
WriteManifest(t) ==
    /\ job[t].at = "manifest" /\ snap[job[t].id].dir
    /\ snap' = [snap EXCEPT ![job[t].id].manifest = TRUE, ![job[t].id].sums = job[t].sums,
                            ![job[t].id].quiet = @ /\ job[t].quiet]
    /\ rows' = IF job[t].id \in RowIds THEN rows ELSE AddRow(job[t].id)
    /\ job' = [job EXCEPT ![t].at = "prune"]
    /\ UNCHANGED <<live, restore, events, restores, moves>>

Dirs == {i \in Ids : snap[i].dir}
\* The directories beyond the newest Retention ones, whether they hold a manifest or not.
Stale == {i \in Dirs : Cardinality({k \in Dirs : k > i}) >= Retention}

\* Their rows go with them.
KeptRows(stale) == {r \in rows : r.id \notin stale}

PruneSnapshots(t) ==
    /\ job[t].at = "prune"
    /\ snap' = [i \in Ids |-> IF i \in Stale THEN NoSnapshot ELSE snap[i]]
    /\ rows' = KeptRows(Stale)
    /\ job' = [job EXCEPT ![t] = NoJob]
    /\ UNCHANGED <<live, restore, events, restores, moves>>

\* The scheduled job records a failure; the directory stays as it is.
FailSnapshot(t) == /\ job' = [job EXCEPT ![t] = NoJob]
                   /\ rows' = IF t = "scheduled" THEN AddRow(0) ELSE rows

\* A copy or the manifest fails, or there is no directory any more to write the manifest in.
SnapshotFails(t) ==
    /\ \/ job[t].at \in {"copy", "manifest"} /\ moves < MaxEvents /\ moves' = moves + 1
       \/ job[t].at = "manifest" /\ ~snap[job[t].id].dir /\ UNCHANGED moves
    /\ FailSnapshot(t)
    /\ UNCHANGED <<live, snap, restore, events, restores>>

\* Something outside damages a file of a snapshot.
Damage(i, f) ==
    /\ moves < MaxEvents /\ snap[i].manifest /\ snap[i].tree[f] # Absent
    /\ snap' = [snap EXCEPT ![i].tree[f] = Damaged, ![i].quiet = FALSE]
    /\ moves' = moves + 1
    /\ UNCHANGED <<live, rows, job, restore, events, restores>>

(***************************************************************************)
(* Restores.                                                                *)
(***************************************************************************)

\* The newest row if it is ready; otherwise the newest directory, whatever is in it.
LatestSnapshotIds ==
    LET newest == {r.id : r \in {r \in rows : \A q \in rows : q.n <= r.n}}
    IN IF newest \ {0} # {} THEN newest
       ELSE IF Dirs = {} THEN {0} ELSE {i \in Dirs : \A k \in Dirs : k <= i}

\* The event of a restore that ends, and the end of it.
Outcome(outcome) == events' = Append(events, outcome) /\ restore' = NoRestore

\* A restore of a given snapshot, or of the latest: without one it has failed.
RestoreSnapshot(id, selected, dry) ==
    LET plan == {k \in DOMAIN Targets : Targets[k] \in selected}
        r == [NoRestore EXCEPT !.at = "validate", !.id = id, !.dry = dry, !.before = live, !.plan = plan, !.i = Min(plan)]
    IN /\ ~Restoring /\ restores < MaxRestores
       /\ restores' = restores + 1
       /\ IF id = 0 THEN Outcome("failed") ELSE restore' = r /\ UNCHANGED events
       /\ job' = Disturb(job)
       /\ UNCHANGED <<live, snap, rows, moves>>

\* No manifest, a missing copy or another checksum: nothing was changed.
ValidFor(id, plan) ==
    /\ snap[id].manifest
    /\ \A k \in plan : \/ ~Exists(snap[id].sums[Targets[k]], Targets[k])
                       \/ Part(snap[id].tree, Targets[k]) = snap[id].sums[Targets[k]]
Valid == ValidFor(restore.id, restore.plan)

Validate ==
    /\ restore.at = "validate"
    /\ \/ ~Valid /\ Outcome("failed")
       \/ Valid /\ restore.dry /\ Outcome("dry-run")
       \/ /\ Valid /\ ~restore.dry
          /\ restore' = [restore EXCEPT !.at = "stage", !.present = {t \in TargetSet : Exists(snap[restore.id].sums[t], t)}]
          /\ UNCHANGED events
    /\ UNCHANGED <<live, snap, rows, job, restores, moves>>

\* The plan is the numbers of the targets selected, taken in their order.
Target == Targets[restore.i]
InSnapshot(t) == t \in restore.present

\* The next target, or the next phase after the last.
OnTo(r, phase, next) == LET rest == {k \in r.plan : k > r.i}
                        IN IF rest = {} THEN [r EXCEPT !.at = next, !.i = Min(r.plan)]
                           ELSE [r EXCEPT !.at = phase, !.i = Min(rest)]

\* The rollback copy of what is there and the staged copy of what is to come, if anything is.
StageTarget ==
    /\ restore.at = "stage"
    /\ InSnapshot(Target) => snap[restore.id].dir
    /\ restore' = OnTo([restore EXCEPT !.saved[Target] = Part(live, Target),
                                       !.staged[Target] = IF InSnapshot(Target) THEN Part(snap[restore.id].tree, Target)
                                                          ELSE Nothing], "stage", "clear")
    /\ UNCHANGED <<live, snap, rows, job, events, restores, moves>>

\* A target that is not in the snapshot is only removed.
ClearTarget ==
    /\ restore.at = "clear"
    /\ live' = Without(live, Target)
    /\ restore' = IF InSnapshot(Target) THEN [restore EXCEPT !.at = "move"] ELSE OnTo(restore, "clear", "persist")
    /\ UNCHANGED <<snap, rows, job, events, restores, moves>>

MoveTarget ==
    /\ restore.at = "move"
    /\ live' = CopiedOver(live, Target, restore.staged[Target])
    /\ restore' = OnTo(restore, "clear", "persist")
    /\ UNCHANGED <<snap, rows, job, events, restores, moves>>

PersistRestored ==
    /\ restore.at = "persist"
    /\ Outcome("restored")
    /\ UNCHANGED <<live, snap, rows, job, restores, moves>>

\* The targets already applied are undone, the last first; without any the restore has failed.
RollBackNothing(r, last) == Outcome("failed")
RollBack(r, last) == LET applied == {k \in r.plan : k <= last}
                     IN IF applied = {} THEN Outcome("failed")
                        ELSE restore' = [r EXCEPT !.at = "undo", !.i = Max(applied)] /\ UNCHANGED events

\* Its copy in the snapshot was pruned since it was validated.
StagingMisses ==
    /\ restore.at = "stage"
    /\ InSnapshot(Target) /\ ~snap[restore.id].dir
    /\ RollBack(restore, 0)
    /\ UNCHANGED <<live, snap, rows, job, restores, moves>>

\* An operation fails.  The target being removed or moved has not been applied: it is not undone.
RestoreFails ==
    /\ restore.at \in {"stage", "clear", "move", "persist"} /\ moves < MaxEvents
    /\ moves' = moves + 1
    /\ live' \in (IF restore.at = "clear" THEN {live, Without(live, Target)} ELSE {live})
    /\ CASE restore.at = "stage"   -> RollBack(restore, 0)
         [] restore.at = "persist" -> RollBack(restore, Len(Targets))
         [] OTHER                  -> RollBack([restore EXCEPT !.torn = {Target}], restore.i - 1)
    /\ UNCHANGED <<snap, rows, job, restores>>

UndoTarget ==
    /\ restore.at = "undo"
    /\ live' = Without(live, Target)
    /\ IF Exists(restore.saved[Target], Target)
       THEN restore' = [restore EXCEPT !.at = "putback"] /\ UNCHANGED events
       ELSE RollBack(restore, restore.i - 1)
    /\ UNCHANGED <<snap, rows, job, restores, moves>>

PutBack ==
    /\ restore.at = "putback"
    /\ live' = CopiedOver(live, Target, restore.saved[Target])
    /\ RollBack(restore, restore.i - 1)
    /\ UNCHANGED <<snap, rows, job, restores, moves>>

\* A failure of the rollback itself is thrown, and no event is recorded.
RollBackFails ==
    /\ restore.at \in {"undo", "putback"} /\ moves < MaxEvents
    /\ moves' = moves + 1
    /\ restore' = NoRestore
    /\ UNCHANGED <<live, snap, rows, job, events, restores>>

\* The process dies: snapshots and restores under way are left as they are.
Die == /\ moves < MaxEvents
       /\ Restoring \/ \E t \in Triggers : job[t].at # "idle"
       /\ moves' = moves + 1
       /\ job' = [t \in Triggers |-> NoJob]
       /\ restore' = NoRestore
       /\ UNCHANGED <<live, snap, rows, events, restores>>

Next == \/ \E f \in LiveFiles : Write(f) \/ \E i \in Ids : Damage(i, f)
        \/ \E t \in Triggers : \/ CreateSnapshot(t) \/ CopyTarget(t) \/ WriteManifest(t)
                               \/ PruneSnapshots(t) \/ SnapshotFails(t)
        \/ \E id \in Dirs \cup LatestSnapshotIds, selected \in (SUBSET TargetSet) \ {{}}, dry \in BOOLEAN :
               RestoreSnapshot(id, selected, dry)
        \/ Validate \/ StageTarget \/ StagingMisses \/ ClearTarget \/ MoveTarget \/ PersistRestored
        \/ RestoreFails \/ UndoTarget \/ PutBack \/ RollBackFails
        \/ Die

Spec == Init /\ [][Next]_vars

(***************************************************************************)
(* Properties.                                                              *)
(***************************************************************************)

\* Shapes, and that calls under way name a snapshot and a target.
TypeOK == /\ live \in [LiveFiles -> 0..MaxEvents + 2]
          /\ RowIds \subseteq 0..MaxSnapshots
          /\ \A t \in Triggers : job[t].at # "idle" => job[t].id \in Ids /\ job[t].i \in DOMAIN Targets
          /\ Restoring => restore.id \in Ids /\ restore.i \in restore.plan

\* getDiagnostics reports trouble when there is no snapshot or a restore failed.
Degraded == rows = {} \/ \E i \in DOMAIN events : events[i] = "failed"

\* The targets of a restore that hold a file, and the content they staged for it.
Holding(f) == {t \in TargetSet : f \in Holds[t] /\ \E k \in restore.plan : Targets[k] = t}
Wanted(f) == {restore.staged[t][f] : t \in Holding(f)}

\* restoreSnapshot promises staged writes, an atomic swap and a rollback: when it ends, what the
\* program did not write meanwhile is as it was staged after a restore, and as it was before
\* after a dry run or a failure - but for the one target at which it failed.  A failure shows.
Ends(outcome) == restore.at # "none" /\ events' = Append(events, outcome)
Torn == IF restore.at \in {"clear", "move"} THEN {Target} ELSE restore.torn
AsBefore(f) == live'[f] = restore.before[f]
AllOrNothing ==
    /\ \A f \in LiveFiles \ restore.written :
          /\ Ends("restored") => IF Holding(f) = {} THEN AsBefore(f) ELSE live'[f] \in Wanted(f)
          /\ Ends("dry-run") => AsBefore(f)
          /\ Ends("failed") => AsBefore(f) \/ \E t \in Torn : f \in Holds[t]
    /\ events' # events /\ events'[Len(events')] = "failed" => Degraded'
RestoreAllOrNothing == [][AllOrNothing]_vars

\* A snapshot whose row says ready can be restored: it was not pruned and validates - unless
\* the program wrote, or another call ran, while it was taken, or it was damaged since.
ReadyIsRestorable == \A i \in RowIds \ {0} : snap[i].quiet => ValidFor(i, DOMAIN Targets)
=============================================================================
