-------------------------- MODULE ReleasePipeline --------------------------
(***************************************************************************)
(* Releases and their rollback (services/release-pipeline.ts, run by        *)
(* release/cli.ts).  Preparing a release runs the preflight, copies the     *)
(* critical assets into a snapshot and writes a manifest; a rollback copies *)
(* a snapshot back over the workspace, asset by asset; a drill prepares a   *)
(* candidate and rolls it back.  The command may die at any step, and the   *)
(* application goes on writing its files.                                   *)
(***************************************************************************)
EXTENDS Naturals, Sequences, FiniteSets

CONSTANTS Assets,           \* CRITICAL_ASSETS, in their order
          Directories,      \* those that are directories
          Retention,        \* snapshots a release keeps
          DrillRetention,   \* snapshots a drill keeps
          MaxSnapshots, MaxWrites, MaxFaults   \* bounds: snapshots taken, writes of the application, failures and deaths

VARIABLES asset,            \* the workspace: each asset's contents
          snaps,            \* the snapshot directories
          state,            \* rollback-state.json
          latest,           \* manifests/latest.json
          op,               \* the command under way
          writes, faults,
          taken,            \* history: what each snapshot holds
          drift             \* history: assets the application wrote since the last rollback began
vars == <<asset, snaps, state, latest, op, writes, faults, taken, drift>>

AssetSet == {Assets[i] : i \in DOMAIN Assets}
Absent == 0
Empty == [a \in AssetSet |-> Absent]
NoId == [kind |-> "none", n |-> 0]
Idle == [at |-> "idle", drill |-> FALSE, id |-> NoId, i |-> 1]

Init == /\ asset = [a \in AssetSet |-> IF a = Assets[1] THEN 1 ELSE Absent]
        /\ snaps = {}
        /\ state = [id |-> NoId, status |-> "none"]
        /\ latest = [id |-> NoId, status |-> "none"]
        /\ op = Idle
        /\ writes = 0 /\ faults = 0
        /\ taken = <<>>
        /\ drift = {}

(***************************************************************************)
(* Snapshot directories are ordered by name: the release's identifier, then *)
(* the time.  "drill" sorts before "release".                               *)
(***************************************************************************)

Before(s, t) == \/ s.kind = "drill" /\ t.kind = "release"
                \/ s.kind = t.kind /\ s.n < t.n

LatestSnapshot == CHOOSE s \in snaps : \A t \in snaps : t = s \/ Before(t.id, s.id)

Newer(all, s) == {t \in all : Before(s.id, t.id)}
KeepsOldest(all, limit) == {s \in all : Cardinality({t \in all : Before(t.id, s.id)}) < limit}
Pruned(all, limit) == {s \in all : Cardinality(Newer(all, s)) < limit}

(***************************************************************************)
(* Preparing a release.                                                     *)
(***************************************************************************)

\* The preflight fails: a manifest that blocks the release, and no snapshot.  A drill goes on
\* with the latest snapshot, if there is one.
PrepareBlocked(drill) ==
    /\ op = Idle
    /\ latest' = [id |-> NoId, status |-> "blocked"]
    /\ op' = IF drill /\ snaps # {} THEN [Idle EXCEPT !.at = "rollback", !.drill = TRUE, !.id = LatestSnapshot.id] ELSE Idle
    /\ UNCHANGED <<asset, snaps, state, writes, faults, taken, drift>>

Prepare(drill) ==
    LET id == [kind |-> IF drill THEN "drill" ELSE "release", n |-> Len(taken) + 1]
    IN /\ op = Idle /\ Len(taken) < MaxSnapshots
       /\ snaps' = snaps \cup {[id |-> id, complete |-> FALSE]}
       /\ taken' = Append(taken, Empty)
       /\ op' = [Idle EXCEPT !.at = "copy", !.drill = drill, !.id = id]
       /\ UNCHANGED <<asset, state, latest, writes, faults, drift>>

CopyAsset == LET a == Assets[op.i]
             IN /\ op.at = "copy"
                /\ taken' = [taken EXCEPT ![op.id.n][a] = asset[a]]
                /\ op' = IF op.i < Len(Assets) THEN [op EXCEPT !.i = @ + 1] ELSE [op EXCEPT !.at = "metadata"]
                /\ UNCHANGED <<asset, snaps, state, latest, writes, faults, drift>>

\* The metadata makes the snapshot usable; then the oldest go.
WriteMetadata ==
    LET all == {IF s.id = op.id THEN [s EXCEPT !.complete = TRUE] ELSE s : s \in snaps}
    IN /\ op.at = "metadata"
       /\ snaps' = Pruned(all, IF op.drill THEN DrillRetention ELSE Retention)
       /\ op' = [op EXCEPT !.at = "manifest"]
       /\ UNCHANGED <<asset, state, latest, writes, faults, taken, drift>>

WriteManifest == /\ op.at = "manifest"
                 /\ latest' = [id |-> op.id, status |-> "ready"]
                 /\ op' = IF op.drill THEN [op EXCEPT !.at = "rollback"] ELSE Idle
                 /\ UNCHANGED <<asset, snaps, state, writes, faults, taken, drift>>

(***************************************************************************)
(* Rolling back.                                                            *)
(***************************************************************************)

Rollback(s) == /\ op = Idle
               /\ op' = [Idle EXCEPT !.at = "rollback", !.id = s.id]
               /\ UNCHANGED <<asset, snaps, state, latest, writes, faults, taken, drift>>

\* Without metadata the rollback is refused; the snapshot restored last is not restored again.
Done(id) == state = [id |-> id, status |-> "success"]
StartedSilently(id) == state
Started(id) == [id |-> id, status |-> "in_progress"]

StartRollback ==
    /\ op.at = "rollback"
    /\ IF [id |-> op.id, complete |-> TRUE] \notin snaps \/ Done(op.id)
       THEN op' = Idle /\ UNCHANGED <<state, drift>>
       ELSE /\ state' = Started(op.id)
            /\ drift' = {}
            /\ op' = [op EXCEPT !.at = "restore", !.i = 1]
    /\ UNCHANGED <<asset, snaps, latest, writes, faults, taken>>

RestoreNext(o) == IF o.i < Len(Assets) THEN [o EXCEPT !.i = @ + 1, !.at = "restore"] ELSE [o EXCEPT !.at = "health"]

\* An asset the snapshot does not hold is skipped; a directory is removed first.
RestoreAsset ==
    LET a == Assets[op.i]
        held == taken[op.id.n][a]
    IN /\ op.at \in {"restore", "fill"}
       /\ \/ /\ held = Absent
             /\ op' = RestoreNext(op)
             /\ UNCHANGED asset
          \/ /\ held # Absent /\ a \in Directories /\ op.at = "restore"
             /\ asset' = [asset EXCEPT ![a] = Absent]
             /\ op' = [op EXCEPT !.at = "fill"]
          \/ /\ held # Absent /\ (a \notin Directories \/ op.at = "fill")
             /\ asset' = [asset EXCEPT ![a] = held]
             /\ op' = RestoreNext(op)
       /\ UNCHANGED <<snaps, state, latest, writes, faults, taken, drift>>

\* The restart command and the health check settle the rollback; a failed copy settles it too.
EndRollback(status) == /\ state' = [id |-> op.id, status |-> status]
                       /\ op' = Idle
                       /\ UNCHANGED <<asset, snaps, latest, writes, taken, drift>>

Verify == op.at = "health" /\ (EndRollback("success") \/ EndRollback("failed")) /\ UNCHANGED faults

FailRestore == /\ faults < MaxFaults /\ op.at \in {"restore", "fill"}
               /\ EndRollback("failed")
               /\ faults' = faults + 1

\* The command dies, or a step of the preparation throws.
Die == /\ faults < MaxFaults /\ op # Idle
       /\ op' = Idle
       /\ faults' = faults + 1
       /\ UNCHANGED <<asset, snaps, state, latest, writes, taken, drift>>

\* The application writes one of its files.
AppWrite(a) == /\ writes < MaxWrites
               /\ asset' = [asset EXCEPT ![a] = writes + 2]
               /\ writes' = writes + 1
               /\ drift' = drift \cup {a}
               /\ UNCHANGED <<snaps, state, latest, op, faults, taken>>

Next == \/ \E drill \in BOOLEAN : PrepareBlocked(drill) \/ Prepare(drill)
        \/ CopyAsset \/ WriteMetadata \/ WriteManifest
        \/ \E s \in snaps : Rollback(s)
        \/ StartRollback \/ RestoreAsset \/ Verify \/ FailRestore \/ Die
        \/ \E a \in AssetSet : AppWrite(a)

Spec == Init /\ [][Next]_vars

(***************************************************************************)
(* Properties.                                                              *)
(***************************************************************************)

TypeOK == /\ asset \in [AssetSet -> 0..(MaxWrites + 1)]
          /\ \A s \in snaps : s.id.n \in DOMAIN taken /\ s.complete \in BOOLEAN
          /\ state.status \in {"none", "in_progress", "success", "failed"}
          /\ latest.status \in {"none", "blocked", "ready"}
          /\ op.i \in DOMAIN Assets

\* A rollback recorded as a success restored everything its snapshot held - also after rollbacks
\* that died half-way and were run again, or were followed by one of another snapshot that died -
\* but for what the application wrote since it began.
RollbackComplete ==
    state.status = "success" =>
        \A a \in AssetSet \ drift : taken[state.id.n][a] \in {Absent, asset[a]}

\* The release that latest.json calls ready can be rolled back to: the snapshots that are pruned, in
\* the order of their names, never include the one just taken.  A command that died voids this: it may
\* have pruned and not written its manifest, or left a directory that counts.
ReadyHasSnapshot ==
    latest.status = "ready" /\ op.at \notin {"copy", "metadata", "manifest"} =>
        \/ [id |-> latest.id, complete |-> TRUE] \in snaps
        \/ faults > 0
=============================================================================
