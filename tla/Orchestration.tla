---------------------------- MODULE Orchestration ----------------------------
(***************************************************************************)
(* The delegation runtime: OrchestrationService                            *)
(* (services/orchestration-service.ts) running dependency graphs of jobs   *)
(* with the executor the gateway passes it (core/gateway.ts,               *)
(* #executeDelegatedJob).                                                  *)
(*                                                                         *)
(* Several runDelegation calls, one per conversation turn, interleave at   *)
(* their awaits and share the circuit breaker.  One action is one stretch  *)
(* of code between awaits.                                                 *)
(***************************************************************************)
EXTENDS Integers, FiniteSets

CONSTANTS
    Delegations,    \* the runDelegation calls
    Nodes,          \* node ids, in the order of localeCompare
    Requests,       \* d |-> the graphs call d may be given
    MaxConcurrent,  \* maxConcurrentJobs
    MaxRetry,       \* maxRetryAttempts
    Threshold,      \* failureCircuitBreakerThreshold
    MaxGraphNodes, MaxGraphDepth,
    MaxCancels      \* bound: calls of cancel()

\* A request: the node ids of its briefs and the dependsOn of each.
IsRequest(r) == r.nodes \subseteq Nodes /\ r.deps \in [Nodes -> SUBSET Nodes]

ASSUME OrchestrationAssumption ==
    /\ Nodes \subseteq Nat /\ IsFiniteSet(Nodes)
    /\ \A d \in Delegations : \A r \in Requests[d] : IsRequest(r)
    /\ MaxConcurrent \in Nat \ {0} /\ MaxRetry \in Nat /\ Threshold \in Nat \ {0}
    /\ MaxGraphNodes \in Nat \ {0} /\ MaxGraphDepth \in Nat \ {0}
    /\ MaxCancels \in Nat

VARIABLES
    run,       \* d |-> the state of the call: see Runs
    calls,     \* executor calls under way, <<d, n, attempt>>, awaited or not
    failures,  \* #consecutiveFailures
    cancels    \* history: the jobs cancel() was called on, <<d, n>>

vars == <<run, calls, failures, cancels>>

-----------------------------------------------------------------------------
(* Jobs and calls.                                                         *)

Terminal == {"completed", "failed", "cancelled"}

Jobs == [state : {"none", "queued", "running"} \cup Terminal,
         attempt : Nat \ {0},
         aborted : BOOLEAN]          \* abortController.signal.aborted

NoJob     == [state |-> "none", attempt |-> 1, aborted |-> FALSE]
QueuedJob == [NoJob EXCEPT !.state = "queued"]

\* What the batch's Promise.all knows of a job; "none" is a job not in it.
Outcomes == {"none", "executing", "retry", "settled"}

Statuses == {"idle",      \* not called yet
             "awaiting",  \* in the Promise.all of a batch
             "done",      \* returned its report
             "blocked",   \* returned at once: the circuit breaker is open
             "rejected",  \* threw in #buildGraph, before any job was created
             "threw"}     \* threw later, on an illegal transition

Runs == [status  : Statuses,
         nodes   : SUBSET Nodes,
         deps    : [Nodes -> SUBSET Nodes],
         jobs    : [Nodes -> Jobs],
         unmet   : [Nodes -> SUBSET Nodes],   \* unmetDependencies
         pending : SUBSET Nodes,              \* pendingNodes
         wave    : SUBSET Nodes,              \* ready jobs left for later chunks
         outcome : [Nodes -> Outcomes]]

BreakerOpen == failures >= Threshold

State(g, n)   == g.jobs[n].state
Attempting(g) == {n \in Nodes : g.outcome[n] = "executing"}

\* The executor call that job n of call d awaits, if it was made.
CallOf(d, n) == <<d, n, run[d].jobs[n].attempt>>

-----------------------------------------------------------------------------
(* #buildGraph: the validation.                                            *)

\* Mutant of Peeled: a node needs one of its dependencies ordered, not all.
PeeledAny(r) ==
    LET P[k \in 0 .. Cardinality(Nodes)] ==
            IF k = 0 THEN {n \in r.nodes : r.deps[n] = {}}
            ELSE LET done == P[k - 1]
                 IN  done \cup {n \in r.nodes : r.deps[n] \cap done # {}}
    IN  P

\* Kahn's algorithm, a layer at a time: the nodes ordered after k rounds are
\* those whose depth (#computeGraphDepth) is at most k.
Peeled(r) ==
    LET P[k \in 0 .. Cardinality(Nodes)] ==
            IF k = 0 THEN {}
            ELSE LET done == P[k - 1] IN {n \in r.nodes : r.deps[n] \subseteq done}
    IN  P

Least(a, b) == IF a <= b THEN a ELSE b

\* No error of #buildGraph, #topologicalSort and #computeGraphDepth.
Admissible(r) ==
    /\ Cardinality(r.nodes) <= MaxGraphNodes
    /\ \A n \in r.nodes : n \notin r.deps[n] /\ r.deps[n] \subseteq r.nodes
    /\ Peeled(r)[Cardinality(r.nodes)] = r.nodes
    /\ Peeled(r)[Least(MaxGraphDepth, Cardinality(r.nodes))] = r.nodes

-----------------------------------------------------------------------------
(* #runGraph, on the record g of a call.                                   *)

\* The jobs of S become cancelled, but for the terminal ones.
WithCancelled(g, S) ==
    [g EXCEPT !.jobs = [n \in Nodes |->
        IF n \in S /\ State(g, n) \notin Terminal
        THEN [g.jobs[n] EXCEPT !.state = "cancelled"]
        ELSE g.jobs[n]]]

\* Mutant of Ready: the unmet dependencies are not looked at.
ReadyUnchecked(g) == {n \in g.pending : State(g, n) = "queued"}

\* #selectReadyJobs
Ready(g) == {n \in g.pending : State(g, n) = "queued" /\ g.unmet[n] = {}}

\* The first chunk of the sorted jobs S.
Chunk(S) == {n \in S : Cardinality({m \in S : m < n}) < MaxConcurrent}

\* Mutant of Launched: the chunk's jobs are started with the breaker open.
LaunchedUnguarded(g, S) ==
    [g EXCEPT !.status = "awaiting",
              !.jobs = [n \in Nodes |-> IF n \in Chunk(S)
                                        THEN [g.jobs[n] EXCEPT !.state = "running"]
                                        ELSE g.jobs[n]],
              !.wave = S \ Chunk(S),
              !.outcome = [n \in Nodes |->
                  IF n \in Chunk(S) THEN "executing" ELSE "none"]]

(* The batch.map(#executeGraphJob) of the first chunk of S, up to the      *)
(* await: with the breaker open its jobs are cancelled, otherwise they     *)
(* run.  A job cancelled since it was selected makes #transition throw:    *)
(* the call ends there, while the other jobs of the chunk run on.          *)
Launched(g, S) ==
    LET chunk   == Chunk(S)
        started == {n \in chunk : State(g, n) = "queued"}
    IN  [g EXCEPT !.status = IF started = chunk THEN "awaiting" ELSE "threw",
                  !.jobs = [n \in Nodes |->
                      IF n \in started
                      THEN [g.jobs[n] EXCEPT !.state =
                               IF BreakerOpen THEN "cancelled" ELSE "running"]
                      ELSE g.jobs[n]],
                  !.wave = S \ chunk,
                  !.outcome = [n \in Nodes |->
                      IF n \notin started THEN "none"
                      ELSE IF BreakerOpen THEN "settled" ELSE "executing"]]

\* Mutant of NextRound: no return when nothing is ready.
NextRoundEndless(g) ==
    IF g.pending # {} /\ ~BreakerOpen
    THEN Launched(g, Ready(g))
    ELSE [WithCancelled(g, g.pending) EXCEPT
             !.status = "done", !.pending = {},
             !.outcome = [n \in Nodes |-> "none"]]

\* The head of #runGraph's loop: return, or launch the next ready jobs.
NextRound(g) ==
    IF g.pending # {} /\ ~BreakerOpen /\ Ready(g) # {}
    THEN Launched(g, Ready(g))
    ELSE [WithCancelled(g, g.pending) EXCEPT
             !.status = "done", !.pending = {},
             !.outcome = [n \in Nodes |-> "none"]]

(* #cancelDependents: the pending nodes dropped when the nodes of B did    *)
(* not complete, the least set that has the dependents of B and of every   *)
(* job it cancels.  The search does not go past a job that is terminal.    *)
Dropped(g, B) ==
    LET Cancels(C) == {n \in C : State(g, n) \notin Terminal}
        Closed(C)  == \A n \in g.pending :
                          g.deps[n] \cap (B \cup Cancels(C)) # {} => n \in C
    IN  {n \in g.pending : \A C \in SUBSET g.pending : Closed(C) => n \in C}

\* Mutant of Processed: a job that did not complete releases its dependents.
ProcessedReleasing(g) ==
    LET settled == {n \in Nodes : g.outcome[n] = "settled"}
    IN  [g EXCEPT !.pending = g.pending \ settled,
                  !.unmet = [n \in Nodes |-> g.unmet[n] \ settled]]

\* Mutant of Processed: a failure cancels all that is pending.
ProcessedFailFast(g) ==
    LET settled   == {n \in Nodes : g.outcome[n] = "settled"}
        completed == {n \in settled : State(g, n) = "completed"}
        left      == [g EXCEPT !.pending = g.pending \ settled,
                               !.unmet = [n \in Nodes |-> g.unmet[n] \ completed]]
    IN  IF settled = completed THEN left
        ELSE [WithCancelled(left, left.pending) EXCEPT !.pending = {}]

(* The outcomes of a batch.  They are processed in order, but no job of a  *)
(* batch depends on another, so the order makes no difference.             *)
Processed(g) ==
    LET settled   == {n \in Nodes : g.outcome[n] = "settled"}
        completed == {n \in settled : State(g, n) = "completed"}
        left      == [g EXCEPT !.pending = g.pending \ settled]
        dropped   == Dropped(left, settled \ completed)
        cancelled == WithCancelled(left, dropped)
    IN  [cancelled EXCEPT
            !.pending = left.pending \ dropped,
            !.unmet = [n \in Nodes |-> IF n \in left.pending
                                       THEN g.unmet[n] \ completed
                                       ELSE g.unmet[n]]]

\* The executor calls made when g is the new record of call d.  On a signal
\* that is already aborted the executor throws before it calls the router.
CallsMade(d, g) ==
    {<<d, n, g.jobs[n].attempt>> :
        n \in {m \in Attempting(g) : ~g.jobs[m].aborted}}

-----------------------------------------------------------------------------
(* Actions.                                                                *)

\* runDelegation, up to its first await
RunDelegation(d, r) ==
    /\ run[d].status = "idle"
    /\ LET given == [run[d] EXCEPT !.nodes = r.nodes, !.deps = r.deps]
           built == [given EXCEPT
                        !.jobs = [n \in Nodes |->
                            IF n \in r.nodes THEN QueuedJob ELSE NoJob],
                        !.unmet = [n \in Nodes |->
                            IF n \in r.nodes THEN r.deps[n] ELSE {}],
                        !.pending = r.nodes]
       IN  \E g \in {IF r.nodes = {} THEN [given EXCEPT !.status = "done"]
                     ELSE IF BreakerOpen THEN [given EXCEPT !.status = "blocked"]
                     ELSE IF ~Admissible(r) THEN [given EXCEPT !.status = "rejected"]
                     ELSE NextRound(built)} :
               /\ run' = [run EXCEPT ![d] = g]
               /\ calls' = calls \cup CallsMade(d, g)
    /\ UNCHANGED <<failures, cancels>>

\* The Promise.all of a batch resolves: its outcomes, then the next chunk of
\* the wave or the next round.
Resume(d) ==
    /\ run[d].status = "awaiting" /\ Attempting(run[d]) = {}
    /\ \E p \in {Processed(run[d])} :
       \E g \in {IF p.wave # {} THEN Launched(p, p.wave) ELSE NextRound(p)} :
               /\ run' = [run EXCEPT ![d] = g]
               /\ calls' = calls \cup CallsMade(d, g)
    /\ UNCHANGED <<failures, cancels>>

\* The executor returned: the try block of #executeJob.
Finish(d, n) ==
    /\ n \in Attempting(run[d]) /\ CallOf(d, n) \in calls
    /\ ~run[d].jobs[n].aborted
    /\ calls' = calls \ {CallOf(d, n)}
    /\ run' = [run EXCEPT ![d].jobs[n].state = "completed",
                          ![d].outcome[n] = "settled"]
    /\ failures' = 0
    /\ UNCHANGED cancels

\* Mutant of AttemptFails: one retry too many.
AttemptFailsOffByOne(d, n, abort) ==
    LET job   == [run[d].jobs[n] EXCEPT !.aborted = @ \/ abort]
        again == job.attempt <= MaxRetry + 1
    IN  /\ run' = [run EXCEPT
                      ![d].jobs[n] = IF again
                                     THEN [job EXCEPT !.state = "queued", !.attempt = @ + 1]
                                     ELSE [job EXCEPT !.state = "failed"],
                      ![d].outcome[n] = IF again THEN "retry" ELSE "settled"]
        /\ failures' = IF again THEN failures ELSE failures + 1

(* The catch block of #executeJob.  For a job cancelled meanwhile both     *)
(* transitions are illegal: the whole call throws.                         *)
AttemptFails(d, n, abort) ==
    LET job     == [run[d].jobs[n] EXCEPT !.aborted = @ \/ abort]
        again   == job.attempt <= MaxRetry
        counted == [job EXCEPT !.attempt = IF again THEN @ + 1 ELSE @]
    IN  IF job.state = "cancelled"
        THEN /\ run' = [run EXCEPT ![d].jobs[n] = counted,
                                   ![d].outcome[n] = "none",
                                   ![d].status = "threw"]
             /\ UNCHANGED failures
        ELSE /\ run' = [run EXCEPT
                           ![d].jobs[n] = [counted EXCEPT
                               !.state = IF again THEN "queued" ELSE "failed"],
                           ![d].outcome[n] = IF again THEN "retry" ELSE "settled"]
             /\ failures' = IF again THEN failures ELSE failures + 1

\* The executor call threw.
Reject(d, n) ==
    /\ n \in Attempting(run[d]) /\ CallOf(d, n) \in calls
    /\ calls' = calls \ {CallOf(d, n)}
    /\ AttemptFails(d, n, FALSE)
    /\ UNCHANGED cancels

\* The timer of #executeWithTimeout fires first: the signal is aborted and
\* the executor call, which nobody awaits any more, goes on.
Timeout(d, n) ==
    /\ n \in Attempting(run[d]) /\ CallOf(d, n) \in calls
    /\ AttemptFails(d, n, TRUE)
    /\ UNCHANGED <<calls, cancels>>

\* The executor refuses an attempt whose signal an earlier timeout aborted:
\* a job has one AbortController for all its attempts.
Refuse(d, n) ==
    /\ n \in Attempting(run[d]) /\ CallOf(d, n) \notin calls
    /\ AttemptFails(d, n, FALSE)
    /\ UNCHANGED <<calls, cancels>>

\* A call that nobody awaits returns or throws.
AbandonedEnds(c) ==
    /\ c \in calls
    /\ c[2] \notin Attempting(run[c[1]]) \/ c # CallOf(c[1], c[2])
    /\ calls' = calls \ {c}
    /\ UNCHANGED <<run, failures, cancels>>

\* cancel(jobId): public, with no caller in the repository
Cancel(d, n) ==
    /\ State(run[d], n) \in {"queued", "running"}
    /\ Cardinality(cancels) < MaxCancels
    /\ run' = [run EXCEPT ![d].jobs[n] =
                  [@ EXCEPT !.state = "cancelled", !.aborted = TRUE]]
    /\ cancels' = cancels \cup {<<d, n>>}
    /\ UNCHANGED <<calls, failures>>

-----------------------------------------------------------------------------
NoRun == [status  |-> "idle",
          nodes   |-> {},
          deps    |-> [n \in Nodes |-> {}],
          jobs    |-> [n \in Nodes |-> NoJob],
          unmet   |-> [n \in Nodes |-> {}],
          pending |-> {},
          wave    |-> {},
          outcome |-> [n \in Nodes |-> "none"]]

Init ==
    /\ run = [d \in Delegations |-> NoRun]
    /\ calls = {}
    /\ failures = 0
    /\ cancels = {}

Step(d) ==
    \/ \E r \in Requests[d] : RunDelegation(d, r)
    \/ Resume(d)
    \/ \E n \in Nodes :
          \/ Finish(d, n)
          \/ Reject(d, n)
          \/ Timeout(d, n)
          \/ Refuse(d, n)
          \/ Cancel(d, n)

Next ==
    \/ \E d \in Delegations : Step(d)
    \/ \E c \in calls : AbandonedEnds(c)

Spec == Init /\ [][Next]_vars

(* Promise continuations run, timers fire, and an executor that throws at  *)
(* once does so.  Router calls need not return.                            *)
Fairness ==
    \A d \in Delegations :
        /\ WF_vars(Resume(d))
        /\ \A n \in Nodes : WF_vars(Timeout(d, n)) /\ WF_vars(Refuse(d, n))

FairSpec == Spec /\ Fairness

-----------------------------------------------------------------------------
(* Properties *)

\* The types of the variables.  An awaited executor call is of a job that
\* Promise.all waits for, and only an aborted job has none.
TypeOK ==
    /\ run \in [Delegations -> Runs]
    /\ calls \subseteq Delegations \X Nodes \X (1 .. MaxRetry + 1)
    /\ failures \in Nat
    /\ cancels \subseteq Delegations \X Nodes
    /\ \A d \in Delegations : \A n \in Attempting(run[d]) :
          /\ \/ State(run[d], n) = "running"
             \/ /\ State(run[d], n) = "cancelled" /\ run[d].jobs[n].aborted
                /\ <<d, n>> \in cancels
          /\ CallOf(d, n) \in calls \/ run[d].jobs[n].aborted

\* "Execute jobs only when upstream dependencies complete successfully":
\* whatever batches, retries, cancellations and other calls interleave, a job
\* that runs or ran to completion has all its dependencies completed.
DependenciesFirst ==
    \A d \in Delegations : \A n \in run[d].nodes :
        State(run[d], n) \in {"running", "completed", "failed"} =>
            \A m \in run[d].deps[n] : State(run[d], m) = "completed"

\* "Never silently skip dependency failures": a call that returns its report
\* leaves every job terminal, and a job whose dependency did not complete is
\* reported cancelled.
NoFailureSkipped ==
    \A d \in Delegations : run[d].status = "done" =>
        \A n \in run[d].nodes :
            /\ State(run[d], n) \in Terminal
            /\ (\E m \in run[d].deps[n] : State(run[d], m) # "completed") =>
                   State(run[d], n) = "cancelled"

\* Failures spread along dependencies only: the service cancels a job while the
\* breaker is closed only when a dependency of it failed or was cancelled.  A
\* sibling's failure, a retry or another call never cancels it.
CancelledForACause ==
    [][\A d \in Delegations : \A n \in run'[d].nodes :
          State(run'[d], n) = "cancelled" /\ State(run[d], n) # "cancelled" =>
              \/ BreakerOpen \/ <<d, n>> \in cancels'
              \/ \E m \in run'[d].deps[n] :
                    State(run'[d], m) \in {"failed", "cancelled"}]_vars

\* runDelegation throws on an illegal transition only when somebody called
\* cancel() on one of its jobs: retries, timeouts and the breaker never make it.
ThrowsOnlyAfterCancel ==
    \A d \in Delegations :
        run[d].status = "threw" => \E n \in Nodes : <<d, n>> \in cancels

\* A dependency cycle, by definition: a set of nodes each waiting for another.
Cyclic(g) ==
    \E S \in (SUBSET g.nodes) \ {{}} : \A n \in S : g.deps[n] \cap S # {}

\* A chain of more than MaxGraphDepth nodes.
TooDeep(g) ==
    \E c \in [1 .. MaxGraphDepth + 1 -> g.nodes] :
        \A i \in 1 .. MaxGraphDepth : c[i] \in g.deps[c[i + 1]]

\* #buildGraph throws exactly for the graphs that have a cycle, a missing node,
\* too many nodes or too long a chain; the in-degree count and the one-pass
\* depth over the topological order agree with those definitions.
AdmissionExact ==
    \A d \in Delegations : run[d].status \notin {"idle", "blocked"} =>
        (run[d].status = "rejected" <=>
            \/ Cyclic(run[d]) \/ TooDeep(run[d])
            \/ \E n \in run[d].nodes : ~(run[d].deps[n] \subseteq run[d].nodes)
            \/ Cardinality(run[d].nodes) > MaxGraphNodes)

\* The breaker latches: while it is open no executor is called, and once no
\* attempt of any call is under way it never closes again.
BreakerLatches ==
    [][BreakerOpen =>
          /\ calls' \subseteq calls
          /\ (\A d \in Delegations : Attempting(run[d]) = {}) => BreakerOpen']_vars

\* Every call comes to an end: it returns its report or throws, even when no
\* executor call ever returns.
EveryCallEnds ==
    \A d \in Delegations : run[d].status = "awaiting" ~> run[d].status # "awaiting"

\* "Enforce hard safety limits (max concurrent agents ...)": a call has at most
\* MaxConcurrent executor calls under way.
AgentsBounded ==
    \A d \in Delegations : Cardinality({c \in calls : c[1] = d}) <= MaxConcurrent

=============================================================================
