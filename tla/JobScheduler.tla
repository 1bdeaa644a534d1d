---------------------------- MODULE JobScheduler ----------------------------
(***************************************************************************)
(* Background jobs (services/job-scheduler.ts) and the alerts they raise    *)
(* (services/proactive-notifier.ts, wired in index.ts).  Cron fires a job   *)
(* whether or not its last run is over, so runs of a job overlap; a run     *)
(* keeps the entry it was started with, which may have been stopped or      *)
(* unregistered since.  A run awaits the log, the handler, and after a      *)
(* failure the log again before it tells the listeners.                     *)
(***************************************************************************)
EXTENDS Naturals, FiniteSets

CONSTANTS Jobs, Runs,    \* a run's slot is used again when the run is over
          MaxChanges,    \* bound: calls of register, unregister, start and stop
          MaxRuns,       \* bound: runs
          MaxFaults      \* bound: handlers and log entries that fail

VARIABLES job,           \* #jobs: by id, the entry; its number tells it from the entries before
          run,
          enabled,       \* the notifier's switch
          changes, runs, faults,
          failed, alerted, missed   \* history, by job: failures, and those that were or could not be reported
vars == <<job, run, enabled, changes, runs, faults, failed, alerted, missed>>

NoRun == [at |-> "none", job |-> "none", entry |-> 0]
Zero == [j \in Jobs |-> 0]

Init == /\ job = [j \in Jobs |-> [registered |-> FALSE, task |-> FALSE, status |-> "idle", error |-> FALSE, entry |-> 0]]
        /\ run = [r \in Runs |-> NoRun]
        /\ enabled = TRUE
        /\ changes = 0 /\ runs = 0 /\ faults = 0
        /\ failed = Zero /\ alerted = Zero /\ missed = Zero

(***************************************************************************)
(* The calls.                                                               *)
(***************************************************************************)

Change == changes < MaxChanges /\ changes' = changes + 1
KeepRuns == UNCHANGED <<run, enabled, runs, faults, failed, alerted, missed>>

\* register throws when the id is taken.
Register(j, autoStart) ==
    /\ Change /\ ~job[j].registered
    /\ job' = [job EXCEPT ![j] = [registered |-> TRUE, task |-> autoStart, status |-> "idle", error |-> FALSE,
                                  entry |-> @.entry + 1]]
    /\ KeepRuns

Unregister(j) == /\ Change /\ job[j].registered
                 /\ job' = [job EXCEPT ![j].registered = FALSE, ![j].task = FALSE]
                 /\ KeepRuns

\* start and startAll do nothing when the task is there, stop and stopAll when it is not.
Started(e) == IF e.registered /\ ~e.task THEN [e EXCEPT !.task = TRUE, !.status = "idle"] ELSE e
Stopped(e) == IF e.registered /\ e.task THEN [e EXCEPT !.task = FALSE, !.status = "stopped"] ELSE e

Start(js) == /\ Change /\ \A j \in js : job[j].registered
             /\ job' = [j \in Jobs |-> IF j \in js THEN Started(job[j]) ELSE job[j]]
             /\ KeepRuns

Stop(js) == /\ Change /\ \A j \in js : job[j].registered
            /\ job' = [j \in Jobs |-> IF j \in js THEN Stopped(job[j]) ELSE job[j]]
            /\ KeepRuns

SetEnabled == /\ Change
              /\ enabled' = ~enabled
              /\ UNCHANGED <<job, run, runs, faults, failed, alerted, missed>>

(***************************************************************************)
(* A run.  It writes to the entry it began with, if that is still the one.  *)
(***************************************************************************)

\* The entry of run r is still registered, or was the last one.
Mine(r) == job[run[r].job].entry = run[r].entry
Mark(r, status, error) ==
    job' = IF Mine(r) THEN [job EXCEPT ![run[r].job].status = status, ![run[r].job].error = error] ELSE job
Go(r, at) == run' = [run EXCEPT ![r].at = at]
Leave(r) == run' = [run EXCEPT ![r] = NoRun]
Count(f, r) == [f EXCEPT ![run[r].job] = @ + 1]
KeepCalls == UNCHANGED <<enabled, changes>>

KeepHistory == UNCHANGED <<failed, alerted, missed>>

Fire(r, j) == /\ run[r] = NoRun /\ runs < MaxRuns /\ job[j].task
              /\ runs' = runs + 1
              /\ job' = [job EXCEPT ![j].status = "running"]
              /\ run' = [run EXCEPT ![r] = [at |-> "log", job |-> j, entry |-> job[j].entry]]
              /\ UNCHANGED faults /\ KeepHistory /\ KeepCalls

RunHandler(r) == /\ run[r].at = "log"
                 /\ Go(r, "handler")
                 /\ UNCHANGED <<job, runs, faults>> /\ KeepHistory /\ KeepCalls

Done(r) == /\ run[r].at = "handler"
           /\ Mark(r, "idle", FALSE)
           /\ Leave(r)
           /\ UNCHANGED <<runs, faults>> /\ KeepHistory /\ KeepCalls

Fault == faults < MaxFaults /\ faults' = faults + 1

\* The handler, or the log entry before it, fails.
Fail(r) == /\ Fault /\ run[r].at \in {"log", "handler"}
           /\ Mark(r, "error", TRUE)
           /\ Go(r, "failed")
           /\ failed' = Count(failed, r)
           /\ UNCHANGED <<runs, alerted, missed>> /\ KeepCalls

\* The failure is logged: the listeners are told, and the notifier logs and sends an alert.
ReportIfShown(r) == /\ run[r].at = "failed"
                    /\ IF enabled /\ Mine(r) /\ job[run[r].job].status = "error"
                       THEN Go(r, "alert") /\ UNCHANGED missed
                       ELSE Leave(r) /\ missed' = IF enabled THEN missed ELSE Count(missed, r)
                    /\ UNCHANGED <<job, runs, faults, failed, alerted>> /\ KeepCalls
Report(r) == /\ run[r].at = "failed"
             /\ IF enabled THEN Go(r, "alert") /\ UNCHANGED missed ELSE Leave(r) /\ missed' = Count(missed, r)
             /\ UNCHANGED <<job, runs, faults, failed, alerted>> /\ KeepCalls

Alert(r) == /\ run[r].at = "alert"
            /\ alerted' = Count(alerted, r)
            /\ Leave(r)
            /\ UNCHANGED <<job, runs, faults, failed, missed>> /\ KeepCalls

\* That log entry fails and nobody is told, or the sending of the alert does.
Unreported(r) == /\ Fault /\ run[r].at \in {"failed", "alert"}
                 /\ missed' = Count(missed, r)
                 /\ Leave(r)
                 /\ UNCHANGED <<job, runs, failed, alerted>> /\ KeepCalls

Next == \/ \E j \in Jobs : \/ \E auto \in BOOLEAN : Register(j, auto)
                           \/ Unregister(j) \/ Start({j}) \/ Stop({j})
                           \/ \E r \in Runs : Fire(r, j)
        \/ Start({j \in Jobs : job[j].registered})
        \/ Stop({j \in Jobs : job[j].registered})
        \/ SetEnabled
        \/ \E r \in Runs : RunHandler(r) \/ Done(r) \/ Fail(r) \/ Report(r) \/ Alert(r) \/ Unreported(r)

Spec == Init /\ [][Next]_vars

(***************************************************************************)
(* Properties.                                                              *)
(***************************************************************************)

TypeOK == /\ \A j \in Jobs : job[j].status \in {"idle", "running", "error", "stopped"}
          /\ \A r \in Runs : run[r].at \in {"none", "log", "handler", "failed", "alert"}
          /\ changes \in 0..MaxChanges /\ runs \in 0..MaxRuns /\ faults \in 0..MaxFaults

\* What listJobs and the alerts tell, whatever runs overlap and whatever was stopped or registered
\* anew meanwhile: a job shown running has a run of this registration under way, a job that
\* will fire is never shown stopped, and every failure is reported once, unless its log entry
\* or its message fails or the notifier is off.
Running(j) == {r \in Runs : run[r].job = j /\ run[r].at \in {"log", "handler"} /\ Mine(r)}
Failing(j) == {r \in Runs : run[r].job = j /\ run[r].at \in {"failed", "alert"}}
JobsSafe == \A j \in Jobs : /\ job[j].status = "running" => Running(j) # {}
                            /\ job[j].task => job[j].registered /\ job[j].status # "stopped"
                            /\ failed[j] = alerted[j] + missed[j] + Cardinality(Failing(j))
=============================================================================
