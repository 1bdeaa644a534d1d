---------------------------- MODULE DeliveryQueue ----------------------------
(***************************************************************************)
(* The persistent outbound delivery queue: QueueService                    *)
(* (services/queue-service.ts) over the tables delivery_queue and          *)
(* delivery_attempts (services/db.ts), with the two outsiders that write   *)
(* the same rows: the webhook reconciliation (api/handlers/callback.ts)    *)
(* and the replay endpoint (api/router.ts).                                *)
(*                                                                         *)
(* JavaScript runs to completion between two awaits, so one action is one  *)
(* stretch of code between awaits.  Several processQueue() calls overlap   *)
(* (the cron job of every two seconds and a timer per enqueue and replay): *)
(* each is one Poll step that hands a batch to dispatchFn, and one Settle  *)
(* step per job when its dispatchFn promise settles.                       *)
(***************************************************************************)
EXTENDS Integers, Sequences, FiniteSets, Functions

CONSTANTS
    Ids,               \* delivery ids (randomUUID), one per enqueue()
    MaxAttempts,       \* QueueServiceOptions.maxAttempts
    Backoff,           \* k |-> baseDelayMs * backoffFactor ** (k - 1)
    MaxDelay,          \* QueueServiceOptions.maxDelayMs
    BatchSize,         \* QueueServiceOptions.batchSize
    DayLength,         \* clock units in a UTC day
    Multipliers,       \* retry window multipliers in use, in halves (1 is 0.5x)
    Modes,             \* processing modes the incident manager sets
    CallbackStatuses,  \* statuses the webhook delivers for queued rows
    ReplayStates,      \* states of the rows operators ask to replay
    MaxReopened,       \* bound: replays and failed callbacks
    MaxCrashes         \* bound: process restarts

RowStates == {"queued", "dispatching", "sent", "failed", "dead_letter"}

ASSUME QueueAssumption ==
    /\ MaxAttempts \in Nat \ {0}
    /\ BatchSize \in Nat \ {0}
    /\ DayLength \in Nat \ {0}
    /\ MaxDelay \in 0 .. DayLength
    /\ Backoff \in [1 .. MaxAttempts -> Nat]
    /\ Multipliers \subseteq 1 .. 12 /\ 2 \in Multipliers
    /\ Modes \subseteq {"normal", "throttled", "drain"} /\ "normal" \in Modes
    /\ CallbackStatuses \subseteq {"completed", "failed", "progress"}
    /\ ReplayStates \subseteq RowStates
    /\ MaxReopened \in Nat /\ MaxCrashes \in Nat

VARIABLES
    row,       \* delivery_queue: id |-> its columns
    log,       \* delivery_attempts: id |-> its attempts, oldest first
    inflight,  \* <<id, i>>: a #processJob awaits dispatchFn for attempt i of id
    mode,      \* #processingMode
    window,    \* #retryWindowMultiplier, in halves
    now,       \* seconds of the UTC day
    reopened,  \* history: replays and failed callbacks of each row
    touched,   \* history: rows an outsider wrote while the queue owned them
    crashes    \* history: restarts so far

tables  == <<row, log>>
control == <<mode, window>>
history == <<reopened, touched>>
vars    == <<row, log, inflight, mode, window, now, reopened, touched, crashes>>

-----------------------------------------------------------------------------
(* Timestamps.  SQLite writes CURRENT_TIMESTAMP as 'YYYY-MM-DD HH:MM:SS'    *)
(* and the service writes toISOString(), 'YYYY-MM-DDTHH:MM:SS.mmmZ'.  The   *)
(* column is compared as text: within a day a blank sorts before a 'T'     *)
(* whatever the time.  A timestamp is kept relative to today: its day is -1 *)
(* for any earlier day, 0 for today and 1 for tomorrow (a delay is shorter *)
(* than a day).                                                             *)

Timestamps == [day : {-1, 0, 1}, sec : 0 .. DayLength - 1, iso : BOOLEAN]

SqlNow == [day |-> 0, sec |-> now, iso |-> FALSE]

\* new Date(Date.now() + d).toISOString()
IsoAfter(d) ==
    IF now + d < DayLength
    THEN [day |-> 0, sec |-> now + d, iso |-> TRUE]
    ELSE [day |-> 1, sec |-> now + d - DayLength, iso |-> TRUE]

\* Mutant of TextLeq: the date is ignored.
TextLeqByTime(s, t) == IF s.iso = t.iso THEN s.sec <= t.sec ELSE t.iso

\* s <= t on the column's text.  Earlier days are not told apart: any order.
TextLeq(s, t) ==
    \/ s.day = -1
    \/ s.day < t.day
    \/ /\ s.day = t.day
       /\ IF s.iso = t.iso THEN s.sec <= t.sec ELSE t.iso

\* The instant t stands for is not in the future.
Elapsed(t) == t.day = -1 \/ (t.day = 0 /\ t.sec <= now)

Yesterday(t) == [t EXCEPT !.day = IF t.day = 1 THEN 0 ELSE -1]

-----------------------------------------------------------------------------
(* Rows, attempts and the jobs in flight.                                  *)

Rows == [state : RowStates \cup {"absent"}, attempts : Nat,
         next : Timestamps, resolved : BOOLEAN]

Attempts == [number : Nat \ {0}, outcome : {"open", "ok", "error"}]

\* Mutant of Pending: a sent row can be dequeued.
PendingOrSent(r) == row[r].state \in {"queued", "failed", "sent"}

Exists(r)  == row[r].state # "absent"
Pending(r) == row[r].state \in {"queued", "failed"}

FlightsOf(r) == {f \in inflight : f[1] = r}

\* The bound on the outsiders' writes that make a row pending again.
MayReopen == FoldFunction(+, 0, reopened) < MaxReopened

\* A row marked 'dispatching' that no #processJob works on.
Stranded(r) == row[r].state = "dispatching" /\ FlightsOf(r) = {}

Least(a, b)    == IF a <= b THEN a ELSE b
Greatest(a, b) == IF a <= b THEN b ELSE a

\* Mutant of ResolveBatchSize: no floor of one row.
ResolveBatchSizeNoFloor ==
    IF mode = "throttled" THEN BatchSize \div 2 ELSE BatchSize

\* #resolveBatchSize
ResolveBatchSize ==
    CASE mode = "throttled" -> Greatest(1, BatchSize \div 2)
      [] mode = "drain"     -> Least(BatchSize * 2, 100)
      [] OTHER              -> BatchSize

RetryDelay(k) == Least((Backoff[k] * window) \div 2, MaxDelay)

\* updateDeliveryState(id, state, resolvedAt) on the columns c of a row
WithState(c, state, resolved) == [c EXCEPT !.state = state, !.resolved = resolved]

\* updateDeliveryAttempts(id, attempts, nextAttemptAt)
WithAttempts(c, attempts, next) == [c EXCEPT !.attempts = attempts, !.next = next]

-----------------------------------------------------------------------------
(* enqueue: the row is due at once; id is fresh.                           *)
Enqueue(r) ==
    /\ ~Exists(r)
    /\ row' = [row EXCEPT ![r] = [state |-> "queued", attempts |-> 0,
                                  next |-> SqlNow, resolved |-> FALSE]]
    /\ UNCHANGED <<log, inflight, control, now, history, crashes>>

\* What dequeueDeliveries selects: pending and due by the text comparison.
Due(r) == Pending(r) /\ TextLeq(row[r].next, SqlNow)

DueRows == {r \in Ids : Due(r)}

\* ORDER BY next_attempt_at LIMIT n; rows of the same key come in any order.
Batches ==
    {b \in SUBSET DueRows :
        /\ Cardinality(b) = Least(ResolveBatchSize, Cardinality(DueRows))
        /\ \A r \in b, s \in DueRows \ b : TextLeq(row[r].next, row[s].next)}

\* Mutant of Taken: the row is counted but not marked.
TakenUnmarked(c) == [c EXCEPT !.attempts = @ + 1]

\* The dequeue transaction, on the columns of one row.
Taken(c) == [c EXCEPT !.state = "dispatching", !.attempts = @ + 1]

(* processQueue up to its await: the dequeue transaction, and for every    *)
(* row of the batch recordDeliveryAttemptStart and the call of dispatchFn. *)
Poll ==
    /\ \E b \in Batches \ {{}} :
        /\ row' = [r \in Ids |-> IF r \in b THEN Taken(row[r]) ELSE row[r]]
        /\ log' = [r \in Ids |->
                      IF r \in b
                      THEN Append(log[r], [number  |-> row[r].attempts + 1,
                                           outcome |-> "open"])
                      ELSE log[r]]
        /\ inflight' = inflight \cup {<<r, Len(log[r]) + 1>> : r \in b}
    /\ UNCHANGED <<control, now, history, crashes>>

\* Mutant of EndAttempt: whichever job ends, the row's last attempt is closed.
EndAttemptLatest(f, outcome) ==
    log' = [log EXCEPT ![f[1]][Len(log[f[1]])].outcome = outcome]

\* recordDeliveryAttemptEnd
EndAttempt(f, outcome) ==
    log' = [log EXCEPT ![f[1]][f[2]].outcome = outcome]

\* Mutant of Succeed: the attempt is closed, the row is not.
SucceedUnrecorded(f) ==
    /\ inflight' = inflight \ {f}
    /\ EndAttempt(f, "ok")
    /\ UNCHANGED <<row, control, now, history, crashes>>

\* dispatchFn resolved.
Succeed(f) ==
    /\ inflight' = inflight \ {f}
    /\ EndAttempt(f, "ok")
    /\ row' = [row EXCEPT ![f[1]] = WithState(@, "sent", TRUE)]
    /\ UNCHANGED <<control, now, history, crashes>>

\* Mutant of Fail: one attempt too many before the dead letter.
FailOffByOne(f) ==
    LET k == log[f[1]][f[2]].number IN
    /\ inflight' = inflight \ {f}
    /\ EndAttempt(f, "error")
    /\ row' = [row EXCEPT ![f[1]] =
                  IF k > MaxAttempts
                  THEN WithState(@, "dead_letter", TRUE)
                  ELSE WithState(WithAttempts(@, k, IsoAfter(RetryDelay(k))), "failed", FALSE)]
    /\ UNCHANGED <<control, now, history, crashes>>

\* dispatchFn rejected.  job.attempts is the number the dequeue returned.
Fail(f) ==
    LET k == log[f[1]][f[2]].number IN
    /\ inflight' = inflight \ {f}
    /\ EndAttempt(f, "error")
    /\ row' = [row EXCEPT ![f[1]] =
                  IF k >= MaxAttempts
                  THEN WithState(@, "dead_letter", TRUE)
                  ELSE WithState(WithAttempts(@, k, IsoAfter(RetryDelay(k))),
                                 "failed", FALSE)]
    /\ UNCHANGED <<control, now, history, crashes>>

Settle(r) == \E f \in FlightsOf(r) : Succeed(f) \/ Fail(f)

-----------------------------------------------------------------------------
(* POST /reliability/replay/:id -> requeueDeadLetter(id).  Nothing checks  *)
(* that the row is a dead letter.                                          *)
RequeueDeadLetter(r) ==
    /\ Exists(r) /\ row[r].state \in ReplayStates
    /\ MayReopen
    /\ row' = [row EXCEPT ![r] =
                  WithState(WithAttempts(@, 0, IsoAfter(0)), "queued", FALSE)]
    /\ reopened' = [reopened EXCEPT ![r] = @ + 1]
    /\ touched' = IF row[r].state = "dead_letter" THEN touched ELSE touched \cup {r}
    /\ UNCHANGED <<log, inflight, control, now, crashes>>

\* The state a webhook of this status leaves the row in.
ReconciledState(r, status) ==
    CASE status = "completed" -> "sent"
      [] status = "failed"    -> "failed"
      [] OTHER                -> row[r].state

\* The webhook's getDelivery and updateDeliveryState, with no await between.
Reconcile(r, status) ==
    /\ Exists(r)
    /\ status = "failed" => MayReopen
    /\ LET s == ReconciledState(r, status)
       IN  row' = [row EXCEPT ![r] = WithState(@, s, s = "sent")]
    /\ reopened' = IF status = "failed" THEN [reopened EXCEPT ![r] = @ + 1] ELSE reopened
    /\ touched' = IF status = "progress" THEN touched ELSE touched \cup {r}
    /\ UNCHANGED <<log, inflight, control, now, crashes>>

\* setProcessingMode, called by the incident manager's playbooks
SetProcessingMode(m) ==
    /\ mode' = m
    /\ UNCHANGED <<tables, inflight, window, now, history, crashes>>

\* setRetryWindowMultiplier
SetRetryWindowMultiplier(w) ==
    /\ window' = Least(12, Greatest(1, w))
    /\ UNCHANGED <<tables, inflight, mode, now, history, crashes>>

-----------------------------------------------------------------------------
\* The clock.  At midnight every stored date moves one day into the past.
Tick ==
    /\ IF now + 1 < DayLength
       THEN now' = now + 1 /\ UNCHANGED row
       ELSE /\ now' = 0
            /\ row' = [r \in Ids |-> [row[r] EXCEPT !.next = Yesterday(@)]]
    /\ UNCHANGED <<log, inflight, control, history, crashes>>

(* The process is killed (SIGINT and SIGTERM end in process.exit(0) too,   *)
(* without waiting for dispatches) and started again.  Tables survive; the *)
(* jobs in flight and the controls do not, and start() repairs no row.     *)
Restart ==
    /\ crashes < MaxCrashes
    /\ crashes' = crashes + 1
    /\ inflight' = {}
    /\ mode' = "normal" /\ window' = 2
    /\ UNCHANGED <<tables, now, history>>

-----------------------------------------------------------------------------
Init ==
    /\ row = [r \in Ids |-> [state |-> "absent", attempts |-> 0,
                             next |-> [day |-> -1, sec |-> 0, iso |-> FALSE],
                             resolved |-> FALSE]]
    /\ log = [r \in Ids |-> <<>>]
    /\ inflight = {}
    /\ mode = "normal" /\ window = 2
    /\ now \in 0 .. DayLength - 1
    /\ reopened = [r \in Ids |-> 0]
    /\ touched = {} /\ crashes = 0

\* The queue's own steps, and those of everything around it.
QueueNext ==
    \/ \E r \in Ids : Enqueue(r)
    \/ Poll
    \/ \E r \in Ids : Settle(r)
    \/ \E r \in Ids : RequeueDeadLetter(r)
    \/ \E m \in Modes : SetProcessingMode(m)
    \/ \E w \in Multipliers : SetRetryWindowMultiplier(w)
    \/ Tick
    \/ Restart

Next ==
    \/ QueueNext
    \/ \E r \in Ids, status \in CallbackStatuses : Reconcile(r, status)

Spec == Init /\ [][Next]_vars

(* The poller is a cron job, the clock runs, and a platform call returns   *)
(* or fails in the end.                                                    *)
Fairness ==
    /\ WF_vars(Poll)
    /\ WF_vars(Tick)
    /\ \A r \in Ids : WF_vars(Settle(r))

FairSpec == Spec /\ Fairness

-----------------------------------------------------------------------------
(* Properties *)

\* The types of the variables.  Every job in flight has an open attempt in
\* the log, and an attempt is closed when its job ends.
TypeOK ==
    /\ row \in [Ids -> Rows]
    /\ log \in [Ids -> Seq(Attempts)]
    /\ inflight \subseteq Ids \X (Nat \ {0})
    /\ \A f \in inflight :
          f[2] \in DOMAIN log[f[1]] /\ log[f[1]][f[2]].outcome = "open"
    /\ mode \in Modes /\ window \in 1 .. 12
    /\ now \in 0 .. DayLength - 1
    /\ reopened \in [Ids -> Nat]
    /\ touched \subseteq Ids
    /\ crashes \in 0 .. MaxCrashes

\* However many processQueue() calls overlap (cron, enqueue and replay timers),
\* a row nobody outside overwrote is in at most one dispatchFn call, the row is
\* marked 'dispatching' meanwhile, and its attempt column is that attempt's
\* number.  Replaying a dead letter keeps this.
OneDispatchAtATime ==
    \A f \in inflight :
        f[1] \notin touched =>
            /\ FlightsOf(f[1]) = {f}
            /\ row[f[1]].state = "dispatching"
            /\ row[f[1]].attempts = log[f[1]][f[2]].number

\* A row nobody outside overwrote is 'sent' exactly when one of its attempts
\* succeeded, and that attempt is its last: an acknowledged message is not sent
\* again, not by a retry, a replay or a restart.
SentOnce ==
    \A r \in Ids \ touched :
        /\ \A i \in DOMAIN log[r] :
              log[r][i].outcome = "ok" => i = Len(log[r]) /\ row[r].state = "sent"
        /\ row[r].state = "sent" =>
              /\ Len(log[r]) > 0
              /\ log[r][Len(log[r])].outcome = "ok"

\* Each enqueue, each replay and each 'failed' callback buys at most
\* MaxAttempts calls of dispatchFn, whatever jobs of the row are in flight,
\* whichever of them writes the attempts column back, and across restarts.
AttemptsBounded ==
    \A r \in Ids : Len(log[r]) <= MaxAttempts * (1 + reopened[r])

\* A step leaves a row 'dispatching' with no job working on it only when the
\* process dies: no order of settling jobs, replays and callbacks does.
OnlyARestartStrands ==
    [][\A r \in Ids : Stranded(r)' => Stranded(r) \/ crashes' = crashes + 1]_vars

\* A retry or a replay can be picked up once its next_attempt_at has passed.
\* The service schedules and logs that instant ("Retrying at ...").
RetryDueWhenScheduled ==
    \A r \in Ids :
        Pending(r) /\ Elapsed(row[r].next) => TextLeq(row[r].next, SqlNow)

\* No pending row is passed over for ever: its timestamp falls due and the
\* poller takes it, or an outsider closes it.
EveryPendingRowIsTaken == \A r \in Ids : Pending(r) ~> ~Pending(r)

\* What becomes of every accepted message when the platform calls return: it is
\* sent or abandoned, unless a restart stranded it.
EveryMessageSettles ==
    \A r \in Ids :
        Exists(r) ~> row[r].state \in {"sent", "dead_letter"} \/ Stranded(r)

\* "message sends can survive process restarts and be replayed safely": a row
\* that was being sent when the process died is settled after the restart.
SendSurvivesRestart ==
    \A r \in Ids :
        Exists(r) ~> row[r].state \in {"sent", "dead_letter"}

-----------------------------------------------------------------------------
(* The promise of OutboundDelivery, seen through the columns of a row.     *)

Phase(state) ==
    CASE state = "absent"      -> "none"
      [] state = "dispatching" -> "trying"
      [] state = "sent"        -> "sent"
      [] state = "dead_letter" -> "abandoned"
      [] OTHER                 -> "waiting"

Promise == INSTANCE OutboundDelivery
    WITH Messages <- Ids,
         phase <- [r \in Ids |-> Phase(row[r].state)],
         tries <- [r \in Ids |-> row[r].attempts]

\* With no webhook writing rows and only dead letters replayed, the overlapping
\* polls, the settling jobs and the restarts implement the promise: every retry,
\* dead letter and success belongs to the one try under way.
KeepsThePromise == Promise!Spec

=============================================================================
