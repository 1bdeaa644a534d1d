--------------------------- MODULE IncidentManager ---------------------------
(***************************************************************************)
(* Self-healing: IncidentManager (services/incident-manager.ts) over the   *)
(* table incidents, and the controls its playbooks turn: the processing    *)
(* mode and the retry window of QueueService, the preferred model of       *)
(* ModelRouter and its own safe mode.                                      *)
(*                                                                         *)
(* evaluateNow() runs without an await.  It is taken apart into the read   *)
(* of the signals, one step per detection and one per resolution, between  *)
(* which only the clock and the death of the process come.                 *)
(***************************************************************************)
EXTENDS Integers, Sequences, FiniteSets, FiniteSetsExt

CONSTANTS
    Types,            \* the incident types watched
    MaxRemediations,  \* maxRemediationAttempts
    Cooldown,         \* remediationCooldownMs, in clock units
    Burst,            \* callbackFailureBurstThreshold
    MaxRejected,      \* bound: rejected callbacks in callbackWindowMinutes
    Models,           \* how many models the router has
    MaxCrashes        \* bound: process restarts

\* In the order #detect looks for them.
Backpressure == "queue_backpressure"
Storm        == "callback_failure_storm"
Degradation  == "context_budget_degradation"
Instability  == "model_routing_instability"

ASSUME IncidentAssumption ==
    /\ Types \subseteq {Backpressure, Storm, Degradation, Instability}
    /\ MaxRemediations \in Nat /\ Cooldown \in Nat
    /\ Burst \in Nat \ {0} /\ MaxRejected \in Nat
    /\ Models \in Nat \ {0} /\ MaxCrashes \in Nat

VARIABLES
    hasQueue,  \* a messaging platform is configured, hence a QueueService
    incident,  \* t |-> its ActiveIncidentState
    order,     \* the keys of #active, oldest first
    controls,  \* what the playbooks turn
    baseline,  \* #callbackTotalsBaseline.rejected
    detected,  \* detectedTypes of the latest evaluation
    todo,      \* detections not handled yet
    record,    \* t |-> status of the latest row of table incidents for t
    undo,      \* history: the types of the remediations in force, oldest first
    tangled,   \* history: a remediation was undone before a later one
    crashes    \* history: restarts so far

evaluation == <<baseline, detected, todo>>
history    == <<undo, tangled>>
vars == <<hasQueue, incident, order, controls, evaluation, record, history, crashes>>

-----------------------------------------------------------------------------
(* Remediations.                                                           *)

QueueActions == {"throttle", "drain", "retry_window_adjustment"}
Actions      == QueueActions \cup {"failover", "halt_safe_mode"}

WindowSteps == 5   \* 1.5 ** 5 is above 6, the cap of the multiplier

\* The retry window multiplier is 1.5 ** window, capped.
Controls == [mode      : {"normal", "throttled", "drain"},
             window    : 0 .. WindowSteps,
             preferred : 0 .. Models - 1,
             safe      : BOOLEAN]

Untouched == [mode |-> "normal", window |-> 0, preferred |-> 0, safe |-> FALSE]

\* #selectAction
SelectAction(t, attempt) ==
    CASE t = Backpressure /\ attempt = 1 -> "throttle"
      [] t = Backpressure /\ attempt = 2 -> "drain"
      [] t = Storm /\ attempt = 1        -> "retry_window_adjustment"
      [] t = Storm /\ attempt = 2        -> "throttle"
      [] t = Degradation /\ attempt = 1  -> "retry_window_adjustment"
      [] t = Instability /\ attempt <= 2 -> "failover"
      [] OTHER                           -> "halt_safe_mode"

\* The effect of a playbook's action.
Applied(c, action) ==
    CASE action = "throttle" -> [c EXCEPT !.mode = "throttled"]
      [] action = "drain"    -> [c EXCEPT !.mode = "drain"]
      [] action = "failover" -> [c EXCEPT !.preferred = (@ + 1) % Models]
      [] action = "retry_window_adjustment" ->
             [c EXCEPT !.window = IF @ < WindowSteps THEN @ + 1 ELSE @]
      [] OTHER -> [c EXCEPT !.safe = TRUE, !.mode = IF hasQueue THEN "throttled" ELSE @]

\* An entry of the rollback stack: the action, and what its rollback restores.
Entries == [action : Actions, before : Controls]

\* The controls a rollback of the action captures; the others do not matter.
Found(c, action) ==
    CASE action \in {"throttle", "drain"}      -> [Untouched EXCEPT !.mode = c.mode]
      [] action = "retry_window_adjustment"    -> [Untouched EXCEPT !.window = c.window]
      [] action = "halt_safe_mode"             ->
             [Untouched EXCEPT !.safe = c.safe, !.mode = c.mode]
      [] OTHER                                 -> Untouched

Turning(stack, actions) == {i \in DOMAIN stack : stack[i].action \in actions}

\* Mutant of Undone: the rollbacks run oldest first.
UndoneOldestFirst(c, stack) ==
    LET modes   == Turning(stack, {"throttle", "drain"} \cup
                                  (IF hasQueue THEN {"halt_safe_mode"} ELSE {}))
        windows == Turning(stack, {"retry_window_adjustment"})
        safes   == Turning(stack, {"halt_safe_mode"})
    IN  [mode      |-> IF modes = {} THEN c.mode ELSE stack[Max(modes)].before.mode,
         window    |-> IF windows = {} THEN c.window ELSE stack[Max(windows)].before.window,
         preferred |-> IF Turning(stack, {"failover"}) = {} THEN c.preferred ELSE 0,
         safe      |-> IF safes = {} THEN c.safe ELSE stack[Max(safes)].before.safe]

(* The rollbacks of a stack, newest first: each control ends as the oldest *)
(* action that turned it found it.  A failover's rollback resets the       *)
(* preferred model instead.                                                *)
Undone(c, stack) ==
    LET modes   == Turning(stack, {"throttle", "drain"} \cup
                                  (IF hasQueue THEN {"halt_safe_mode"} ELSE {}))
        windows == Turning(stack, {"retry_window_adjustment"})
        safes   == Turning(stack, {"halt_safe_mode"})
    IN  [mode      |-> IF modes = {} THEN c.mode ELSE stack[Min(modes)].before.mode,
         window    |-> IF windows = {} THEN c.window ELSE stack[Min(windows)].before.window,
         preferred |-> IF Turning(stack, {"failover"}) = {} THEN c.preferred ELSE 0,
         safe      |-> IF safes = {} THEN c.safe ELSE stack[Min(safes)].before.safe]

-----------------------------------------------------------------------------
(* Incidents.                                                              *)

Open == {"active", "remediating", "escalated"}

Incidents == [status : Open \cup {"none"}, attempts : 0 .. MaxRemediations,
              cooldown : 0 .. Cooldown, stack : Seq(Entries)]

NoIncident == [status |-> "none", attempts |-> 0, cooldown |-> 0, stack |-> <<>>]

Active(t) == incident[t].status # "none"

\* The state #handleDetection works on: the active incident, or a new one.
Current(t) ==
    IF Active(t) THEN incident[t] ELSE [NoIncident EXCEPT !.status = "active"]

\* Mutant of Cooling: a cooldown, once set, is not compared with the clock.
CoolingForEver(i) == i.attempts > 0

Cooling(i) == i.cooldown > 0

\* Nothing more is tried for an escalated incident.
Halted(i) == i.status = "escalated"

\* Mutant of Exhausted: one remediation too many.
ExhaustedOffByOne(i) == i.attempts > MaxRemediations

Exhausted(i) == i.attempts >= MaxRemediations

Keys(s) == {s[i] : i \in DOMAIN s}

\* Mutant of ToResolve: an escalated incident waits for the operator.
ToResolveUnescalated ==
    {t \in Keys(order) \ detected : incident[t].status # "escalated"}

\* The open incidents whose signals are below their thresholds.
ToResolve == Keys(order) \ detected

Idle      == todo = {} /\ ToResolve = {}

\* t comes before every other type of S in #detect.
First(t, S) ==
    LET Rank(x) == CASE x = Backpressure -> 1 [] x = Storm -> 2
                     [] x = Degradation -> 3 [] OTHER -> 4
    IN  t \in S /\ \A x \in S : Rank(t) <= Rank(x)

\* Mutant of Persist: a row is only written when the incident is remediated.
PersistRemediated(t, status) ==
    record' = [record EXCEPT ![t] = IF status = "escalated" THEN @ ELSE status]

\* #persist
Persist(t, status) == record' = [record EXCEPT ![t] = status]

\* #active.set and #persist of the state i of t.
Put(t, i) ==
    /\ incident' = [incident EXCEPT ![t] = i]
    /\ order' = IF Active(t) THEN order ELSE Append(order, t)
    /\ Persist(t, i.status)
    /\ todo' = todo \ {t}

-----------------------------------------------------------------------------
(* evaluateNow: #collectSignals and #detect.  The queue counts, the        *)
(* degraded turns and the router's failures are read afresh: any of them   *)
(* may be over its threshold.  Callbacks are compared with the last total. *)
Evaluate ==
    /\ Idle
    /\ \E over \in SUBSET (Types \ {Storm}), total \in 0 .. MaxRejected :
          /\ Backpressure \in over => hasQueue
          /\ detected' = over \cup
                (IF total - baseline >= Burst THEN {Storm} \cap Types ELSE {})
          /\ baseline' = total
    /\ todo' = detected'
    /\ UNCHANGED <<hasQueue, incident, order, controls, record, history, crashes>>

\* #handleDetection of an escalated incident: nothing is tried any more.
KeepEscalated(t) ==
    /\ First(t, todo)
    /\ Halted(Current(t))
    /\ Put(t, Current(t))
    /\ UNCHANGED <<hasQueue, controls, baseline, detected, history, crashes>>

\* #handleDetection within the cooldown of the last remediation.
CoolDown(t) ==
    /\ First(t, todo)
    /\ ~Halted(Current(t)) /\ Cooling(Current(t))
    /\ Put(t, [Current(t) EXCEPT !.status = "remediating"])
    /\ UNCHANGED <<hasQueue, controls, baseline, detected, history, crashes>>

\* #handleDetection when the attempts are used up.
Escalate(t) ==
    /\ First(t, todo)
    /\ ~Halted(Current(t)) /\ ~Cooling(Current(t))
    /\ Exhausted(Current(t))
    /\ Put(t, [Current(t) EXCEPT !.status = "escalated"])
    /\ UNCHANGED <<hasQueue, controls, baseline, detected, history, crashes>>

\* The bookkeeping after a playbook ran.
Tried(i, status, stack) ==
    [i EXCEPT !.status = status, !.attempts = @ + 1, !.cooldown = Cooldown,
              !.stack = stack]

\* #handleDetection with an attempt left: #runPlaybook.  Without a queue the
\* actions on the queue fail, and the incident is escalated.
Remediate(t) ==
    /\ First(t, todo)
    /\ ~Halted(Current(t)) /\ ~Cooling(Current(t))
    /\ ~Exhausted(Current(t))
    /\ LET now    == Current(t)
           action == SelectAction(t, now.attempts + 1)
       IN  IF action \in QueueActions /\ ~hasQueue
           THEN /\ Put(t, Tried(now, "escalated", now.stack))
                /\ UNCHANGED <<controls, undo>>
           ELSE /\ Put(t, Tried(now, "remediating",
                      Append(now.stack, [action |-> action, before |-> Found(controls, action)])))
                /\ controls' = Applied(controls, action)
                /\ undo' = IF tangled THEN undo ELSE Append(undo, t)
    /\ UNCHANGED <<hasQueue, baseline, detected, tangled, crashes>>

\* Mutant of AfterResolution: safe mode is left to the rollbacks.
AfterResolutionUnchecked(c, left) == c

\* With the last incident resolved safe mode ends.
AfterResolution(c, left) == IF left = <<>> THEN [c EXCEPT !.safe = FALSE] ELSE c

\* No remediation in force is later than those of t, but t's own.
Newest(t) ==
    \A i \in DOMAIN undo : undo[i] = t =>
        \A j \in DOMAIN undo : j > i => undo[j] = t

\* #resolveIncident, of the oldest incident that was not detected.
ResolveIncident ==
    /\ todo = {}
    /\ \E k \in DOMAIN order :
          /\ order[k] \in ToResolve
          /\ \A j \in 1 .. k - 1 : order[j] \notin ToResolve
          /\ LET t == order[k]
                 mine == {i \in DOMAIN undo : undo[i] = t}
             IN  /\ order' = SubSeq(order, 1, k - 1) \o SubSeq(order, k + 1, Len(order))
                 /\ controls' = AfterResolution(Undone(controls, incident[t].stack), order')
                 /\ incident' = [incident EXCEPT ![t] = NoIncident]
                 /\ Persist(t, "resolved")
                 /\ tangled' = (tangled \/ ~Newest(t))
                 /\ undo' = IF tangled' THEN <<>>
                            ELSE IF mine = {} THEN undo
                            ELSE SubSeq(undo, 1, Min(mine) - 1)
    /\ UNCHANGED <<hasQueue, evaluation, crashes>>

Tick ==
    /\ \E t \in Types : incident[t].cooldown > 0
    /\ incident' = [t \in Types |->
          [incident[t] EXCEPT !.cooldown = IF @ > 0 THEN @ - 1 ELSE 0]]
    /\ UNCHANGED <<hasQueue, order, controls, evaluation, record, history, crashes>>

\* The process dies and starts again: only the table survives.
Restart ==
    /\ crashes < MaxCrashes
    /\ crashes' = crashes + 1
    /\ incident' = [t \in Types |-> NoIncident] /\ order' = <<>>
    /\ controls' = Untouched
    /\ baseline' = 0 /\ detected' = {} /\ todo' = {}
    /\ undo' = <<>> /\ tangled' = FALSE
    /\ UNCHANGED <<hasQueue, record>>

-----------------------------------------------------------------------------
Init ==
    /\ hasQueue \in BOOLEAN
    /\ incident = [t \in Types |-> NoIncident] /\ order = <<>>
    /\ controls = Untouched
    /\ baseline = 0 /\ detected = {} /\ todo = {}
    /\ record = [t \in Types |-> "none"]
    /\ undo = <<>> /\ tangled = FALSE /\ crashes = 0

HandleDetection(t) == KeepEscalated(t) \/ CoolDown(t) \/ Escalate(t) \/ Remediate(t)

Next ==
    \/ Evaluate
    \/ \E t \in Types : HandleDetection(t)
    \/ ResolveIncident
    \/ Tick
    \/ Restart

Spec == Init /\ [][Next]_vars

\* The cron job evaluates every twenty seconds, an evaluation runs to its end,
\* and the clock runs.
Fairness ==
    /\ WF_vars(Evaluate)
    /\ WF_vars(\E t \in Types : HandleDetection(t))
    /\ WF_vars(ResolveIncident)
    /\ WF_vars(Tick)

FairSpec == Spec /\ Fairness

-----------------------------------------------------------------------------
(* Properties *)

\* The types of the variables; #active holds one entry per open incident.
TypeOK ==
    /\ hasQueue \in BOOLEAN
    /\ incident \in [Types -> Incidents]
    /\ order \in Seq(Types)
    /\ \A t \in Types : Active(t) <=> t \in Keys(order)
    /\ controls \in Controls
    /\ baseline \in 0 .. MaxRejected
    /\ detected \subseteq Types /\ todo \subseteq detected
    /\ record \in [Types -> Open \cup {"none", "resolved"}]
    /\ undo \in Seq(Types) /\ tangled \in BOOLEAN
    /\ crashes \in 0 .. MaxCrashes

\* Whatever several incidents did to the controls in turn, the controls are back
\* where they were when the last is resolved, provided that no remediation was
\* undone before one applied after it.
ReversedWhenNested == order = <<>> /\ ~tangled => controls = Untouched

\* Even when it was: without an open incident safe mode is off (a rollback may
\* have switched it on again) and the preferred model is the first.
SafeModeEnds == order = <<>> => ~controls.safe /\ controls.preferred = 0

\* The table lists an incident as open exactly when the manager works on it, in
\* the same status; only rows of incidents that a dead process left stay open.
RecordsAgree ==
    \A t \in Types :
        /\ Active(t) => record[t] = incident[t].status
        /\ ~Active(t) /\ record[t] \in Open => crashes > 0

\* "Escalate ... when automation cannot recover": a signal that stays over its
\* threshold is escalated to the operator, and stays so.
PersistentIsEscalated ==
    \A t \in Types :
        <>[](t \in detected) => <>[](incident[t].status = "escalated")

\* A signal that has recovered for good leaves no incident behind.
RecoveredIsResolved ==
    \A t \in Types : <>[](t \notin detected) => <>[](~Active(t))

\* "Rolls back applied remediations when incident conditions recover": the queue
\* is back in its normal mode when the last incident is resolved.
QueueBackToNormal == order = <<>> => controls.mode = "normal"

=============================================================================
