--------------------------- MODULE WebhookIntake ---------------------------
(***************************************************************************)
(* POST /callback/webhook (api/handlers/callback.ts).  A delivery is looked *)
(* up by its key (task, event and status), reconciled with the row of the   *)
(* outbound queue that has the task's id, handed to the gateway without     *)
(* waiting, and recorded.  Each log entry is an await: deliveries of one    *)
(* key interleave there.  Senders repeat deliveries as they like.           *)
(***************************************************************************)
EXTENDS Naturals, FiniteSets

CONSTANTS Keys,         \* idempotency keys
          Queued,       \* the keys whose task is a row of the outbound queue
          Deliveries,   \* requests
          MaxFaults     \* bound: log entries and table accesses that fail, and deaths

VARIABLES receipt,      \* callback_receipts
          row,          \* the reconciled rows
          turns,        \* gateway turns begun
          delivery,     \* the requests
          faults,
          spoilt        \* history: keys whose deliveries overlapped, or whose receipt was not written
vars == <<receipt, row, turns, delivery, faults, spoilt>>

NewDelivery == [at |-> "new", key |-> "none", answer |-> 0]
Under == {"duplicate", "received", "reconciled", "rejecting"}

Init == /\ receipt = [k \in Keys |-> "none"]
        /\ row = [k \in Queued |-> "open"]
        /\ turns = [k \in Keys |-> 0]
        /\ delivery = [d \in Deliveries |-> NewDelivery]
        /\ faults = 0
        /\ spoilt = {}

Go(d, at) == delivery' = [delivery EXCEPT ![d].at = at]
Answer(d, status) == delivery' = [delivery EXCEPT ![d].at = "over", ![d].answer = status]
Spoil(k) == spoilt' = spoilt \cup {k}

\* A body that lacks a field, or has another status.
Invalid(d) == /\ delivery[d].at = "new"
              /\ Answer(d, 400)
              /\ UNCHANGED <<receipt, row, turns, faults, spoilt>>

KnownAccepted(k) == receipt[k] = "accepted"
Known(k) == receipt[k] # "none"

\* The lookup, and the log entry after it.
Receive(d, k) ==
    /\ delivery[d].at = "new"
    /\ delivery' = [delivery EXCEPT ![d].key = k, ![d].at = IF Known(k) THEN "duplicate" ELSE "received"]
    /\ IF \E e \in Deliveries : delivery[e].key = k /\ delivery[e].at \in Under THEN Spoil(k) ELSE UNCHANGED spoilt
    /\ UNCHANGED <<receipt, row, turns, faults>>

AnswerDuplicate(d) == /\ delivery[d].at = "duplicate"
                      /\ Answer(d, 200)
                      /\ UNCHANGED <<receipt, row, turns, faults, spoilt>>

Reconcile(d) == /\ delivery[d].at = "received" /\ delivery[d].key \in Queued
                /\ row' = [row EXCEPT ![delivery[d].key] = "reconciled"]
                /\ Go(d, "reconciled")
                /\ UNCHANGED <<receipt, turns, faults, spoilt>>

\* INSERT OR IGNORE: the first receipt of a key stays.
Recorded(k, outcome) == IF receipt[k] = "none" THEN [receipt EXCEPT ![k] = outcome] ELSE receipt

\* The turn begins and is not awaited; the receipt follows at once.
Ready(d) == delivery[d].at = "reconciled" \/ (delivery[d].at = "received" /\ delivery[d].key \notin Queued)
Process(d) == /\ Ready(d)
              /\ turns' = [turns EXCEPT ![delivery[d].key] = @ + 1]
              /\ receipt' = Recorded(delivery[d].key, "accepted")
              /\ Answer(d, 202)
              /\ UNCHANGED <<row, faults, spoilt>>

Reject(d) == /\ delivery[d].at = "rejecting"
             /\ receipt' = Recorded(delivery[d].key, "rejected")
             /\ Answer(d, 500)
             /\ UNCHANGED <<row, turns, faults, spoilt>>

(***************************************************************************)
(* Failures.                                                                *)
(***************************************************************************)

Fault == faults < MaxFaults /\ faults' = faults + 1

\* A log entry outside the try, or in the catch, fails: no answer and no receipt.
LogFails(d) == /\ Fault
               /\ delivery[d].at \in {"duplicate", "received", "rejecting"}
               /\ Go(d, "lost")
               /\ IF delivery[d].at = "rejecting" THEN Spoil(delivery[d].key) ELSE UNCHANGED spoilt
               /\ UNCHANGED <<receipt, row, turns>>

\* The tables, or the log entry of the reconciliation, fail before the turn ...
ReconcileFails(d) == /\ Fault
                     /\ delivery[d].at \in {"received", "reconciled"}
                     /\ Go(d, "rejecting")
                     /\ UNCHANGED <<receipt, row, turns, spoilt>>

\* ... or the receipt cannot be written after it has begun.
RecordFails(d) == /\ Fault
                  /\ Ready(d)
                  /\ turns' = [turns EXCEPT ![delivery[d].key] = @ + 1]
                  /\ Go(d, "rejecting")
                  /\ UNCHANGED <<receipt, row, spoilt>>

Die == /\ Fault
       /\ \E d \in Deliveries : delivery[d].at \in Under
       /\ delivery' = [d \in Deliveries |-> IF delivery[d].at \in Under THEN [delivery[d] EXCEPT !.at = "lost"] ELSE delivery[d]]
       /\ spoilt' = spoilt \cup {delivery[d].key : d \in {e \in Deliveries : delivery[e].at = "rejecting"}}
       /\ UNCHANGED <<receipt, row, turns>>

Next == \/ \E d \in Deliveries : \/ Invalid(d) \/ \E k \in Keys : Receive(d, k)
                                 \/ AnswerDuplicate(d) \/ Reconcile(d) \/ Process(d) \/ Reject(d)
                                 \/ LogFails(d) \/ ReconcileFails(d) \/ RecordFails(d)
        \/ Die

Spec == Init /\ [][Next]_vars

(***************************************************************************)
(* Properties.                                                              *)
(***************************************************************************)

TypeOK == /\ \A k \in Keys : receipt[k] \in {"none", "accepted", "rejected"} /\ turns[k] <= Cardinality(Deliveries)
          /\ \A d \in Deliveries : delivery[d].at \in {"new", "over", "lost"} \cup Under
          /\ faults \in 0..MaxFaults

\* The idempotency check: repeated one after the other, a webhook is processed at most once, even
\* when its processing failed half-way - deliveries that overlap both pass the check.  What
\* was answered 202 was processed, and what is answered as a duplicate was, or was rejected
\* before (it is then never processed, though the answer says accepted).
Answered(k, status) == {d \in Deliveries : delivery[d].key = k /\ delivery[d].answer = status}
WebhookOnce ==
    \A k \in Keys : /\ k \notin spoilt => turns[k] <= 1
                    /\ Cardinality(Answered(k, 202)) <= turns[k]
                    /\ Answered(k, 200) # {} => turns[k] > 0 \/ receipt[k] = "rejected"
                    /\ Answered(k, 202) # {} /\ k \in Queued => row[k] = "reconciled"
=============================================================================
