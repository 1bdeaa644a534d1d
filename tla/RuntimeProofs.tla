--------------------------- MODULE RuntimeProofs ---------------------------
(***************************************************************************)
(* Proofs about webhooks, tool servers and turns, with their context and    *)
(* their memory, as parts of Runtime, for any keys, requests, servers,      *)
(* thresholds, policies, budgets and claims.                                *)
(***************************************************************************)
EXTENDS Runtime, FiniteSetTheorems, SequenceTheorems, WellFoundedInduction, TLAPS

\* A step of the process is a step of each component, or leaves it alone.
LEMMA WebhookPart == [Next]_vars => [Webhook!Next]_WebhookVars
BY DEF Next, Rest, vars

LEMMA McpPart == [Next]_vars => [Mcp!Next]_McpVars
BY DEF Next, Rest, vars

LEMMA TalkPart == [Next]_vars => [Talk!Next]_TalkVars
BY DEF Next, Rest, vars

LEMMA ContextPart == [Next]_vars => [Context!Next]_ContextVars
BY DEF Next, Rest, vars

LEMMA MemoryPart == [Next]_vars => [Memory!Next]_MemoryVars
BY DEF Next, Rest, vars

-----------------------------------------------------------------------------
(* Webhooks.                                                               *)

Places == {"new", "over", "lost"} \cup Webhook!Under
Statuses == {0, 200, 202, 400, 500}
Requests == [at : Places, key : Keys \cup {"none"}, answer : Statuses]

WebhookTypes ==
    /\ wReceipt \in [Keys -> {"none", "accepted", "rejected"}]
    /\ wRow \in [Queued -> {"open", "reconciled"}]
    /\ wTurns \in [Keys -> Nat]
    /\ wDelivery \in [Deliveries -> Requests]
    /\ wFaults \in 0 .. Faults + 1
    /\ wSpoilt \in SUBSET Keys

IsUnder(d, k) == wDelivery[d].key = k /\ wDelivery[d].at \in Webhook!Under

\* What the tables say of a request.
RequestSound(d) ==
    LET r == wDelivery[d]
    IN  /\ r.at = "new" => r.key = "none" /\ r.answer = 0
        /\ r.at \in Webhook!Under => r.key \in Keys /\ r.answer = 0
        /\ r.at = "lost" => r.answer = 0
        /\ r.at = "duplicate" => wReceipt[r.key] # "none"
        /\ r.at = "reconciled" => r.key \in Queued /\ wRow[r.key] = "reconciled"

\* The requests of a key that did not overlap follow each other: one that has
\* passed the check finds no turn begun, and a turn without a receipt has its
\* request under way, which will write one.
KeySound(k) ==
    k \notin wSpoilt =>
      /\ wTurns[k] <= 1
      /\ \A d, e \in Deliveries : IsUnder(d, k) /\ IsUnder(e, k) => d = e
      /\ \A d \in Deliveries : wDelivery[d].key = k /\ wDelivery[d].at \in {"received", "reconciled"}
                                 => wTurns[k] = 0
      /\ wReceipt[k] = "none" /\ wTurns[k] > 0 =>
           \E d \in Deliveries : wDelivery[d].key = k /\ wDelivery[d].at = "rejecting"

\* The requests that may have begun a turn, and those that were told so.
Past(k) == {d \in Deliveries : wDelivery[d].key = k
                                 /\ wDelivery[d].at \in {"over", "lost", "rejecting"}}
Counts(k) ==
    /\ Cardinality(Webhook!Answered(k, 202)) <= wTurns[k]
    /\ wTurns[k] <= Cardinality(Past(k))

\* What was answered is so.
Honest(k) ==
    /\ wReceipt[k] = "accepted" => wTurns[k] > 0
    /\ Webhook!Answered(k, 200) # {} => wReceipt[k] # "none"
    /\ Webhook!Answered(k, 202) # {} /\ k \in Queued => wRow[k] = "reconciled"

WebhookInv ==
    /\ WebhookTypes
    /\ \A d \in Deliveries : RequestSound(d)
    /\ \A k \in Keys : KeySound(k) /\ Counts(k) /\ Honest(k)

\* Request d goes to a place, keeping its key, and is answered or not; the others stay.
Moves(d, at, answer) ==
    /\ wDelivery' \in [Deliveries -> Requests]
    /\ wDelivery'[d].at = at /\ wDelivery'[d].key = wDelivery[d].key
    /\ wDelivery'[d].answer = answer
    /\ \A e \in Deliveries \ {d} : wDelivery'[e] = wDelivery[e]

LEMMA RequestMoves ==
    ASSUME WebhookTypes, NEW d \in Deliveries, NEW at \in Places, NEW answer \in Statuses,
           \/ Webhook!Go(d, at) /\ answer = wDelivery[d].answer
           \/ Webhook!Answer(d, answer) /\ at = "over"
    PROVE  Moves(d, at, answer)
<1> DEFINE r == wDelivery[d]
           q == [r EXCEPT !.at = at, !.answer = answer]
<1>1. r \in Requests /\ wDelivery \in [Deliveries -> Requests]
  BY DEF WebhookTypes
<1>2. q \in Requests /\ q.at = at /\ q.key = r.key /\ q.answer = answer
  BY <1>1 DEF Requests
<1>3. wDelivery' = [wDelivery EXCEPT ![d] = q]
  <2>1. CASE Webhook!Go(d, at) /\ answer = r.answer
    <3>1. q = [r EXCEPT !.at = at]
      BY <1>1, <2>1 DEF Requests
    <3> QED
      BY <1>1, <2>1, <3>1 DEF Webhook!Go
  <2>2. CASE Webhook!Answer(d, answer) /\ at = "over"
    BY <1>1, <2>2 DEF Webhook!Answer
  <2> QED
    BY <2>1, <2>2
<1> HIDE DEF r, q
<1> QED
  BY <1>1, <1>2, <1>3 DEF Moves, r

\* A step that begins no turn of k and gives no 202, and one that begins a turn of
\* it for request d.
LEMMA CountsStay ==
    ASSUME WebhookInv, NEW k \in Keys, wTurns'[k] = wTurns[k],
           Webhook!Answered(k, 202)' = Webhook!Answered(k, 202), Past(k) \subseteq Past(k)'
    PROVE  Counts(k)'
<1>1. Past(k) \in SUBSET Deliveries /\ Past(k)' \in SUBSET Deliveries
  BY DEF Past
<1>2. IsFiniteSet(Past(k)')
  BY <1>1, FS_Subset, RuntimeAssumption
<1>3. Cardinality(Past(k)) <= Cardinality(Past(k)')
  BY <1>2, FS_Subset
<1>4. Cardinality(Past(k)) \in Nat /\ Cardinality(Past(k)') \in Nat /\ wTurns[k] \in Nat
  BY <1>1, FS_Subset, FS_CardinalityType, RuntimeAssumption DEF WebhookInv, WebhookTypes
<1>5. Counts(k)
  BY DEF WebhookInv
<1> QED
  BY <1>3, <1>4, <1>5 DEF Counts

LEMMA CountsGrow ==
    ASSUME WebhookInv, NEW k \in Keys, wTurns'[k] = wTurns[k] + 1, NEW d \in Deliveries,
           Webhook!Answered(k, 202)' \subseteq Webhook!Answered(k, 202) \cup {d},
           Past(k) \subseteq Past(k)', d \notin Past(k), d \in Past(k)'
    PROVE  Counts(k)'
<1> DEFINE A == Webhook!Answered(k, 202)
<1>1. /\ Past(k) \in SUBSET Deliveries /\ Past(k)' \in SUBSET Deliveries
      /\ A \in SUBSET Deliveries /\ A' \in SUBSET Deliveries
  BY DEF Past, Webhook!Answered
<1>2. /\ IsFiniteSet(Past(k)) /\ IsFiniteSet(Past(k)') /\ IsFiniteSet(A) /\ IsFiniteSet(A')
  BY <1>1, FS_Subset, RuntimeAssumption
<1>3. Cardinality(Past(k)) + 1 <= Cardinality(Past(k)')
  <2>1. Cardinality(Past(k) \cup {d}) = Cardinality(Past(k)) + 1
    BY <1>2, FS_AddElement
  <2>2. Past(k) \cup {d} \subseteq Past(k)'
    OBVIOUS
  <2> QED
    BY <1>2, <2>1, <2>2, FS_Subset
<1>4. Cardinality(A') <= Cardinality(A) + 1
  <2>1. IsFiniteSet(A \cup {d}) /\ Cardinality(A \cup {d}) <= Cardinality(A) + 1
    <3>1. IsFiniteSet(A \cup {d})
      BY <1>2, FS_AddElement
    <3>2. CASE d \in A
      <4>1. A \cup {d} = A
        BY <3>2
      <4>2. Cardinality(A) \in Nat
        BY <1>2, FS_CardinalityType
      <4> QED
        BY <3>1, <4>1, <4>2
    <3>3. CASE d \notin A
      <4>1. Cardinality(A \cup {d}) = Cardinality(A) + 1
        BY <1>2, <3>3, FS_AddElement
      <4>2. Cardinality(A) \in Nat
        BY <1>2, FS_CardinalityType
      <4> QED
        BY <3>1, <4>1, <4>2
    <3> QED
      BY <3>2, <3>3
  <2>2. Cardinality(A') <= Cardinality(A \cup {d})
    BY <2>1, FS_Subset
  <2>3. /\ Cardinality(A) \in Nat /\ Cardinality(A') \in Nat /\ Cardinality(A \cup {d}) \in Nat
    BY <1>2, <2>1, FS_CardinalityType
  <2> HIDE DEF A
  <2> QED
    BY <2>1, <2>2, <2>3
<1>5. /\ Cardinality(Past(k)) \in Nat /\ Cardinality(Past(k)') \in Nat /\ wTurns[k] \in Nat
      /\ Cardinality(A) \in Nat /\ Cardinality(A') \in Nat
  BY <1>2, FS_CardinalityType DEF WebhookInv, WebhookTypes
<1>6. Cardinality(A) <= wTurns[k] /\ wTurns[k] <= Cardinality(Past(k))
  BY DEF WebhookInv, Counts
<1> HIDE DEF A
<1>7. Cardinality(A') <= wTurns'[k] /\ wTurns'[k] <= Cardinality(Past(k)')
  BY <1>3, <1>4, <1>5, <1>6
<1> QED
  BY <1>7 DEF Counts, A

\* The sets those speak of, when request d moves.
LEMMA SetsMove ==
    ASSUME WebhookInv, NEW d \in Deliveries, NEW at, NEW answer, Moves(d, at, answer),
           wDelivery[d].at \in Webhook!Under \cup {"new"},
           at \in {"over", "lost", "rejecting"}
             \/ (at = "reconciled" /\ wDelivery[d].at = "received"),
           NEW k \in Keys
    PROVE  /\ Past(k) \subseteq Past(k)'
           /\ answer # 202 => Webhook!Answered(k, 202)' = Webhook!Answered(k, 202)
           /\ Webhook!Answered(k, 202)' \subseteq Webhook!Answered(k, 202) \cup {d}
           /\ answer # 200 => Webhook!Answered(k, 200)' = Webhook!Answered(k, 200)
           /\ wDelivery[d].key = k /\ at \in {"over", "rejecting"}
                /\ wDelivery[d].at \in {"received", "reconciled"} => d \notin Past(k) /\ d \in Past(k)'
<1>1. RequestSound(d)
  BY DEF WebhookInv
<1>2. \A e \in Deliveries : e # d => wDelivery'[e] = wDelivery[e]
  BY DEF Moves
<1>3. /\ wDelivery'[d].at = at /\ wDelivery'[d].key = wDelivery[d].key
      /\ wDelivery'[d].answer = answer
  BY DEF Moves
<1>4. wDelivery[d].answer = 0
  BY <1>1 DEF RequestSound, Webhook!Under
<1>5. \A e \in Deliveries : e \in Past(k) => e \in Past(k)'
  BY <1>1, <1>2, <1>3 DEF Past, RequestSound, Webhook!Under
<1> QED
  BY <1>2, <1>3, <1>4, <1>5 DEF Past, Webhook!Answered

LEMMA InvalidStep ==
    ASSUME WebhookInv, NEW d \in Deliveries, Webhook!Invalid(d)
    PROVE  WebhookInv'
<1>1. Moves(d, "over", 400) /\ wDelivery[d].at = "new"
  BY RequestMoves DEF Webhook!Invalid, WebhookInv, Places, Statuses
<1>2. UNCHANGED <<wReceipt, wRow, wTurns, wFaults, wSpoilt>>
  BY DEF Webhook!Invalid
<1>3. WebhookTypes'
  BY <1>1, <1>2 DEF WebhookInv, WebhookTypes, Moves
<1>4. ASSUME NEW k \in Keys PROVE Counts(k)' /\ Honest(k)' /\ KeySound(k)'
  <2>1. Counts(k)' /\ Honest(k)'
    BY <1>1, <1>2, SetsMove, CountsStay DEF WebhookInv, Honest
  <2>2. KeySound(k)'
    BY <1>1, <1>2 DEF WebhookInv, KeySound, IsUnder, Moves, Webhook!Under
  <2> QED
    BY <2>1, <2>2
<1>5. (\A e \in Deliveries : RequestSound(e))'
  BY <1>1, <1>2 DEF WebhookInv, RequestSound, Moves, Webhook!Under
<1>6. (\A k \in Keys : KeySound(k) /\ Counts(k) /\ Honest(k))'
  BY <1>4, Zenon
<1> QED
  BY <1>3, <1>5, <1>6 DEF WebhookInv

LEMMA ReceiveStep ==
    ASSUME WebhookInv, NEW d \in Deliveries, NEW k \in Keys, Webhook!Receive(d, k)
    PROVE  WebhookInv'
<1> DEFINE r == wDelivery[d]
           at == IF Webhook!Known(k) THEN "duplicate" ELSE "received"
           q == [r EXCEPT !.key = k, !.at = at]
<1>1. r \in Requests /\ r.at = "new" /\ r.key = "none" /\ r.answer = 0
  BY DEF WebhookInv, WebhookTypes, RequestSound, Webhook!Receive
<1>2. q \in Requests /\ q.at = at /\ q.key = k /\ q.answer = 0
  BY <1>1 DEF Requests, Places, Webhook!Under
<1>3. wDelivery' = [wDelivery EXCEPT ![d] = q]
  BY DEF Webhook!Receive, WebhookInv, WebhookTypes
<1>4. UNCHANGED <<wReceipt, wRow, wTurns, wFaults>>
  BY DEF Webhook!Receive
<1>5. /\ ~(\E e \in Deliveries : IsUnder(e, k)) => wSpoilt' = wSpoilt
      /\ (\E e \in Deliveries : IsUnder(e, k)) => wSpoilt' = wSpoilt \cup {k}
  BY DEF Webhook!Receive, IsUnder, Webhook!Spoil
<1>6. wDelivery \in [Deliveries -> Requests]
  BY DEF WebhookInv, WebhookTypes
<1>7. at \in {"duplicate", "received"} /\ (at = "duplicate" <=> wReceipt[k] # "none")
  BY DEF Webhook!Known
<1> HIDE DEF r, q, at
<1>8. wDelivery'[d] = q /\ \A e \in Deliveries : e # d => wDelivery'[e] = wDelivery[e]
  BY <1>3, <1>6
<1>9. WebhookTypes'
  <2>1. wDelivery' \in [Deliveries -> Requests]
    BY <1>2, <1>3, <1>6
  <2>2. wSpoilt' \in SUBSET Keys
    BY <1>5 DEF WebhookInv, WebhookTypes
  <2> QED
    BY <1>4, <2>1, <2>2 DEF WebhookInv, WebhookTypes
<1>10. ASSUME NEW j \in Keys PROVE Counts(j)' /\ Honest(j)' /\ KeySound(j)'
  <2>1. /\ Past(j) \subseteq Past(j)'
        /\ Webhook!Answered(j, 202)' = Webhook!Answered(j, 202)
        /\ Webhook!Answered(j, 200)' = Webhook!Answered(j, 200)
    BY <1>1, <1>2, <1>7, <1>8 DEF Past, Webhook!Answered, r
  <2>2. Counts(j)' /\ Honest(j)'
    BY <1>4, <2>1, CountsStay DEF WebhookInv, Honest
  <2>3. KeySound(j)'
    <3>1. KeySound(j) /\ (j \notin wSpoilt' => j \notin wSpoilt)
      BY <1>5 DEF WebhookInv
    <3>2. CASE j # k
      BY <1>1, <1>2, <1>4, <1>8, <3>1, <3>2 DEF KeySound, IsUnder, r
    <3>3. CASE j = k
      <4> SUFFICES ASSUME k \notin wSpoilt' PROVE KeySound(k)'
        BY <3>3 DEF KeySound
      <4>1. k \notin wSpoilt /\ ~\E e \in Deliveries : IsUnder(e, k)
        BY <1>5
      <4>2. ~\E e \in Deliveries : wDelivery[e].key = k
                                     /\ wDelivery[e].at \in {"received", "reconciled", "rejecting"}
        BY <4>1 DEF IsUnder, Webhook!Under
      <4>3. \A e, f \in Deliveries : IsUnder(e, k)' /\ IsUnder(f, k)' => e = f
        BY <1>8, <4>1 DEF IsUnder
      <4>4. wTurns[k] <= 1 /\ (wReceipt[k] = "none" => ~(wTurns[k] > 0))
        BY <3>1, <3>3, <4>1, <4>2 DEF KeySound
      <4>5. at = "received" => wTurns[k] = 0
        BY <1>7, <4>4 DEF WebhookInv, WebhookTypes
      <4>6. \A e \in Deliveries : wDelivery'[e].key = k /\ wDelivery'[e].at \in {"received", "reconciled"}
                                    => wTurns[k] = 0
        BY <1>2, <1>7, <1>8, <4>2, <4>5
      <4> QED
        BY <1>4, <4>3, <4>4, <4>6 DEF KeySound
    <3> QED
      BY <3>2, <3>3
  <2> QED
    BY <2>2, <2>3
<1>11. (\A e \in Deliveries : RequestSound(e))'
  BY <1>2, <1>4, <1>7, <1>8 DEF WebhookInv, RequestSound, Webhook!Under
<1>12. (\A j \in Keys : KeySound(j) /\ Counts(j) /\ Honest(j))'
  BY <1>10, Zenon
<1> QED
  BY <1>9, <1>11, <1>12 DEF WebhookInv

LEMMA DuplicateStep ==
    ASSUME WebhookInv, NEW d \in Deliveries, Webhook!AnswerDuplicate(d)
    PROVE  WebhookInv'
<1>1. Moves(d, "over", 200) /\ wDelivery[d].at = "duplicate"
  BY RequestMoves DEF Webhook!AnswerDuplicate, WebhookInv, Places, Statuses
<1>2. UNCHANGED <<wReceipt, wRow, wTurns, wFaults, wSpoilt>>
  BY DEF Webhook!AnswerDuplicate
<1>3. WebhookTypes'
  BY <1>1, <1>2 DEF WebhookInv, WebhookTypes, Moves
<1>4. ASSUME NEW k \in Keys PROVE Counts(k)' /\ Honest(k)' /\ KeySound(k)'
  <2>1. /\ Past(k) \subseteq Past(k)'
        /\ Webhook!Answered(k, 202)' = Webhook!Answered(k, 202)
    BY <1>1, SetsMove DEF Webhook!Under
  <2>2. Counts(k)'
    BY <1>2, <2>1, CountsStay
  <2>3. Honest(k)'
    <3>1. RequestSound(d) /\ Honest(k)
      BY DEF WebhookInv
    <3> QED
      BY <1>1, <1>2, <2>1, <3>1 DEF RequestSound, Honest, Moves, Webhook!Answered
  <2>4. KeySound(k)'
    BY <1>1, <1>2 DEF WebhookInv, KeySound, IsUnder, Moves, Webhook!Under
  <2> QED
    BY <2>2, <2>3, <2>4
<1>5. (\A e \in Deliveries : RequestSound(e))'
  BY <1>1, <1>2 DEF WebhookInv, RequestSound, Moves, Webhook!Under
<1>6. (\A k \in Keys : KeySound(k) /\ Counts(k) /\ Honest(k))'
  BY <1>4, Zenon
<1> QED
  BY <1>3, <1>5, <1>6 DEF WebhookInv

LEMMA ReconcileStep ==
    ASSUME WebhookInv, NEW d \in Deliveries, Webhook!Reconcile(d)
    PROVE  WebhookInv'
<1>1. /\ wDelivery[d].at = "received" /\ wDelivery[d].key \in Queued /\ wDelivery[d].key \in Keys
      /\ wDelivery[d].answer = 0
  BY DEF Webhook!Reconcile, WebhookInv, RequestSound, Webhook!Under
<1>2. Moves(d, "reconciled", 0)
  BY <1>1, RequestMoves DEF Webhook!Reconcile, WebhookInv, Places, Statuses, Webhook!Under
<1>3. /\ UNCHANGED <<wReceipt, wTurns, wFaults, wSpoilt>>
      /\ wRow' = [wRow EXCEPT ![wDelivery[d].key] = "reconciled"]
  BY DEF Webhook!Reconcile
<1>4. WebhookTypes'
  BY <1>2, <1>3 DEF WebhookInv, WebhookTypes, Moves
<1>5. \A k \in Queued : wRow'[k] = wRow[k] \/ wRow'[k] = "reconciled"
  BY <1>3 DEF WebhookInv, WebhookTypes
<1>6. wRow'[wDelivery[d].key] = "reconciled"
  BY <1>1, <1>3 DEF WebhookInv, WebhookTypes
<1>7. ASSUME NEW k \in Keys PROVE Counts(k)' /\ Honest(k)' /\ KeySound(k)'
  <2>1. /\ Past(k) \subseteq Past(k)'
        /\ Webhook!Answered(k, 202)' = Webhook!Answered(k, 202)
        /\ Webhook!Answered(k, 200)' = Webhook!Answered(k, 200)
    BY <1>1, <1>2, SetsMove DEF Webhook!Under
  <2>2. Counts(k)'
    BY <1>3, <2>1, CountsStay
  <2>3. Honest(k)'
    BY <1>3, <1>5, <2>1 DEF WebhookInv, Honest
  <2>4. KeySound(k)'
    BY <1>1, <1>2, <1>3 DEF WebhookInv, KeySound, IsUnder, Moves, Webhook!Under
  <2> QED
    BY <2>2, <2>3, <2>4
<1>8. (\A e \in Deliveries : RequestSound(e))'
  BY <1>1, <1>2, <1>3, <1>5, <1>6 DEF WebhookInv, RequestSound, Moves, Webhook!Under
<1>9. (\A k \in Keys : KeySound(k) /\ Counts(k) /\ Honest(k))'
  BY <1>7, Zenon
<1> QED
  BY <1>4, <1>8, <1>9 DEF WebhookInv

\* A turn begins for a request that has passed the check.
LEMMA TurnBegins ==
    ASSUME WebhookInv, NEW d \in Deliveries, Webhook!Ready(d),
           wTurns' = [wTurns EXCEPT ![wDelivery[d].key] = @ + 1]
    PROVE  /\ wDelivery[d].at \in {"received", "reconciled"} /\ wDelivery[d].key \in Keys
           /\ wDelivery[d].key \in Queued => wRow[wDelivery[d].key] = "reconciled"
           /\ wTurns' \in [Keys -> Nat]
           /\ wTurns'[wDelivery[d].key] = wTurns[wDelivery[d].key] + 1
           /\ \A k \in Keys : k # wDelivery[d].key => wTurns'[k] = wTurns[k]
<1>1. wTurns \in [Keys -> Nat] /\ RequestSound(d)
  BY DEF WebhookInv, WebhookTypes
<1>2. /\ wDelivery[d].at \in {"received", "reconciled"} /\ wDelivery[d].key \in Keys
      /\ wDelivery[d].key \in Queued => wRow[wDelivery[d].key] = "reconciled"
  BY <1>1 DEF Webhook!Ready, RequestSound, Webhook!Under
<1> QED
  BY <1>1, <1>2

\* INSERT OR IGNORE of an outcome.
LEMMA ReceiptKept ==
    ASSUME WebhookInv, NEW k \in Keys, NEW outcome \in {"accepted", "rejected"},
           wReceipt' = Webhook!Recorded(k, outcome)
    PROVE  /\ wReceipt' \in [Keys -> {"none", "accepted", "rejected"}] /\ wReceipt'[k] # "none"
           /\ \A j \in Keys : wReceipt[j] # "none" \/ j # k => wReceipt'[j] = wReceipt[j]
           /\ wReceipt[k] = "none" => wReceipt'[k] = outcome
BY DEF WebhookInv, WebhookTypes, Webhook!Recorded

LEMMA ProcessStep ==
    ASSUME WebhookInv, NEW d \in Deliveries, Webhook!Process(d)
    PROVE  WebhookInv'
<1> DEFINE j == wDelivery[d].key
<1>1. /\ wDelivery[d].at \in {"received", "reconciled"} /\ j \in Keys
      /\ j \in Queued => wRow[j] = "reconciled"
      /\ wTurns' \in [Keys -> Nat] /\ wTurns'[j] = wTurns[j] + 1
      /\ \A k \in Keys : k # j => wTurns'[k] = wTurns[k]
  BY TurnBegins DEF Webhook!Process
<1>2. Moves(d, "over", 202)
  BY RequestMoves DEF Webhook!Process, WebhookInv, Places, Statuses
<1>3. UNCHANGED <<wRow, wFaults, wSpoilt>> /\ wReceipt' = Webhook!Recorded(j, "accepted")
  BY DEF Webhook!Process
<1>4. /\ wReceipt' \in [Keys -> {"none", "accepted", "rejected"}] /\ wReceipt'[j] # "none"
      /\ \A k \in Keys : wReceipt[k] # "none" \/ k # j => wReceipt'[k] = wReceipt[k]
  BY <1>1, <1>3, ReceiptKept
<1> HIDE DEF j
<1>5. WebhookTypes'
  BY <1>1, <1>2, <1>3, <1>4 DEF WebhookInv, WebhookTypes, Moves
<1>6. ASSUME NEW k \in Keys PROVE Counts(k)' /\ Honest(k)' /\ KeySound(k)'
  <2>1. /\ Past(k) \subseteq Past(k)'
        /\ Webhook!Answered(k, 202)' \subseteq Webhook!Answered(k, 202) \cup {d}
        /\ Webhook!Answered(k, 200)' = Webhook!Answered(k, 200)
        /\ k = j => d \notin Past(k) /\ d \in Past(k)'
    BY <1>1, <1>2, SetsMove DEF Webhook!Under, j
  <2>2. k # j => Webhook!Answered(k, 202)' = Webhook!Answered(k, 202)
    BY <1>2 DEF Webhook!Answered, Moves, j
  <2>3. Counts(k)'
    BY <1>1, <2>1, <2>2, CountsStay, CountsGrow
  <2>4. wTurns[k] \in Nat /\ (k = j => wTurns'[k] > 0)
    BY <1>1 DEF WebhookInv, WebhookTypes
  <2>5. Honest(k)'
    <3>1. Honest(k)
      BY DEF WebhookInv
    <3> QED
      BY <1>1, <1>3, <1>4, <2>1, <2>2, <2>4, <3>1 DEF Honest
  <2>6. KeySound(k)'
    <3>1. KeySound(k)
      BY DEF WebhookInv
    <3>2. CASE k # j
      BY <1>1, <1>2, <1>3, <1>4, <3>1, <3>2 DEF KeySound, IsUnder, Moves, Webhook!Under, j
    <3>3. CASE k = j
      <4> SUFFICES ASSUME k \notin wSpoilt PROVE KeySound(k)'
        BY <1>3 DEF KeySound
      <4>1. wTurns[k] = 0 /\ IsUnder(d, k)
        BY <1>1, <3>1, <3>3 DEF KeySound, IsUnder, Webhook!Under, j
      <4>2. \A e \in Deliveries : IsUnder(e, k)' => IsUnder(e, k) /\ e # d
        BY <1>2 DEF IsUnder, Moves, Webhook!Under
      <4>3. \A e \in Deliveries : ~IsUnder(e, k)'
        BY <3>1, <4>1, <4>2 DEF KeySound
      <4>4. wTurns'[k] <= 1
        BY <1>1, <3>3, <4>1
      <4> QED
        BY <1>4, <3>3, <4>3, <4>4 DEF KeySound, IsUnder, Webhook!Under
    <3> QED
      BY <3>2, <3>3
  <2> QED
    BY <2>3, <2>5, <2>6
<1>7. (\A e \in Deliveries : RequestSound(e))'
  <2> SUFFICES ASSUME NEW e \in Deliveries PROVE RequestSound(e)'
    BY Zenon
  <2>1. RequestSound(e) /\ RequestSound(d)
    BY DEF WebhookInv
  <2> QED
    BY <1>1, <1>2, <1>3, <1>4, <2>1 DEF RequestSound, Moves, Webhook!Under
<1>8. (\A k \in Keys : KeySound(k) /\ Counts(k) /\ Honest(k))'
  BY <1>6, Zenon
<1> QED
  BY <1>5, <1>7, <1>8 DEF WebhookInv

LEMMA WebhookFault ==
    ASSUME WebhookInv, Webhook!Fault
    PROVE  wFaults' \in 0 .. Faults + 1
BY RuntimeAssumption DEF WebhookInv, WebhookTypes, Webhook!Fault

LEMMA RecordFailsStep ==
    ASSUME WebhookInv, NEW d \in Deliveries, Webhook!RecordFails(d)
    PROVE  WebhookInv'
<1> DEFINE j == wDelivery[d].key
<1>1. /\ wDelivery[d].at \in {"received", "reconciled"} /\ j \in Keys
      /\ wTurns' \in [Keys -> Nat] /\ wTurns'[j] = wTurns[j] + 1
      /\ \A k \in Keys : k # j => wTurns'[k] = wTurns[k]
  BY TurnBegins DEF Webhook!RecordFails
<1>2. wDelivery[d].answer = 0
  BY <1>1 DEF WebhookInv, RequestSound, Webhook!Under
<1>3. Moves(d, "rejecting", 0)
  BY <1>2, RequestMoves DEF Webhook!RecordFails, WebhookInv, Places, Statuses, Webhook!Under
<1>4. UNCHANGED <<wReceipt, wRow, wSpoilt>> /\ wFaults' \in 0 .. Faults + 1
  BY WebhookFault DEF Webhook!RecordFails
<1> HIDE DEF j
<1>5. WebhookTypes'
  BY <1>1, <1>3, <1>4 DEF WebhookInv, WebhookTypes, Moves
<1>6. ASSUME NEW k \in Keys PROVE Counts(k)' /\ Honest(k)' /\ KeySound(k)'
  <2>1. /\ Past(k) \subseteq Past(k)'
        /\ Webhook!Answered(k, 202)' = Webhook!Answered(k, 202)
        /\ Webhook!Answered(k, 200)' = Webhook!Answered(k, 200)
        /\ k = j => d \notin Past(k) /\ d \in Past(k)'
    BY <1>1, <1>3, SetsMove DEF Webhook!Under, j
  <2>2. Counts(k)'
    BY <1>1, <2>1, CountsStay, CountsGrow
  <2>3. wTurns[k] \in Nat /\ (k = j => wTurns'[k] > 0)
    BY <1>1 DEF WebhookInv, WebhookTypes
  <2>4. Honest(k)'
    <3>1. Honest(k)
      BY DEF WebhookInv
    <3> QED
      BY <1>1, <1>4, <2>1, <2>3, <3>1 DEF Honest
  <2>5. KeySound(k)'
    <3>1. KeySound(k)
      BY DEF WebhookInv
    <3>2. CASE k # j
      BY <1>1, <1>3, <1>4, <3>1, <3>2 DEF KeySound, IsUnder, Moves, Webhook!Under, j
    <3>3. CASE k = j
      <4> SUFFICES ASSUME k \notin wSpoilt PROVE KeySound(k)'
        BY <1>4 DEF KeySound
      <4>1. wTurns[k] = 0 /\ IsUnder(d, k)
        BY <1>1, <3>1, <3>3 DEF KeySound, IsUnder, Webhook!Under, j
      <4>2. \A e \in Deliveries : IsUnder(e, k)' => e = d
        <5>1. \A e \in Deliveries : IsUnder(e, k)' => IsUnder(e, k)
          BY <1>3, <4>1 DEF IsUnder, Moves
        <5> QED
          BY <3>1, <4>1, <5>1 DEF KeySound
      <4>3. wDelivery'[d].at = "rejecting" /\ wDelivery'[d].key = k
        BY <1>3, <3>3 DEF Moves, j
      <4>4. wTurns'[k] <= 1
        BY <1>1, <3>3, <4>1
      <4>5. ~\E e \in Deliveries : wDelivery'[e].key = k /\ wDelivery'[e].at \in {"received", "reconciled"}
        BY <4>2, <4>3 DEF IsUnder, Webhook!Under
      <4> QED
        BY <4>2, <4>3, <4>4, <4>5 DEF KeySound
    <3> QED
      BY <3>2, <3>3
  <2> QED
    BY <2>2, <2>4, <2>5
<1>7. (\A e \in Deliveries : RequestSound(e))'
  BY <1>1, <1>3, <1>4 DEF WebhookInv, RequestSound, Moves, Webhook!Under, j
<1>8. (\A k \in Keys : KeySound(k) /\ Counts(k) /\ Honest(k))'
  BY <1>6, Zenon
<1> QED
  BY <1>5, <1>7, <1>8 DEF WebhookInv

LEMMA RejectStep ==
    ASSUME WebhookInv, NEW d \in Deliveries, Webhook!Reject(d)
    PROVE  WebhookInv'
<1> DEFINE j == wDelivery[d].key
<1>1. wDelivery[d].at = "rejecting" /\ j \in Keys
  BY DEF WebhookInv, RequestSound, Webhook!Under, Webhook!Reject
<1>2. Moves(d, "over", 500)
  BY RequestMoves DEF Webhook!Reject, WebhookInv, Places, Statuses
<1>3. UNCHANGED <<wRow, wTurns, wFaults, wSpoilt>> /\ wReceipt' = Webhook!Recorded(j, "rejected")
  BY DEF Webhook!Reject
<1>4. /\ wReceipt' \in [Keys -> {"none", "accepted", "rejected"}] /\ wReceipt'[j] # "none"
      /\ \A k \in Keys : wReceipt[k] # "none" \/ k # j => wReceipt'[k] = wReceipt[k]
      /\ wReceipt[j] = "none" => wReceipt'[j] = "rejected"
  BY <1>1, <1>3, ReceiptKept
<1> HIDE DEF j
<1>5. WebhookTypes'
  BY <1>2, <1>3, <1>4 DEF WebhookInv, WebhookTypes, Moves
<1>6. ASSUME NEW k \in Keys PROVE Counts(k)' /\ Honest(k)' /\ KeySound(k)'
  <2>1. /\ Past(k) \subseteq Past(k)'
        /\ Webhook!Answered(k, 202)' = Webhook!Answered(k, 202)
        /\ Webhook!Answered(k, 200)' = Webhook!Answered(k, 200)
    BY <1>1, <1>2, SetsMove DEF Webhook!Under
  <2>2. Counts(k)'
    BY <1>3, <2>1, CountsStay
  <2>3. Honest(k)'
    <3>1. Honest(k)
      BY DEF WebhookInv
    <3> QED
      BY <1>3, <1>4, <2>1, <3>1 DEF Honest
  <2>4. KeySound(k)'
    BY <1>1, <1>2, <1>3, <1>4 DEF WebhookInv, KeySound, IsUnder, Moves, Webhook!Under, j
  <2> QED
    BY <2>2, <2>3, <2>4
<1>7. (\A e \in Deliveries : RequestSound(e))'
  <2> SUFFICES ASSUME NEW e \in Deliveries PROVE RequestSound(e)'
    BY Zenon
  <2>1. RequestSound(e) /\ RequestSound(d)
    BY DEF WebhookInv
  <2> QED
    BY <1>1, <1>2, <1>3, <1>4, <2>1 DEF RequestSound, Moves, Webhook!Under
<1>8. (\A k \in Keys : KeySound(k) /\ Counts(k) /\ Honest(k))'
  BY <1>6, Zenon
<1> QED
  BY <1>5, <1>7, <1>8 DEF WebhookInv

LEMMA ReconcileFailsStep ==
    ASSUME WebhookInv, NEW d \in Deliveries, Webhook!ReconcileFails(d)
    PROVE  WebhookInv'
<1>1. /\ wDelivery[d].at \in {"received", "reconciled"} /\ wDelivery[d].answer = 0
      /\ wDelivery[d].key \in Keys
  BY DEF WebhookInv, RequestSound, Webhook!Under, Webhook!ReconcileFails
<1>2. Moves(d, "rejecting", 0)
  BY <1>1, RequestMoves DEF Webhook!ReconcileFails, WebhookInv, Places, Statuses, Webhook!Under
<1>3. UNCHANGED <<wReceipt, wRow, wTurns, wSpoilt>> /\ wFaults' \in 0 .. Faults + 1
  BY WebhookFault DEF Webhook!ReconcileFails
<1>4. WebhookTypes'
  BY <1>2, <1>3 DEF WebhookInv, WebhookTypes, Moves
<1>5. ASSUME NEW k \in Keys PROVE Counts(k)' /\ Honest(k)' /\ KeySound(k)'
  <2>1. /\ Past(k) \subseteq Past(k)'
        /\ Webhook!Answered(k, 202)' = Webhook!Answered(k, 202)
        /\ Webhook!Answered(k, 200)' = Webhook!Answered(k, 200)
    BY <1>1, <1>2, SetsMove DEF Webhook!Under
  <2>2. Counts(k)' /\ Honest(k)'
    BY <1>3, <2>1, CountsStay DEF WebhookInv, Honest
  <2>3. KeySound(k)'
    BY <1>1, <1>2, <1>3 DEF WebhookInv, KeySound, IsUnder, Moves, Webhook!Under
  <2> QED
    BY <2>2, <2>3
<1>6. (\A e \in Deliveries : RequestSound(e))'
  BY <1>1, <1>2, <1>3 DEF WebhookInv, RequestSound, Moves, Webhook!Under
<1>7. (\A k \in Keys : KeySound(k) /\ Counts(k) /\ Honest(k))'
  BY <1>5, Zenon
<1> QED
  BY <1>4, <1>6, <1>7 DEF WebhookInv

LEMMA LogFailsStep ==
    ASSUME WebhookInv, NEW d \in Deliveries, Webhook!LogFails(d)
    PROVE  WebhookInv'
<1> DEFINE j == wDelivery[d].key
<1>1. /\ wDelivery[d].at \in {"duplicate", "received", "rejecting"} /\ wDelivery[d].answer = 0
      /\ j \in Keys
  BY DEF WebhookInv, RequestSound, Webhook!Under, Webhook!LogFails
<1>2. Moves(d, "lost", 0)
  BY <1>1, RequestMoves DEF Webhook!LogFails, WebhookInv, Places, Statuses, Webhook!Under
<1>3. UNCHANGED <<wReceipt, wRow, wTurns>> /\ wFaults' \in 0 .. Faults + 1
  BY WebhookFault DEF Webhook!LogFails
<1>4. /\ wSpoilt \subseteq wSpoilt' /\ wSpoilt' \in SUBSET Keys
      /\ wDelivery[d].at = "rejecting" => j \in wSpoilt'
  BY <1>1 DEF Webhook!LogFails, Webhook!Spoil, WebhookInv, WebhookTypes
<1> HIDE DEF j
<1>5. WebhookTypes'
  BY <1>2, <1>3, <1>4 DEF WebhookInv, WebhookTypes, Moves
<1>6. ASSUME NEW k \in Keys PROVE Counts(k)' /\ Honest(k)' /\ KeySound(k)'
  <2>1. /\ Past(k) \subseteq Past(k)'
        /\ Webhook!Answered(k, 202)' = Webhook!Answered(k, 202)
        /\ Webhook!Answered(k, 200)' = Webhook!Answered(k, 200)
    BY <1>1, <1>2, SetsMove DEF Webhook!Under
  <2>2. Counts(k)' /\ Honest(k)'
    BY <1>3, <2>1, CountsStay DEF WebhookInv, Honest
  <2>3. KeySound(k)'
    <3> SUFFICES ASSUME k \notin wSpoilt' PROVE KeySound(k)'
      BY DEF KeySound
    <3>1. KeySound(k) /\ k \notin wSpoilt /\ (wDelivery[d].key = k => wDelivery[d].at # "rejecting")
      BY <1>4 DEF WebhookInv, j
    <3> QED
      BY <1>2, <1>3, <3>1 DEF KeySound, IsUnder, Moves, Webhook!Under
  <2> QED
    BY <2>2, <2>3
<1>7. (\A e \in Deliveries : RequestSound(e))'
  BY <1>1, <1>2, <1>3 DEF WebhookInv, RequestSound, Moves, Webhook!Under
<1>8. (\A k \in Keys : KeySound(k) /\ Counts(k) /\ Honest(k))'
  BY <1>6, Zenon
<1> QED
  BY <1>5, <1>7, <1>8 DEF WebhookInv

LEMMA WebhookDieStep ==
    ASSUME WebhookInv, Webhook!Die
    PROVE  WebhookInv'
<1>1. UNCHANGED <<wReceipt, wRow, wTurns>> /\ wFaults' \in 0 .. Faults + 1
  BY WebhookFault DEF Webhook!Die
<1>2. wDelivery \in [Deliveries -> Requests]
  BY DEF WebhookInv, WebhookTypes
<1>3. ASSUME NEW d \in Deliveries
      PROVE  /\ wDelivery'[d] \in Requests
             /\ wDelivery'[d].key = wDelivery[d].key /\ wDelivery'[d].answer = wDelivery[d].answer
             /\ wDelivery'[d].at = IF wDelivery[d].at \in Webhook!Under THEN "lost" ELSE wDelivery[d].at
  BY <1>2 DEF Webhook!Die, Requests, Places
<1>4. wDelivery' \in [Deliveries -> Requests]
  <2>1. wDelivery' = [d \in Deliveries |-> IF wDelivery[d].at \in Webhook!Under
                                           THEN [wDelivery[d] EXCEPT !.at = "lost"] ELSE wDelivery[d]]
    BY DEF Webhook!Die
  <2>2. wDelivery' = [d \in Deliveries |-> wDelivery'[d]]
    BY <2>1
  <2> QED
    BY <1>3, <2>2
<1>5. /\ wSpoilt \subseteq wSpoilt' /\ wSpoilt' \in SUBSET Keys
      /\ \A d \in Deliveries : wDelivery[d].at = "rejecting" => wDelivery[d].key \in wSpoilt'
  <2>1. wSpoilt' = wSpoilt \cup {wDelivery[d].key : d \in {e \in Deliveries : wDelivery[e].at = "rejecting"}}
    BY DEF Webhook!Die
  <2>2. \A d \in Deliveries : wDelivery[d].at = "rejecting" => wDelivery[d].key \in Keys
    BY DEF WebhookInv, RequestSound, Webhook!Under
  <2> QED
    BY <2>1, <2>2 DEF WebhookInv, WebhookTypes
<1>6. WebhookTypes'
  BY <1>1, <1>4, <1>5 DEF WebhookInv, WebhookTypes
<1>7. ASSUME NEW k \in Keys PROVE Counts(k)' /\ Honest(k)' /\ KeySound(k)'
  <2>1. /\ Past(k) \subseteq Past(k)'
        /\ Webhook!Answered(k, 202)' = Webhook!Answered(k, 202)
        /\ Webhook!Answered(k, 200)' = Webhook!Answered(k, 200)
    BY <1>3 DEF Past, Webhook!Answered, Webhook!Under
  <2>2. Counts(k)' /\ Honest(k)'
    BY <1>1, <2>1, CountsStay DEF WebhookInv, Honest
  <2>3. KeySound(k)'
    <3> SUFFICES ASSUME k \notin wSpoilt' PROVE KeySound(k)'
      BY DEF KeySound
    <3>1. /\ KeySound(k) /\ k \notin wSpoilt
          /\ ~\E d \in Deliveries : wDelivery[d].key = k /\ wDelivery[d].at = "rejecting"
      BY <1>5 DEF WebhookInv
    <3>2. \A d \in Deliveries : wDelivery'[d].at \notin Webhook!Under
      BY <1>3 DEF Webhook!Under
    <3> QED
      BY <1>1, <3>1, <3>2 DEF KeySound, IsUnder, Webhook!Under
  <2> QED
    BY <2>2, <2>3
<1>8. (\A e \in Deliveries : RequestSound(e))'
  BY <1>1, <1>3 DEF WebhookInv, RequestSound, Webhook!Under
<1>9. (\A k \in Keys : KeySound(k) /\ Counts(k) /\ Honest(k))'
  BY <1>7, Zenon
<1> QED
  BY <1>6, <1>8, <1>9 DEF WebhookInv

LEMMA WebhookInitially == Init => WebhookInv
<1> SUFFICES ASSUME Init PROVE WebhookInv
  OBVIOUS
<1>1. Webhook!Init
  BY DEF Init
<1>2. \A d \in Deliveries : wDelivery[d] = [at |-> "new", key |-> "none", answer |-> 0]
  BY <1>1 DEF Webhook!Init, Webhook!NewDelivery
<1>3. WebhookTypes
  BY <1>1, RuntimeAssumption
  DEF Webhook!Init, Webhook!NewDelivery, WebhookTypes, Requests, Places, Statuses
<1>4. \A d \in Deliveries : RequestSound(d)
  BY <1>2 DEF RequestSound, Webhook!Under
<1>5. ASSUME NEW k \in Keys PROVE KeySound(k) /\ Counts(k) /\ Honest(k)
  <2>1. Webhook!Answered(k, 202) = {} /\ Webhook!Answered(k, 200) = {} /\ wTurns[k] = 0
        /\ wReceipt[k] = "none"
    BY <1>1, <1>2 DEF Webhook!Init, Webhook!Answered
  <2>2. Cardinality({}) = 0 /\ Cardinality(Past(k)) \in Nat
    <3>1. Past(k) \in SUBSET Deliveries
      BY DEF Past
    <3> QED
      BY <3>1, FS_EmptySet, FS_Subset, FS_CardinalityType, RuntimeAssumption
  <2>3. KeySound(k)
    BY <1>2, <2>1 DEF KeySound, IsUnder, Webhook!Under
  <2> QED
    BY <2>1, <2>2, <2>3 DEF Counts, Honest
<1> QED
  BY <1>3, <1>4, <1>5 DEF WebhookInv

LEMMA WebhookStep == WebhookInv /\ [Webhook!Next]_WebhookVars => WebhookInv'
<1> SUFFICES ASSUME WebhookInv, [Webhook!Next]_WebhookVars PROVE WebhookInv'
  OBVIOUS
<1>1. CASE Webhook!Next
  BY <1>1, InvalidStep, ReceiveStep, DuplicateStep, ReconcileStep, ProcessStep, RejectStep,
     LogFailsStep, ReconcileFailsStep, RecordFailsStep, WebhookDieStep DEF Webhook!Next
<1>2. CASE UNCHANGED WebhookVars
  <2>1. UNCHANGED <<wReceipt, wRow, wTurns, wDelivery, wFaults, wSpoilt>>
    BY <1>2 DEF WebhookVars
  <2>2. WebhookTypes'
    BY <2>1 DEF WebhookInv, WebhookTypes
  <2>3. (\A d \in Deliveries : RequestSound(d))'
    BY <2>1 DEF WebhookInv, RequestSound
  <2>4. ASSUME NEW k \in Keys PROVE KeySound(k)' /\ Counts(k)' /\ Honest(k)'
    <3>1. KeySound(k) /\ Counts(k) /\ Honest(k)
      BY DEF WebhookInv
    <3>2. Past(k)' = Past(k) /\ \A n : Webhook!Answered(k, n)' = Webhook!Answered(k, n)
      BY <2>1 DEF Past, Webhook!Answered
    <3> QED
      BY <2>1, <3>1, <3>2 DEF KeySound, Counts, Honest, IsUnder
  <2>5. (\A k \in Keys : KeySound(k) /\ Counts(k) /\ Honest(k))'
    BY <2>4, Zenon
  <2> QED
    BY <2>2, <2>3, <2>5 DEF WebhookInv
<1> QED
  BY <1>1, <1>2

\* Repeated one after the other, a webhook is processed once at most, and what its
\* sender is answered is so.
THEOREM WebhooksAreProcessedOnce == Spec => []WebhookOnce
<1>1. WebhookInv => WebhookOnce
  <2> SUFFICES ASSUME WebhookInv PROVE Webhook!WebhookOnce
    BY DEF WebhookOnce
  <2>1. ASSUME NEW k \in Keys
        PROVE  /\ k \notin wSpoilt => wTurns[k] <= 1
               /\ Cardinality(Webhook!Answered(k, 202)) <= wTurns[k]
               /\ Webhook!Answered(k, 200) # {} => wTurns[k] > 0 \/ wReceipt[k] = "rejected"
               /\ Webhook!Answered(k, 202) # {} /\ k \in Queued => wRow[k] = "reconciled"
    <3>1. KeySound(k) /\ Counts(k) /\ Honest(k) /\ wReceipt[k] \in {"none", "accepted", "rejected"}
      BY DEF WebhookInv, WebhookTypes
    <3> QED
      BY <3>1 DEF KeySound, Counts, Honest
  <2>2. \A k \in Keys : Webhook!Cardinality(Webhook!Answered(k, 202)) = Cardinality(Webhook!Answered(k, 202))
    BY DEF Webhook!Cardinality, Cardinality
  <2> QED
    BY <2>1, <2>2 DEF Webhook!WebhookOnce
<1> QED
  BY <1>1, WebhookInitially, WebhookStep, WebhookPart, PTL DEF Spec

(***************************************************************************)
(* Tool servers.                                                            *)
(***************************************************************************)

McpTypes ==
    /\ mAdapter \in [Servers -> [state : {"disconnected", "connecting", "connected", "error"},
                                 at : {"new", "handshake", "log", "over"}]]
    /\ mCircuit \in [Servers -> [state : {"closed", "open", "half-open"}, failures : 0..FailureThreshold,
                                 successes : Nat, since : Nat]]
    /\ mRegistry \in [Mcp!Tools -> Servers \cup {"builtin", "none"}]
    /\ mCall \in [Slots -> [at : {"idle", "log", "server"}, server : Servers \cup {"none"}]]
    /\ mFaults \in 0..Faults
    /\ mStreak \in [Servers -> 0..FailureThreshold]

\* A server is connected from when its tools are listed.
AdapterSound(s) == /\ mAdapter[s].at \in {"new", "handshake"} => mAdapter[s].state # "connected"
                   /\ mAdapter[s].at = "log" => mAdapter[s].state = "connected"
NameSound(t) == /\ mRegistry[t] \in Servers \ mUnheard => mAdapter[mRegistry[t]].state = "connected"
                /\ \A s \in Servers : mAdapter[s].state = "connected" /\ t \in Offers[s] => mRegistry[t] \in Servers
CallSound(c) == mCall[c].at # "idle" => mCall[c].server \in Servers

\* The failures in a row are among those the breaker counts, and as many as its threshold
\* find it open, or were long ago.
BreakerSound(s) == /\ mStreak[s] <= mCircuit[s].failures
                   /\ mCircuit[s].state = "open" => mCircuit[s].failures = FailureThreshold
                   /\ mStreak[s] = FailureThreshold => mCircuit[s].state = "open" \/ mCircuit[s].since > Cooldown

McpInv == /\ McpTypes
          /\ \A s \in Servers : AdapterSound(s) /\ BreakerSound(s)
          /\ \A t \in Mcp!Tools : NameSound(t)
          /\ \A c \in Slots : CallSound(c)

LEMMA McpInitially == Init => McpInv
<1> SUFFICES ASSUME Mcp!Init PROVE McpInv
  BY DEF Init
<1> USE DEF Mcp!Init
<1>1. McpTypes
  BY RuntimeAssumption DEF McpTypes, Mcp!Idle
<1>2. ASSUME NEW s \in Servers PROVE AdapterSound(s) /\ BreakerSound(s)
  BY RuntimeAssumption DEF AdapterSound, BreakerSound
<1>3. ASSUME NEW t \in Mcp!Tools PROVE NameSound(t)
  BY RuntimeAssumption DEF NameSound
<1>4. ASSUME NEW c \in Slots PROVE CallSound(c)
  BY DEF CallSound, Mcp!Idle
<1> QED
  BY <1>1, <1>2, <1>3, <1>4 DEF McpInv

\* Steps of the connections leave the calls and the breakers alone, and the other way round.
LEMMA NamesKept ==
    ASSUME McpInv, UNCHANGED <<mAdapter, mRegistry, mUnheard>>
    PROVE  /\ \A s \in Servers : AdapterSound(s)'
           /\ \A t \in Mcp!Tools : NameSound(t)'
BY DEF McpInv, AdapterSound, NameSound

LEMMA BreakersKept ==
    ASSUME McpInv, UNCHANGED <<mCircuit, mStreak>>
    PROVE  \A s \in Servers : BreakerSound(s)'
BY DEF McpInv, BreakerSound

LEMMA CallsKept ==
    ASSUME McpInv, UNCHANGED mCall
    PROVE  \A c \in Slots : CallSound(c)'
BY DEF McpInv, CallSound

LEMMA McpTogether ==
    ASSUME McpTypes', \A s \in Servers : AdapterSound(s)', \A s \in Servers : BreakerSound(s)',
           \A t \in Mcp!Tools : NameSound(t)', \A c \in Slots : CallSound(c)'
    PROVE  McpInv'
<1>1. (\A s \in Servers : AdapterSound(s) /\ BreakerSound(s))'
  OBVIOUS
<1>2. (\A t \in Mcp!Tools : NameSound(t))'
  BY DEF Mcp!Tools
<1>3. (\A c \in Slots : CallSound(c))'
  OBVIOUS
<1> QED
  BY <1>1, <1>2, <1>3 DEF McpInv

LEMMA ConnectStep == ASSUME McpInv, NEW s \in Servers, Mcp!Connect(s) PROVE McpInv'
<1> USE DEF Mcp!Connect
<1>1. McpTypes'
  BY DEF McpInv, McpTypes
<1>2. ASSUME NEW z \in Servers PROVE AdapterSound(z)'
  BY DEF McpInv, McpTypes, AdapterSound
<1>3. ASSUME NEW t \in Mcp!Tools PROVE NameSound(t)'
  <2>1. NameSound(t) /\ AdapterSound(s)
    BY DEF McpInv
  <2> QED
    BY <2>1 DEF McpInv, McpTypes, NameSound, AdapterSound
<1> QED
  BY <1>1, <1>2, <1>3, BreakersKept, CallsKept, McpTogether

LEMMA DiscoverStep == ASSUME McpInv, NEW s \in Servers, Mcp!Discover(s) PROVE McpInv'
<1> USE DEF Mcp!Discover
<1>1. mRegistry' \in [Mcp!Tools -> Servers \cup {"builtin", "none"}]
  BY DEF McpInv, McpTypes, Mcp!Registered
<1>2. McpTypes'
  BY <1>1 DEF McpInv, McpTypes
<1>3. ASSUME NEW z \in Servers PROVE AdapterSound(z)'
  BY DEF McpInv, McpTypes, AdapterSound
<1>4. ASSUME NEW t \in Mcp!Tools PROVE NameSound(t)'
  <2>1. NameSound(t) /\ mRegistry'[t] = IF t \in Offers[s] THEN s ELSE mRegistry[t]
    BY DEF McpInv, Mcp!Registered
  <2>2. /\ mAdapter'[s].state = "connected"
        /\ \A z \in Servers \ {s} : mAdapter'[z] = mAdapter[z]
    BY DEF McpInv, McpTypes
  <2> QED
    BY <2>1, <2>2 DEF NameSound
<1> QED
  BY <1>2, <1>3, <1>4, BreakersKept, CallsKept, McpTogether

LEMMA ConnectedStep == ASSUME McpInv, NEW s \in Servers, Mcp!Connected(s) PROVE McpInv'
<1> USE DEF Mcp!Connected
<1>1. McpTypes'
  BY DEF McpInv, McpTypes
<1>2. ASSUME NEW z \in Servers PROVE AdapterSound(z)' /\ mAdapter'[z].state = mAdapter[z].state
  BY DEF McpInv, McpTypes, AdapterSound
<1>3. ASSUME NEW t \in Mcp!Tools PROVE NameSound(t)'
  <2>1. NameSound(t)
    BY DEF McpInv
  <2> QED
    BY <1>2, <2>1 DEF NameSound
<1> QED
  BY <1>1, <1>2, <1>3, BreakersKept, CallsKept, McpTogether

LEMMA ConnectFailsStep == ASSUME McpInv, NEW s \in Servers, Mcp!ConnectFails(s) PROVE McpInv'
<1> USE DEF Mcp!ConnectFails
<1>1. McpTypes'
  BY RuntimeAssumption DEF McpInv, McpTypes
<1>2. ASSUME NEW z \in Servers PROVE AdapterSound(z)'
  BY DEF McpInv, McpTypes, AdapterSound
<1>3. ASSUME NEW t \in Mcp!Tools PROVE NameSound(t)'
  <2>1. NameSound(t) /\ AdapterSound(s)
    BY DEF McpInv
  <2>2. /\ mAdapter'[s].state = "error"
        /\ \A z \in Servers \ {s} : mAdapter'[z] = mAdapter[z]
    BY DEF McpInv, McpTypes
  <2>3. mUnheard \subseteq mUnheard' /\ (mAdapter[s].state = "connected" => s \in mUnheard')
    BY <2>1 DEF AdapterSound
  <2> QED
    BY <2>1, <2>2, <2>3 DEF NameSound
<1> QED
  BY <1>1, <1>2, <1>3, BreakersKept, CallsKept, McpTogether

LEMMA FlipStep == ASSUME McpInv, NEW s \in Servers, Mcp!Flip(s) PROVE McpInv'
<1> USE DEF Mcp!Flip
<1>1. McpTypes'
  BY DEF McpInv, McpTypes
<1> QED
  BY <1>1, NamesKept, BreakersKept, CallsKept, McpTogether

LEMMA CallToolStep == ASSUME McpInv, NEW c \in Slots, NEW t \in Mcp!Tools, Mcp!CallTool(c, t) PROVE McpInv'
<1> USE DEF Mcp!CallTool
<1>1. McpTypes'
  BY DEF McpInv, McpTypes
<1>2. ASSUME NEW d \in Slots PROVE CallSound(d)'
  BY DEF McpInv, McpTypes, CallSound
<1> QED
  BY <1>1, <1>2, NamesKept, BreakersKept, McpTogether

LEMMA LogFailsOfCall == ASSUME McpInv, NEW c \in Slots, Mcp!LogFails(c) PROVE McpInv'
<1> USE DEF Mcp!LogFails, Mcp!Leave, Mcp!Idle
<1>1. McpTypes'
  BY RuntimeAssumption DEF McpInv, McpTypes
<1>2. ASSUME NEW d \in Slots PROVE CallSound(d)'
  BY DEF McpInv, McpTypes, CallSound
<1> QED
  BY <1>1, <1>2, NamesKept, BreakersKept, McpTogether

\* What a call does to the breaker of its server.
Breakers == [state : {"closed", "open", "half-open"}, failures : 0..FailureThreshold, successes : Nat, since : Nat]
LEMMA TransitionFacts ==
    ASSUME NEW k \in Breakers
    PROVE  /\ Mcp!Transition(k) \in Breakers
           /\ Mcp!Transition(k).failures = k.failures /\ Mcp!Transition(k).since = k.since
           /\ Mcp!Transition(k).state = "open" => k.state = "open"
           /\ k.state = "open" /\ k.since <= Cooldown => Mcp!Transition(k).state = "open"
BY RuntimeAssumption DEF Mcp!Transition, Breakers

LEMMA SuccessFacts ==
    ASSUME NEW k \in Breakers
    PROVE  /\ Mcp!AfterSuccess(k) \in Breakers
           /\ Mcp!AfterSuccess(k).state = "open" => k.state = "open" /\ Mcp!AfterSuccess(k).failures = k.failures
<1> DEFINE n == Mcp!Least(k.successes + 1, SuccessThreshold)
<1>1. n \in Nat
  BY RuntimeAssumption DEF Mcp!Least, Breakers
<1>2. Mcp!AfterSuccess(k) = IF k.state = "half-open" /\ n = SuccessThreshold
                            THEN [k EXCEPT !.state = "closed", !.failures = 0, !.successes = n]
                            ELSE [k EXCEPT !.successes = n]
  BY DEF Mcp!AfterSuccess
<1> HIDE DEF n
<1>3. CASE k.state = "half-open" /\ n = SuccessThreshold
  <2>1. Mcp!AfterSuccess(k) = [state |-> "closed", failures |-> 0, successes |-> n, since |-> k.since]
    BY <1>2, <1>3 DEF Breakers
  <2>2. 0 \in 0..FailureThreshold /\ k.since \in Nat
    BY RuntimeAssumption DEF Breakers
  <2> QED
    BY <1>1, <2>1, <2>2 DEF Breakers
<1>4. CASE ~(k.state = "half-open" /\ n = SuccessThreshold)
  <2>1. Mcp!AfterSuccess(k) = [k EXCEPT !.successes = n]
    BY <1>2, <1>4
  <2> QED
    BY <1>1, <2>1 DEF Breakers
<1> QED
  BY <1>3, <1>4

LEMMA FailureFacts ==
    ASSUME NEW k \in Breakers
    PROVE  /\ Mcp!AfterFailure(k) \in Breakers
           /\ Mcp!AfterFailure(k).failures = IF k.failures = FailureThreshold THEN k.failures ELSE k.failures + 1
           /\ Mcp!AfterFailure(k).failures = FailureThreshold => Mcp!AfterFailure(k).state = "open"
           /\ k.state # "open" /\ Mcp!AfterFailure(k).state = "open" => Mcp!AfterFailure(k).failures = FailureThreshold
           /\ k.failures = FailureThreshold => Mcp!AfterFailure(k).failures = FailureThreshold
BY RuntimeAssumption DEF Mcp!AfterFailure, Mcp!Least, Breakers

LEMMA EnterStep == ASSUME McpInv, NEW c \in Slots, Mcp!Enter(c) PROVE McpInv'
<1> DEFINE s == mCall[c].server
           k == Mcp!Transition(mCircuit[s])
<1>1. /\ mCall[c].at = "log" /\ mCircuit' = [mCircuit EXCEPT ![s] = k]
      /\ mCall' = [mCall EXCEPT ![c] = Mcp!Idle] \/ mCall' = [mCall EXCEPT ![c].at = "server"]
      /\ UNCHANGED <<mAdapter, mRegistry, mUp, mFaults, mUnheard, mStreak>>
  BY DEF Mcp!Enter, Mcp!Leave
<1>2. s \in Servers
  BY <1>1 DEF McpInv, CallSound
<1>3. mCircuit \in [Servers -> Breakers]
  BY DEF McpInv, McpTypes, Breakers
<1>4. /\ k \in Breakers /\ k.failures = mCircuit[s].failures /\ k.since = mCircuit[s].since
      /\ k.state = "open" => mCircuit[s].state = "open"
      /\ mCircuit[s].state = "open" /\ mCircuit[s].since <= Cooldown => k.state = "open"
  BY <1>2, <1>3, TransitionFacts
<1> HIDE DEF k
<1>5. mCircuit' \in [Servers -> Breakers] /\ mCircuit'[s] = k /\ \A z \in Servers \ {s} : mCircuit'[z] = mCircuit[z]
  BY <1>1, <1>2, <1>3, <1>4
<1>6. McpTypes'
  BY <1>1, <1>5, SMTT(30) DEF McpInv, McpTypes, Breakers, Mcp!Idle
<1>7. ASSUME NEW d \in Slots PROVE CallSound(d)'
  BY <1>1 DEF McpInv, McpTypes, CallSound, Mcp!Idle
<1>8. ASSUME NEW z \in Servers PROVE BreakerSound(z)'
  <2>1. BreakerSound(z) /\ mStreak' = mStreak /\ mCircuit[s].since \in Nat /\ mCircuit[s] \in Breakers
    BY <1>1, <1>2, <1>3 DEF McpInv, Breakers
  <2>2. CASE z = s
    BY <1>4, <1>5, <2>1, <2>2, RuntimeAssumption DEF BreakerSound
  <2>3. CASE z # s
    BY <1>5, <2>1, <2>3 DEF BreakerSound
  <2> QED
    BY <2>2, <2>3
<1> QED
  BY <1>1, <1>6, <1>7, <1>8, NamesKept, McpTogether

LEMMA SucceedStep == ASSUME McpInv, NEW c \in Slots, Mcp!Succeed(c) PROVE McpInv'
<1> DEFINE s == mCall[c].server
           k == Mcp!AfterSuccess(mCircuit[s])
<1>1. /\ mCall[c].at = "server" /\ mCircuit' = [mCircuit EXCEPT ![s] = k]
      /\ mStreak' = [mStreak EXCEPT ![s] = 0] /\ mCall' = [mCall EXCEPT ![c] = Mcp!Idle]
      /\ UNCHANGED <<mAdapter, mRegistry, mUp, mFaults, mUnheard>>
  BY DEF Mcp!Succeed, Mcp!Leave
<1>2. s \in Servers
  BY <1>1 DEF McpInv, CallSound
<1>3. mCircuit \in [Servers -> Breakers] /\ mStreak \in [Servers -> 0..FailureThreshold]
  BY DEF McpInv, McpTypes, Breakers
<1>4. k \in Breakers /\ (k.state = "open" => mCircuit[s].state = "open" /\ k.failures = mCircuit[s].failures)
  BY <1>2, <1>3, SuccessFacts
<1> HIDE DEF k
<1>5. /\ mCircuit' \in [Servers -> Breakers] /\ mCircuit'[s] = k
      /\ \A z \in Servers \ {s} : mCircuit'[z] = mCircuit[z] /\ mStreak'[z] = mStreak[z]
      /\ mStreak' \in [Servers -> 0..FailureThreshold] /\ mStreak'[s] = 0
  BY <1>1, <1>2, <1>3, <1>4, RuntimeAssumption
<1>6. McpTypes'
  BY <1>1, <1>5 DEF McpInv, McpTypes, Breakers, Mcp!Idle
<1>7. ASSUME NEW d \in Slots PROVE CallSound(d)'
  BY <1>1 DEF McpInv, McpTypes, CallSound, Mcp!Idle
<1>8. ASSUME NEW z \in Servers PROVE BreakerSound(z)'
  <2>1. BreakerSound(z) /\ k.failures \in Nat
    BY <1>4 DEF McpInv, Breakers
  <2>2. CASE z = s
    BY <1>4, <1>5, <2>1, <2>2, RuntimeAssumption DEF BreakerSound
  <2>3. CASE z # s
    BY <1>5, <2>1, <2>3 DEF BreakerSound
  <2> QED
    BY <2>2, <2>3
<1> QED
  BY <1>1, <1>6, <1>7, <1>8, NamesKept, McpTogether

LEMMA FailOfCall == ASSUME McpInv, NEW c \in Slots, Mcp!Fail(c) PROVE McpInv'
<1> DEFINE s == mCall[c].server
           k == Mcp!AfterFailure(mCircuit[s])
           n == Mcp!Least(mStreak[s] + 1, FailureThreshold)
<1>1. /\ mCall[c].at = "server" /\ mCircuit' = [mCircuit EXCEPT ![s] = k]
      /\ mStreak' = [mStreak EXCEPT ![s] = n] /\ mCall' = [mCall EXCEPT ![c] = Mcp!Idle]
      /\ UNCHANGED <<mAdapter, mRegistry, mUp, mFaults, mUnheard>>
  BY DEF Mcp!Fail, Mcp!Leave
<1>2. s \in Servers
  BY <1>1 DEF McpInv, CallSound
<1>3. /\ mCircuit \in [Servers -> Breakers] /\ mStreak \in [Servers -> 0..FailureThreshold]
      /\ BreakerSound(s) /\ mCircuit[s].failures \in 0..FailureThreshold
  BY <1>2 DEF McpInv, McpTypes, Breakers
<1>4. /\ k \in Breakers
      /\ k.failures = IF mCircuit[s].failures = FailureThreshold THEN FailureThreshold ELSE mCircuit[s].failures + 1
      /\ k.failures = FailureThreshold => k.state = "open"
      /\ k.state = "open" => k.failures = FailureThreshold
  <2>1. /\ mCircuit[s] \in Breakers
        /\ mCircuit[s].state = "open" => mCircuit[s].failures = FailureThreshold
    BY <1>2, <1>3 DEF BreakerSound
  <2> QED
    BY <2>1, FailureFacts
<1>5. n \in 0..FailureThreshold /\ n <= k.failures
  BY <1>2, <1>3, <1>4, RuntimeAssumption DEF BreakerSound, Mcp!Least
<1> HIDE DEF k, n
<1>6. /\ mCircuit' \in [Servers -> Breakers] /\ mCircuit'[s] = k
      /\ \A z \in Servers \ {s} : mCircuit'[z] = mCircuit[z] /\ mStreak'[z] = mStreak[z]
      /\ mStreak' \in [Servers -> 0..FailureThreshold] /\ mStreak'[s] = n
  BY <1>1, <1>2, <1>3, <1>4, <1>5
<1>7. McpTypes'
  BY <1>1, <1>6 DEF McpInv, McpTypes, Breakers, Mcp!Idle
<1>8. ASSUME NEW d \in Slots PROVE CallSound(d)'
  BY <1>1 DEF McpInv, McpTypes, CallSound, Mcp!Idle
<1>9. ASSUME NEW z \in Servers PROVE BreakerSound(z)'
  <2>1. BreakerSound(z) /\ k.failures \in 0..FailureThreshold
    BY <1>4 DEF McpInv, Breakers
  <2>2. CASE z = s
    BY <1>4, <1>5, <1>6, <2>1, <2>2, RuntimeAssumption DEF BreakerSound
  <2>3. CASE z # s
    BY <1>6, <2>1, <2>3 DEF BreakerSound
  <2> QED
    BY <2>2, <2>3
<1> QED
  BY <1>1, <1>7, <1>8, <1>9, NamesKept, McpTogether

LEMMA TickStep == ASSUME McpInv, Mcp!Tick PROVE McpInv'
<1>1. mCircuit' = [s \in Servers |-> [mCircuit[s] EXCEPT !.since = Mcp!Least(@ + 1, Cooldown + 1)]]
      /\ UNCHANGED <<mAdapter, mRegistry, mCall, mUp, mFaults, mUnheard, mStreak>>
  BY DEF Mcp!Tick
<1>2. ASSUME NEW s \in Servers
      PROVE  /\ mCircuit'[s] \in Breakers
             /\ mCircuit'[s].state = mCircuit[s].state /\ mCircuit'[s].failures = mCircuit[s].failures
             /\ mCircuit[s].since > Cooldown => mCircuit'[s].since > Cooldown
  <2>1. mCircuit[s] \in Breakers
    BY DEF McpInv, McpTypes, Breakers
  <2>2. mCircuit'[s] = [mCircuit[s] EXCEPT !.since = Mcp!Least(mCircuit[s].since + 1, Cooldown + 1)]
    BY <1>1
  <2> QED
    BY <2>1, <2>2, RuntimeAssumption DEF Breakers, Mcp!Least
<1>3. mCircuit' \in [Servers -> Breakers]
  BY <1>1, <1>2
<1>4. McpTypes'
  BY <1>1, <1>3 DEF McpInv, McpTypes, Breakers
<1>5. ASSUME NEW s \in Servers PROVE BreakerSound(s)'
  BY <1>1, <1>2 DEF McpInv, BreakerSound
<1> QED
  BY <1>1, <1>4, <1>5, NamesKept, CallsKept, McpTogether

LEMMA McpStep == McpInv /\ [Mcp!Next]_McpVars => McpInv'
<1> SUFFICES ASSUME McpInv, [Mcp!Next]_McpVars PROVE McpInv'
  OBVIOUS
<1>1. CASE Mcp!Next
  BY <1>1, ConnectStep, DiscoverStep, ConnectedStep, ConnectFailsStep, FlipStep, CallToolStep, EnterStep,
     LogFailsOfCall, SucceedStep, FailOfCall, TickStep DEF Mcp!Next
<1>2. CASE UNCHANGED McpVars
  <2>1. McpTypes'
    BY <1>2 DEF McpInv, McpTypes, McpVars
  <2> QED
    BY <1>2, <2>1, NamesKept, BreakersKept, CallsKept, McpTogether DEF McpVars
<1> QED
  BY <1>1, <1>2

\* A call goes on to its server only by the check of the breaker.
LEMMA OnlyEnter ==
    ASSUME McpInv, Mcp!Next, NEW c \in Slots, mCall[c].at = "log", mCall'[c].at = "server"
    PROVE  Mcp!Enter(c)
<1>1. DOMAIN mCall = Slots /\ \A d \in Slots : mCall[d] \in [at : {"idle", "log", "server"}, server : Servers \cup {"none"}]
  BY DEF McpInv, McpTypes
<1>2. mCall' # mCall
  OBVIOUS
<1>3. ASSUME NEW s \in Servers
      PROVE  ~(Mcp!Connect(s) \/ Mcp!Discover(s) \/ Mcp!Connected(s) \/ Mcp!ConnectFails(s) \/ Mcp!Flip(s))
  BY <1>2 DEF Mcp!Connect, Mcp!Discover, Mcp!Connected, Mcp!ConnectFails, Mcp!Flip
<1>4. ~Mcp!Tick
  BY <1>2 DEF Mcp!Tick
<1>5. ASSUME NEW d \in Slots, NEW t \in Mcp!Tools PROVE ~Mcp!CallTool(d, t)
  BY <1>1 DEF Mcp!CallTool
<1>6. ASSUME NEW d \in Slots PROVE ~(Mcp!LogFails(d) \/ Mcp!Succeed(d) \/ Mcp!Fail(d))
  BY <1>1 DEF Mcp!LogFails, Mcp!Succeed, Mcp!Fail, Mcp!Leave, Mcp!Idle
<1>7. PICK d \in Slots : Mcp!Enter(d)
  BY <1>3, <1>4, <1>5, <1>6 DEF Mcp!Next
<1>8. d = c
  BY <1>1, <1>7 DEF Mcp!Enter, Mcp!Leave, Mcp!Idle
<1> QED
  BY <1>7, <1>8

\* A registered tool can be called, and a server that keeps failing is spared.
THEOREM ServersAreSafe == Spec => McpSafe
<1> DEFINE Spared == \A c \in Slots : mCall[c].at = "log" /\ mCall'[c].at = "server" =>
                        LET s == mCall[c].server IN mStreak[s] < FailureThreshold \/ mCircuit[s].since > Cooldown
<1>1. McpInv => Mcp!ToolsCallable
  BY DEF McpInv, NameSound, Mcp!ToolsCallable
<1>2. McpInv /\ [Mcp!Next]_McpVars => [Spared]_(Mcp!vars)
  <2> SUFFICES ASSUME McpInv, Mcp!Next, NEW c \in Slots, mCall[c].at = "log", mCall'[c].at = "server"
               PROVE  mStreak[mCall[c].server] < FailureThreshold \/ mCircuit[mCall[c].server].since > Cooldown
    BY DEF McpVars, Mcp!vars
  <2> DEFINE s == mCall[c].server
  <2>1. Mcp!Enter(c)
    BY OnlyEnter
  <2>2. s \in Servers
    BY DEF McpInv, CallSound
  <2>3. BreakerSound(s) /\ mCircuit[s] \in Breakers /\ mStreak[s] \in 0..FailureThreshold
    BY <2>2 DEF McpInv, McpTypes, Breakers
  <2>4. Mcp!Transition(mCircuit[s]).state # "open"
    <3>1. mCall[c] \in [at : {"idle", "log", "server"}, server : Servers \cup {"none"}] /\ c \in DOMAIN mCall
      BY DEF McpInv, McpTypes
    <3> QED
      BY <2>1, <3>1 DEF Mcp!Enter, Mcp!Leave, Mcp!Idle
  <2>5. ~(mCircuit[s].state = "open" /\ mCircuit[s].since <= Cooldown) /\ mCircuit[s].since \in Nat
    BY <2>3, <2>4, TransitionFacts DEF Breakers
  <2> QED
    BY <2>3, <2>5, RuntimeAssumption DEF BreakerSound
<1>3. Spec => []McpInv
  BY McpInitially, McpStep, McpPart, PTL DEF Spec
<1>4. Mcp!FailingServerSpared <=> [][Spared]_(Mcp!vars)
  BY DEF Mcp!FailingServerSpared
<1> QED
  BY <1>1, <1>2, <1>3, <1>4, McpPart, PTL DEF Spec, McpSafe

(***************************************************************************)
(* Turns.                                                                   *)
(***************************************************************************)

Profiles == {<<>>} \cup {<<p>> : p \in Overrides}
Results == [name : STRING, result : {"unknown", "ran", "denied"}, override : Profiles]
Rows == [role : {"user", "report", "assistant", "guard", "tool"}, calls : Nat]
TurnRecords == [at : {"new", "user", "delegated", "model", "said", "calls", "storing", "over", "failed"},
                session : Sessions \cup {"none"}, round : 0 .. MaxRounds, batch : Seq(STRING),
                results : Seq(Results), previous : Seq(STRING), repeats : Nat]

TalkTypes ==
    /\ tTurn \in [Slots -> TurnRecords]
    /\ tRows \in [Slots -> Seq(Rows)]
    /\ tTools \subseteq Talk!ToolsOf(tRegistered)
    /\ tOverride \in [Sessions -> Profiles]
    /\ tBatches \in [Slots -> Seq(Seq(STRING))]

\* A call that ran was granted.
Granted(r, skills) ==
    /\ Named[r.name].permitted /\ Named[r.name].skill \in skills
    /\ ~Talk!Denies(r.override, r.name)
    /\ Named[r.name].scope = "high-risk" =>
          \E p \in {Global} \cup {q \in Overrides : r.override = <<q>>} : Talk!RulesFor(p, r.name) = <<"allow">>
ResultsGranted(u, skills) == \A i \in 1 .. Len(u.results) : u.results[i].result = "ran" => Granted(u.results[i], skills)

\* Of the batches of a turn, the last `repeats` are the previous one, and the one before them is not.
NoRun(b) == \A i \in 1 .. Len(b) + 1 - RepeatLimit : \E j \in i + 1 .. i + RepeatLimit - 1 : b[j] # b[i]
Counted(u, b) ==
    /\ u.repeats < RepeatLimit /\ u.repeats <= Len(b)
    /\ b = <<>> => u.previous = <<>>
    /\ b # <<>> => u.repeats > 0
    /\ \A i \in Len(b) - u.repeats + 1 .. Len(b) : b[i] = u.previous
    /\ u.repeats < Len(b) => b[Len(b) - u.repeats] # u.previous
BatchesSound(u, b) ==
    /\ Len(b) <= MaxRounds /\ NoRun(b)
    /\ u.at \in {"new", "user", "delegated"} => b = <<>> /\ Counted(u, b)
    /\ u.at \in {"model", "said"} => u.round = Len(b) + 1 /\ Counted(u, b)
    /\ u.at \in {"calls", "storing"} => u.round = Len(b) /\ Counted(u, b)

\* Of the first n rows, every answer is followed by the results of its calls and no others.
Paired(own, n) ==
    \A i \in 1 .. n : own[i].role = "assistant" =>
        /\ i + own[i].calls <= n
        /\ \A j \in i + 1 .. i + own[i].calls : own[j].role = "tool"
        /\ i + own[i].calls + 1 <= n => own[i + own[i].calls + 1].role # "tool"
\* Row p is an answer with so many calls, and what follows are results.
Answering(own, p, calls) ==
    /\ p \in 1 .. Len(own) /\ own[p].role = "assistant" /\ own[p].calls = calls
    /\ Paired(own, p - 1)
    /\ \A j \in p + 1 .. Len(own) : own[j].role = "tool"
RowsSound(u, own) ==
    /\ IF u.at = "new" THEN own = <<>> ELSE own # <<>> /\ own[1].role = "user"
    /\ u.at \in {"user", "delegated", "model"} => Paired(own, Len(own))
    /\ u.at \in {"said", "calls"} => Answering(own, Len(own), Len(u.batch))
    /\ u.at = "said" => u.results = <<>>
    /\ u.at = "calls" => u.batch # <<>>
    /\ u.at \in {"calls", "storing"} => Len(u.results) <= Len(u.batch)
    /\ u.at = "storing" => Answering(own, Len(own) + Len(u.results) - Len(u.batch), Len(u.batch))
    /\ u.at = "over" => \/ Paired(own, Len(own))
                        \/ /\ Len(own) > 1 /\ own[Len(own)].role = "guard" /\ own[Len(own) - 1].role = "assistant"
                           /\ Paired(own, Len(own) - 2)

TalkSound(u, own, b, skills) == ResultsGranted(u, skills) /\ BatchesSound(u, b) /\ RowsSound(u, own)
TalkInv == TalkTypes /\ \A t \in Slots : TalkSound(tTurn[t], tRows[t], tBatches[t], tRegistered)

UnderWay(u) == u.at \notin {"new", "over", "failed"}
SessionsKnown == \A t \in Slots : UnderWay(tTurn[t]) => tTurn[t].session \in Sessions

LEMMA TalkTogether ==
  ASSUME TalkInv, NEW t \in Slots, tTurn' \in [Slots -> TurnRecords], tRows' \in [Slots -> Seq(Rows)],
         tBatches' \in [Slots -> Seq(Seq(STRING))],
         \A s \in Slots \ {t} : tTurn'[s] = tTurn[s] /\ tRows'[s] = tRows[s] /\ tBatches'[s] = tBatches[s],
         tTools' \subseteq Talk!ToolsOf(tRegistered), UNCHANGED <<tRegistered, tOverride>>,
         TalkSound(tTurn'[t], tRows'[t], tBatches'[t], tRegistered)
  PROVE  TalkInv'
<1>1. TalkTypes'
  BY DEF TalkInv, TalkTypes, Talk!ToolsOf
<1>2. \A s \in Slots : TalkSound(tTurn'[s], tRows'[s], tBatches'[s], tRegistered')
  <2> SUFFICES ASSUME NEW s \in Slots PROVE TalkSound(tTurn'[s], tRows'[s], tBatches'[s], tRegistered')
    OBVIOUS
  <2>1. CASE s = t
    BY <2>1, Zenon
  <2>2. CASE s # t
    <3>1. TalkSound(tTurn[s], tRows[s], tBatches[s], tRegistered)
      BY Zenon DEF TalkInv
    <3>2. tTurn'[s] = tTurn[s] /\ tRows'[s] = tRows[s] /\ tBatches'[s] = tBatches[s] /\ tRegistered' = tRegistered
      BY <2>2
    <3> QED
      BY <3>1, <3>2, Zenon
  <2> QED
    BY <2>1, <2>2
<1> QED
  BY <1>1, <1>2, Zenon DEF TalkInv

\* A row is added.
LEMMA SavedFacts ==
  ASSUME TalkTypes, NEW t \in Slots, NEW role \in {"user", "report", "assistant", "guard", "tool"}, NEW calls \in Nat,
         Talk!Saved(t, role, calls)
  PROVE  /\ tRows' \in [Slots -> Seq(Rows)]
         /\ \A s \in Slots \ {t} : tRows'[s] = tRows[s]
         /\ tRows'[t] = Append(tRows[t], [role |-> role, calls |-> calls])
<1>1. [role |-> role, calls |-> calls] \in Rows
  BY DEF Rows
<1>2. tRows \in [Slots -> Seq(Rows)]
  BY DEF TalkTypes
<1> QED
  BY <1>1, <1>2 DEF Talk!Saved

\* The turn of t is u.
TurnIs(t, u) == /\ tTurn' \in [Slots -> TurnRecords] /\ tTurn'[t] = u
                /\ \A s \in Slots \ {t} : tTurn'[s] = tTurn[s]

LEMMA TurnMoves ==
  ASSUME TalkTypes, NEW t \in Slots, NEW u \in TurnRecords, tTurn' = [tTurn EXCEPT ![t] = u]
  PROVE  TurnIs(t, u)
BY DEF TalkTypes, TurnIs

LEMMA UnusedFacts ==
  /\ Talk!Unused \in TurnRecords /\ Talk!Unused.results = <<>> /\ Talk!Unused.at = "new"
  /\ Talk!Unused.previous = <<>> /\ Talk!Unused.repeats = 0
<1>1. Talk!Unused.results = <<>> /\ Talk!Unused.at = "new" /\ Talk!Unused.previous = <<>> /\ Talk!Unused.repeats = 0
  BY SMT DEF Talk!Unused
<1>2. 0 \in 0 .. MaxRounds /\ <<>> \in Seq(STRING) /\ <<>> \in Seq(Results)
  BY TalkAssumption, SMT
<1>3. Talk!Unused \in TurnRecords
  BY <1>2, SMT DEF Talk!Unused, TurnRecords
<1> QED
  BY <1>1, <1>3

LEMMA LeaveFacts ==
  ASSUME TalkTypes, NEW t \in Slots, NEW at \in {"over", "failed"}, Talk!Leave(t, at)
  PROVE  tTurn'[t].at = at /\ tTurn'[t].results = <<>> /\ TurnIs(t, tTurn'[t])
<1>1. PICK u : u = Talk!Unused
  OBVIOUS
<1>2. u \in TurnRecords /\ u.results = <<>>
  BY <1>1, UnusedFacts
<1>3. PICK v : v = [u EXCEPT !.at = at]
  OBVIOUS
<1>4. v \in TurnRecords /\ v.at = at /\ v.results = <<>>
  BY <1>2, <1>3 DEF TurnRecords
<1>5. tTurn' = [tTurn EXCEPT ![t] = v]
  BY <1>1, <1>3 DEF Talk!Leave
<1> QED
  BY <1>4, <1>5, TurnMoves DEF TurnIs

LEMMA TalkInitially == Init => TalkInv
<1> SUFFICES ASSUME Init PROVE TalkInv
  OBVIOUS
<1>1. PICK u : u = Talk!Unused
  OBVIOUS
<1>2. u \in TurnRecords /\ u.at = "new" /\ u.results = <<>> /\ u.previous = <<>> /\ u.repeats = 0
  BY <1>1, UnusedFacts
<1>3. /\ tTurn = [t \in Slots |-> u] /\ tRows = [t \in Slots |-> <<>>] /\ tBatches = [t \in Slots |-> <<>>]
      /\ tOverride = [s \in Sessions |-> <<>>] /\ tTools = Talk!ToolsOf(tRegistered)
  BY <1>1 DEF Init, Talk!Init
<1>4. TalkTypes
  BY <1>2, <1>3 DEF TalkTypes, Profiles
<1>5. ASSUME NEW t \in Slots PROVE TalkSound(tTurn[t], tRows[t], tBatches[t], tRegistered)
  <2>1. tTurn[t] = u /\ tRows[t] = <<>> /\ tBatches[t] = <<>>
    BY <1>3
  <2>2. ResultsGranted(u, tRegistered)
    BY <1>2 DEF ResultsGranted
  <2>3. BatchesSound(u, <<>>)
    BY <1>2, TalkAssumption DEF BatchesSound, Counted, NoRun
  <2>4. RowsSound(u, <<>>)
    BY <1>2 DEF RowsSound
  <2> QED
    BY <2>1, <2>2, <2>3, <2>4 DEF TalkSound
<1> QED
  BY <1>4, <1>5 DEF TalkInv

(***************************************************************************)
(* Rows.                                                                    *)
(***************************************************************************)

LEMMA RowsFacts ==
  ASSUME NEW own \in Seq(Rows)
  PROVE  /\ Len(own) \in Nat /\ \A i \in 1 .. Len(own) : own[i] \in Rows /\ own[i].calls \in Nat
         /\ \A row \in Rows : /\ Append(own, row) \in Seq(Rows) /\ Len(Append(own, row)) = Len(own) + 1
                             /\ Append(own, row)[Len(own) + 1] = row
                             /\ \A i \in 1 .. Len(own) : Append(own, row)[i] = own[i]
<1>1. Len(own) \in Nat /\ \A i \in 1 .. Len(own) : own[i] \in Rows
  OBVIOUS
<1>2. \A row \in Rows : row.calls \in Nat
  BY DEF Rows
<1> QED
  BY <1>1, <1>2

\* The rows there are stay as they are.
LEMMA PairedStays ==
  ASSUME NEW own \in Seq(Rows), NEW row \in Rows, NEW n \in 0 .. Len(own), Paired(own, n)
  PROVE  Paired(Append(own, row), n)
<1>1. PICK more : more = Append(own, row)
  OBVIOUS
<1>2. more \in Seq(Rows) /\ Len(more) = Len(own) + 1 /\ \A i \in 1 .. Len(own) : more[i] = own[i]
  BY <1>1, RowsFacts
<1>3. n \in Nat /\ \A i \in 1 .. n : own[i].calls \in Nat
  BY RowsFacts
<1>4. Paired(more, n)
  <2> SUFFICES ASSUME NEW i \in 1 .. n, more[i].role = "assistant"
               PROVE  /\ i + more[i].calls <= n
                      /\ \A j \in i + 1 .. i + more[i].calls : more[j].role = "tool"
                      /\ i + more[i].calls + 1 <= n => more[i + more[i].calls + 1].role # "tool"
    BY DEF Paired
  <2>1. more[i] = own[i] /\ i \in 1 .. Len(own)
    BY <1>2, <1>3
  <2>2. PICK c \in Nat : c = own[i].calls
    BY <1>3
  <2>3. /\ i + c <= n /\ \A j \in i + 1 .. i + c : own[j].role = "tool"
        /\ i + c + 1 <= n => own[i + c + 1].role # "tool"
    BY <2>1, <2>2 DEF Paired
  <2>4. \A j \in 1 .. n : more[j] = own[j]
    BY <1>2, <1>3
  <2>5. \A j \in i + 1 .. i + c : j \in 1 .. n
    BY <2>3, <1>3
  <2>6. i + c + 1 <= n => i + c + 1 \in 1 .. n
    BY <1>3
  <2> QED
    BY <2>1, <2>2, <2>3, <2>4, <2>5, <2>6
<1> QED
  BY <1>1, <1>4

\* A row that is neither an answer nor a result.
LEMMA PairedMore ==
  ASSUME NEW own \in Seq(Rows), NEW row \in Rows, row.role \notin {"assistant", "tool"}, Paired(own, Len(own))
  PROVE  Paired(Append(own, row), Len(own) + 1)
<1>1. PICK more : more = Append(own, row)
  OBVIOUS
<1>2. more \in Seq(Rows) /\ Len(more) = Len(own) + 1 /\ more[Len(own) + 1] = row
  BY <1>1, RowsFacts
<1>3. Paired(more, Len(own))
  BY <1>1, PairedStays
<1>4. Len(own) \in Nat /\ \A i \in 1 .. Len(own) + 1 : more[i].calls \in Nat
  BY <1>2, RowsFacts
<1>5. Paired(more, Len(own) + 1)
  BY <1>2, <1>3, <1>4 DEF Paired
<1> QED
  BY <1>1, <1>5

\* An answer after which all its results came.
LEMMA PairedByResults ==
  ASSUME NEW own \in Seq(Rows), NEW p \in Nat, NEW calls \in Nat, Answering(own, p, calls), p + calls = Len(own)
  PROVE  Paired(own, Len(own))
<1>1. Len(own) \in Nat /\ \A i \in 1 .. Len(own) : own[i].calls \in Nat
  BY RowsFacts
<1>2. p \in 1 .. Len(own) /\ own[p].calls = calls /\ Paired(own, p - 1) /\ own[p].role = "assistant"
      /\ \A j \in p + 1 .. Len(own) : own[j].role = "tool"
  BY DEF Answering
<1> SUFFICES ASSUME NEW i \in 1 .. Len(own), own[i].role = "assistant"
             PROVE  /\ i + own[i].calls <= Len(own)
                    /\ \A j \in i + 1 .. i + own[i].calls : own[j].role = "tool"
                    /\ i + own[i].calls + 1 <= Len(own) => own[i + own[i].calls + 1].role # "tool"
  BY DEF Paired
<1>3. PICK c \in Nat : c = own[i].calls
  BY <1>1
<1>4. CASE i < p
  <2>1. i \in 1 .. p - 1
    BY <1>2, <1>4
  <2>2. /\ i + c <= p - 1 /\ \A j \in i + 1 .. i + c : own[j].role = "tool"
        /\ i + c + 1 <= p - 1 => own[i + c + 1].role # "tool"
    BY <1>2, <1>3, <2>1 DEF Paired
  <2>3. i + c + 1 <= p - 1 \/ i + c + 1 = p
    BY <2>2
  <2> QED
    BY <1>1, <1>2, <1>3, <2>2, <2>3
<1>5. CASE i = p
  BY <1>1, <1>2, <1>3, <1>5
<1>6. CASE i > p
  <2>1. i \in p + 1 .. Len(own)
    BY <1>6, <1>1
  <2> QED
    BY <1>2, <2>1
<1> QED
  BY <1>4, <1>5, <1>6, <1>1

LEMMA AnsweringStays ==
  ASSUME NEW own \in Seq(Rows), NEW p \in Nat, NEW calls \in Nat, Answering(own, p, calls),
         NEW row \in Rows, row.role = "tool"
  PROVE  Answering(Append(own, row), p, calls)
<1>1. PICK more : more = Append(own, row)
  OBVIOUS
<1>2. /\ more \in Seq(Rows) /\ Len(more) = Len(own) + 1 /\ more[Len(own) + 1] = row
      /\ \A i \in 1 .. Len(own) : more[i] = own[i]
  BY <1>1, RowsFacts
<1>3. p - 1 \in 0 .. Len(own) /\ Paired(own, p - 1)
  BY DEF Answering
<1>4. Paired(more, p - 1)
  BY <1>1, <1>3, PairedStays
<1>5. Answering(more, p, calls)
  BY <1>2, <1>4 DEF Answering
<1> QED
  BY <1>1, <1>5

LEMMA AnswerBegins ==
  ASSUME NEW own \in Seq(Rows), NEW calls \in Nat, Paired(own, Len(own))
  PROVE  Answering(Append(own, [role |-> "assistant", calls |-> calls]), Len(own) + 1, calls)
<1>1. PICK row : row = [role |-> "assistant", calls |-> calls]
  OBVIOUS
<1>2. row \in Rows /\ row.role = "assistant" /\ row.calls = calls
  BY <1>1 DEF Rows
<1>3. PICK more : more = Append(own, row)
  OBVIOUS
<1>4. Paired(more, Len(own))
  BY <1>2, <1>3, PairedStays
<1>5. more \in Seq(Rows) /\ Len(more) = Len(own) + 1 /\ more[Len(own) + 1] = row
  BY <1>2, <1>3, RowsFacts
<1>6. Answering(more, Len(own) + 1, calls)
  BY <1>2, <1>4, <1>5 DEF Answering
<1> QED
  BY <1>1, <1>3, <1>6

(***************************************************************************)
(* Batches.                                                                 *)
(***************************************************************************)

\* A batch that does not come too often in a row is counted.
LEMMA CountedMore ==
  ASSUME NEW b \in Seq(Seq(STRING)), NEW batch \in Seq(STRING), batch # <<>>, NoRun(b),
         NEW u, u.previous \in Seq(STRING), u.repeats \in Nat, Counted(u, b),
         NEW v, v.previous = batch, v.repeats = IF batch = u.previous THEN u.repeats + 1 ELSE 1, v.repeats < RepeatLimit
  PROVE  Counted(v, Append(b, batch)) /\ NoRun(Append(b, batch))
<1>1. PICK more : more = Append(b, batch)
  OBVIOUS
<1>2. PICK n : n = Len(b)
  OBVIOUS
<1>3. /\ n \in Nat /\ Len(more) = n + 1 /\ more[n + 1] = batch /\ more # <<>>
      /\ \A i \in 1 .. n : more[i] = b[i]
  BY <1>1, <1>2
<1>4. PICK r \in Nat : r = u.repeats
  OBVIOUS
<1>5. PICK q \in Nat : q = v.repeats
  BY <1>4
<1>6. PICK prev : prev = u.previous
  OBVIOUS
<1>7. /\ r < RepeatLimit /\ r <= n /\ (n = 0 => prev = <<>>) /\ (n # 0 => r > 0)
      /\ \A i \in n - r + 1 .. n : b[i] = prev
      /\ r < n => b[n - r] # prev
  BY <1>2, <1>4, <1>6 DEF Counted
<1>8. q = (IF batch = prev THEN r + 1 ELSE 1) /\ q < RepeatLimit
  BY <1>4, <1>5, <1>6
<1>9. /\ q <= n + 1 /\ q > 0
      /\ \A i \in n + 1 - q + 1 .. n + 1 : more[i] = batch
      /\ q < n + 1 => more[n + 1 - q] # batch
  <2>1. CASE batch = prev
    <3>1. q = r + 1 /\ n + 1 - q = n - r /\ n + 1 - q + 1 = n - r + 1 /\ (q < n + 1 <=> r < n)
      BY <1>3, <1>8, <2>1
    <3>2. q <= n + 1 /\ q > 0
      BY <1>3, <1>7, <3>1
    <3>3. ASSUME NEW i \in n - r + 1 .. n + 1 PROVE more[i] = batch
      <4>1. i = n + 1 \/ (i \in n - r + 1 .. n /\ i \in 1 .. n)
        BY <1>3, <1>7
      <4> QED
        BY <1>3, <1>7, <2>1, <4>1
    <3>4. r < n => n - r \in 1 .. n /\ more[n - r] # batch
      <4>1. r < n => n - r \in 1 .. n
        BY <1>3, <1>7, <2>1
      <4> QED
        BY <1>3, <1>7, <2>1, <4>1
    <3> QED
      BY <3>1, <3>2, <3>3, <3>4
  <2>2. CASE batch # prev
    <3>1. q = 1
      BY <1>8, <2>2
    <3>2. 1 < n + 1 => n \in n - r + 1 .. n /\ n \in 1 .. n
      BY <1>3, <1>7
    <3>3. 1 < n + 1 => more[n] = prev
      BY <1>3, <1>7, <3>2
    <3> QED
      BY <1>3, <2>2, <3>1, <3>3
  <2> QED
    BY <2>1, <2>2
<1>10. Counted(v, more)
  <2>1. Len(more) - v.repeats + 1 = n + 1 - q + 1 /\ Len(more) - v.repeats = n + 1 - q
    <3>1. Len(more) = n + 1 /\ v.repeats = q
      BY <1>3, <1>5
    <3>2. \A x, y \in Nat : x = n + 1 /\ y = q => x - y + 1 = n + 1 - q + 1 /\ x - y = n + 1 - q
      BY <1>3
    <3>3. Len(more) \in Nat /\ v.repeats \in Nat
      BY <1>3, <3>1
    <3> QED
      BY <3>1, <3>2, <3>3, Zenon
  <2>2. /\ v.repeats < RepeatLimit /\ v.repeats <= Len(more) /\ v.repeats > 0
        /\ \A i \in Len(more) - v.repeats + 1 .. Len(more) : more[i] = v.previous
        /\ v.repeats < Len(more) => more[Len(more) - v.repeats] # v.previous
    BY <1>3, <1>5, <1>8, <1>9, <2>1
  <2> QED
    BY <1>3, <2>2, Zenon DEF Counted
<1>11. NoRun(more)
  <2> SUFFICES ASSUME NEW i \in 1 .. n + 2 - RepeatLimit
               PROVE  \E j \in i + 1 .. i + RepeatLimit - 1 : more[j] # more[i]
    <3>1. Len(more) + 1 - RepeatLimit = n + 2 - RepeatLimit
      BY <1>3, TalkAssumption
    <3> QED
      BY <3>1, Zenon DEF NoRun
  <2>1. RepeatLimit \in Nat \ {0}
    BY TalkAssumption
  <2>2. CASE i <= n + 1 - RepeatLimit
    <3>1. PICK j \in i + 1 .. i + RepeatLimit - 1 : b[j] # b[i]
      <4>1. i \in 1 .. Len(b) + 1 - RepeatLimit
        BY <1>2, <1>3, <2>1, <2>2
      <4> QED
        BY <4>1, Zenon DEF NoRun
    <3>2. j \in 1 .. n /\ i \in 1 .. n
      BY <1>3, <2>1, <2>2
    <3> QED
      BY <1>3, <3>1, <3>2
  <2>3. CASE i = n + 2 - RepeatLimit
    <3>1. n + 1 - q \in i .. n + 1 /\ n + 1 \in i + 1 .. i + RepeatLimit - 1 /\ i + RepeatLimit - 1 = n + 1
      BY <1>3, <1>8, <1>9, <2>1, <2>3
    <3>2. more[n + 1 - q] # more[n + 1]
      BY <1>3, <1>8, <1>9, <2>1, <2>3
    <3>3. n + 1 - q = i \/ n + 1 - q \in i + 1 .. i + RepeatLimit - 1
      BY <1>3, <3>1, <2>1
    <3> QED
      BY <3>1, <3>2, <3>3
  <2> QED
    BY <1>3, <2>1, <2>2, <2>3
<1> QED
  BY <1>1, <1>10, <1>11

(***************************************************************************)
(* The steps of a turn.                                                     *)
(***************************************************************************)

LEMMA TurnFacts ==
  ASSUME TalkInv, NEW t \in Slots
  PROVE  /\ tTurn[t] \in TurnRecords /\ tRows[t] \in Seq(Rows) /\ tBatches[t] \in Seq(Seq(STRING))
         /\ ResultsGranted(tTurn[t], tRegistered) /\ BatchesSound(tTurn[t], tBatches[t]) /\ RowsSound(tTurn[t], tRows[t])
BY DEF TalkInv, TalkTypes, TalkSound

\* A step of a turn that carries out no batch.
LEMMA TurnStep ==
  ASSUME TalkInv, NEW t \in Slots, NEW u, TurnIs(t, u), Talk!KeepShared, Talk!KeepHistory,
         tTools' = tTools \/ tTools' = Talk!ToolsOf(tRegistered),
         tRows' \in [Slots -> Seq(Rows)], \A r \in Slots \ {t} : tRows'[r] = tRows[r],
         ResultsGranted(u, tRegistered), BatchesSound(u, tBatches[t]), RowsSound(u, tRows'[t])
  PROVE  TalkInv'
<1>1. TalkSound(tTurn'[t], tRows'[t], tBatches'[t], tRegistered)
  BY DEF TalkSound, TurnIs, Talk!KeepHistory
<1>2. tBatches' = tBatches /\ tBatches \in [Slots -> Seq(Seq(STRING))] /\ tTools' \subseteq Talk!ToolsOf(tRegistered)
  BY DEF TalkInv, TalkTypes, Talk!KeepHistory
<1> QED
  BY <1>1, <1>2, TalkTogether DEF TurnIs, Talk!KeepShared

LEMMA RowsKept == ASSUME TalkInv, UNCHANGED tRows PROVE tRows' \in [Slots -> Seq(Rows)]
BY DEF TalkInv, TalkTypes

LEMMA BeginStep == ASSUME TalkInv, NEW t \in Slots, NEW s \in Sessions, Talk!Begin(t, s) PROVE TalkInv'
<1>1. PICK w \in TurnRecords : w = tTurn[t]
  BY TurnFacts
<1>2. PICK own \in Seq(Rows) : own = tRows[t]
  BY TurnFacts
<1>3. PICK b \in Seq(Seq(STRING)) : b = tBatches[t]
  BY TurnFacts
<1>4. w.at = "new" /\ own = <<>> /\ ResultsGranted(w, tRegistered) /\ BatchesSound(w, b)
  BY <1>1, <1>2, <1>3, TurnFacts DEF Talk!Begin, RowsSound
<1>5. PICK u : u = [w EXCEPT !.at = "user", !.session = s]
  OBVIOUS
<1>6. u \in TurnRecords /\ u.at = "user" /\ u.results = w.results /\ u.previous = w.previous /\ u.repeats = w.repeats
  BY <1>5 DEF TurnRecords
<1>7. tTurn' = [tTurn EXCEPT ![t] = u]
  BY <1>1, <1>5 DEF Talk!Begin
<1>8. TurnIs(t, u)
  BY <1>6, <1>7, TurnMoves DEF TalkInv
<1>9. /\ tRows' \in [Slots -> Seq(Rows)] /\ \A r \in Slots \ {t} : tRows'[r] = tRows[r]
      /\ tRows'[t] = Append(own, [role |-> "user", calls |-> 0])
  BY <1>2, SavedFacts DEF TalkInv, Talk!Begin
<1>10. RowsSound(u, tRows'[t])
  BY <1>4, <1>6, <1>9 DEF RowsSound, Paired
<1>11. BatchesSound(u, b) /\ ResultsGranted(u, tRegistered)
  BY <1>4, <1>6 DEF BatchesSound, Counted, ResultsGranted
<1> QED
  BY <1>3, <1>8, <1>9, <1>10, <1>11, TurnStep DEF Talk!Begin

LEMMA DelegateStep == ASSUME TalkInv, NEW t \in Slots, Talk!Delegate(t) PROVE TalkInv'
<1>1. PICK w \in TurnRecords : w = tTurn[t]
  BY TurnFacts
<1>2. PICK own \in Seq(Rows) : own = tRows[t]
  BY TurnFacts
<1>3. PICK b \in Seq(Seq(STRING)) : b = tBatches[t]
  BY TurnFacts
<1>4. /\ w.at = "user" /\ own # <<>> /\ own[1].role = "user" /\ Paired(own, Len(own))
      /\ ResultsGranted(w, tRegistered) /\ BatchesSound(w, b)
  BY <1>1, <1>2, <1>3, TurnFacts DEF Talk!Delegate, RowsSound
<1>5. PICK u : u = [w EXCEPT !.at = "delegated"]
  OBVIOUS
<1>6. u \in TurnRecords /\ u.at = "delegated" /\ u.results = w.results /\ u.previous = w.previous /\ u.repeats = w.repeats
  BY <1>5 DEF TurnRecords
<1>7. tTurn' = [tTurn EXCEPT ![t] = u]
  BY <1>1, <1>5 DEF Talk!Delegate, Talk!Go
<1>8. TurnIs(t, u)
  BY <1>6, <1>7, TurnMoves DEF TalkInv
<1>9. PICK row : row = [role |-> "report", calls |-> 0]
  OBVIOUS
<1>10. /\ tRows' \in [Slots -> Seq(Rows)] /\ \A r \in Slots \ {t} : tRows'[r] = tRows[r]
       /\ tRows'[t] = Append(own, row) /\ row \in Rows /\ row.role = "report"
  <2>1. Talk!Saved(t, "report", 0)
    BY DEF Talk!Delegate
  <2>2. row \in Rows /\ row.role = "report"
    BY <1>9 DEF Rows
  <2> QED
    BY <1>2, <1>9, <2>1, <2>2, SavedFacts DEF TalkInv
<1>11. Paired(Append(own, row), Len(own) + 1)
  BY <1>4, <1>10, PairedMore
<1>12. Append(own, row) # <<>> /\ Append(own, row)[1] = own[1] /\ Len(Append(own, row)) = Len(own) + 1
  BY <1>4, <1>10, SMTT(30)
<1>13. RowsSound(u, tRows'[t])
  BY <1>4, <1>6, <1>10, <1>11, <1>12 DEF RowsSound
<1>14. BatchesSound(u, b) /\ ResultsGranted(u, tRegistered)
  BY <1>4, <1>6 DEF BatchesSound, Counted, ResultsGranted
<1> QED
  BY <1>3, <1>8, <1>10, <1>13, <1>14, TurnStep DEF Talk!Delegate

LEMMA EnterLoopStep == ASSUME TalkInv, NEW t \in Slots, Talk!EnterLoop(t) PROVE TalkInv'
<1>1. PICK w \in TurnRecords : w = tTurn[t]
  BY TurnFacts
<1>2. PICK own \in Seq(Rows) : own = tRows[t]
  BY TurnFacts
<1>3. PICK b \in Seq(Seq(STRING)) : b = tBatches[t]
  BY TurnFacts
<1>4. /\ w.at \in {"user", "delegated"} /\ own # <<>> /\ own[1].role = "user" /\ Paired(own, Len(own))
      /\ ResultsGranted(w, tRegistered) /\ BatchesSound(w, b)
  BY <1>1, <1>2, <1>3, TurnFacts DEF Talk!EnterLoop, RowsSound
<1>5. PICK u : u = [w EXCEPT !.at = "model", !.round = 1]
  OBVIOUS
<1>6. /\ u \in TurnRecords /\ u.at = "model" /\ u.round = 1
      /\ u.results = w.results /\ u.previous = w.previous /\ u.repeats = w.repeats
  <2>1. 1 \in 0 .. MaxRounds
    BY TalkAssumption
  <2> QED
    BY <1>5, <2>1 DEF TurnRecords
<1>7. tTurn' = [tTurn EXCEPT ![t] = u]
  BY <1>1, <1>5 DEF Talk!EnterLoop
<1>8. TurnIs(t, u)
  BY <1>6, <1>7, TurnMoves DEF TalkInv
<1>9. RowsSound(u, own)
  BY <1>4, <1>6 DEF RowsSound
<1>10. BatchesSound(u, b) /\ ResultsGranted(u, tRegistered)
  <2>1. b = <<>> /\ Len(b) = 0 /\ Counted(w, b)
    BY <1>4 DEF BatchesSound
  <2>2. Counted(u, b)
    BY <1>6, <2>1 DEF Counted
  <2>3. Len(b) <= MaxRounds /\ NoRun(b)
    BY <1>4 DEF BatchesSound
  <2> QED
    BY <1>4, <1>6, <2>1, <2>2, <2>3 DEF BatchesSound, ResultsGranted
<1>11. tRows' = tRows /\ tRows' \in [Slots -> Seq(Rows)]
  BY RowsKept DEF Talk!EnterLoop
<1> QED
  BY <1>2, <1>3, <1>8, <1>9, <1>10, <1>11, TurnStep DEF Talk!EnterLoop

LEMMA AnswerStep == ASSUME TalkInv, NEW t \in Slots, NEW batch \in Batches, Talk!Answer(t, batch) PROVE TalkInv'
<1>1. PICK w \in TurnRecords : w = tTurn[t]
  BY TurnFacts
<1>2. PICK own \in Seq(Rows) : own = tRows[t]
  BY TurnFacts
<1>3. PICK b \in Seq(Seq(STRING)) : b = tBatches[t]
  BY TurnFacts
<1>4. /\ w.at = "model" /\ own # <<>> /\ own[1].role = "user" /\ Paired(own, Len(own)) /\ BatchesSound(w, b)
  BY <1>1, <1>2, <1>3, TurnFacts DEF Talk!Answer, RowsSound
<1>5. PICK calls \in Nat : calls = Len(batch) /\ batch \in Seq(STRING)
  BY TalkAssumption
<1>6. PICK u : u = [w EXCEPT !.at = "said", !.batch = batch, !.results = <<>>]
  OBVIOUS
<1>7. /\ u \in TurnRecords /\ u.at = "said" /\ u.round = w.round /\ u.batch = batch
      /\ u.results = <<>> /\ u.previous = w.previous /\ u.repeats = w.repeats
  <2>1. <<>> \in Seq(Results)
    OBVIOUS
  <2>2. /\ u.at = "said" /\ u.round = w.round /\ u.batch = batch /\ u.results = <<>>
        /\ u.previous = w.previous /\ u.repeats = w.repeats
    BY <1>6 DEF TurnRecords
  <2> QED
    BY <1>5, <1>6, <2>1, <2>2 DEF TurnRecords
<1>8. tTurn' = [tTurn EXCEPT ![t] = u]
  BY <1>1, <1>6 DEF Talk!Answer
<1>9. TurnIs(t, u)
  BY <1>7, <1>8, TurnMoves DEF TalkInv
<1>10. PICK row : row = [role |-> "assistant", calls |-> calls]
  OBVIOUS
<1>11. row \in Rows
  BY <1>10 DEF Rows
<1>12. /\ tRows' \in [Slots -> Seq(Rows)] /\ \A r \in Slots \ {t} : tRows'[r] = tRows[r]
       /\ tRows'[t] = Append(own, row)
  <2>1. Talk!Saved(t, "assistant", calls)
    BY <1>5 DEF Talk!Answer
  <2> QED
    BY <1>2, <1>10, <2>1, SavedFacts DEF TalkInv
<1>13. Answering(Append(own, row), Len(own) + 1, calls)
  BY <1>4, <1>10, AnswerBegins
<1>14. Append(own, row) # <<>> /\ Append(own, row)[1] = own[1] /\ Len(Append(own, row)) = Len(own) + 1
  BY <1>4, <1>11
<1>15. RowsSound(u, tRows'[t])
  BY <1>4, <1>5, <1>7, <1>12, <1>13, <1>14 DEF RowsSound
<1>16. BatchesSound(u, b) /\ ResultsGranted(u, tRegistered)
  BY <1>4, <1>7 DEF BatchesSound, Counted, ResultsGranted
<1> QED
  BY <1>3, <1>9, <1>12, <1>15, <1>16, TurnStep DEF Talk!Answer

\* A turn that is left has no results, and its batches do not matter any more.
LEMMA LeftSound ==
  ASSUME NEW u, u.at \in {"over", "failed"}, u.results = <<>>, NEW w, NEW b, BatchesSound(w, b)
  PROVE  BatchesSound(u, b) /\ ResultsGranted(u, tRegistered)
BY DEF BatchesSound, ResultsGranted

LEMMA SayStep == ASSUME TalkInv, NEW t \in Slots, Talk!Say(t) PROVE TalkInv'
<1>1. PICK w \in TurnRecords : w = tTurn[t]
  BY TurnFacts
<1>2. PICK own \in Seq(Rows) : own = tRows[t]
  BY TurnFacts
<1>3. PICK b \in Seq(Seq(STRING)) : b = tBatches[t]
  BY TurnFacts
<1>4. /\ w.at = "said" /\ w.batch = <<>> /\ own # <<>> /\ own[1].role = "user" /\ Answering(own, Len(own), Len(w.batch))
      /\ BatchesSound(w, b)
  BY <1>1, <1>2, <1>3, TurnFacts DEF Talk!Say, RowsSound
<1>5. PICK u : u = tTurn'[t]
  OBVIOUS
<1>6. u.at = "over" /\ u.results = <<>> /\ TurnIs(t, u)
  BY <1>5, LeaveFacts DEF TalkInv, Talk!Say
<1>7. tRows' = tRows /\ tRows' \in [Slots -> Seq(Rows)]
  BY RowsKept DEF Talk!Say
<1>8. Paired(own, Len(own))
  <2>1. Answering(own, Len(own), 0) /\ Len(own) \in Nat /\ Len(own) + 0 = Len(own)
    BY <1>4
  <2> QED
    BY <2>1, PairedByResults
<1>9. RowsSound(u, own)
  BY <1>4, <1>6, <1>8 DEF RowsSound
<1>10. BatchesSound(u, b) /\ ResultsGranted(u, tRegistered)
  BY <1>4, <1>6, LeftSound
<1> QED
  BY <1>2, <1>3, <1>6, <1>7, <1>9, <1>10, TurnStep DEF Talk!Say

LEMMA StopRepeatingStep == ASSUME TalkInv, NEW t \in Slots, Talk!StopRepeating(t) PROVE TalkInv'
<1>1. PICK w \in TurnRecords : w = tTurn[t]
  BY TurnFacts
<1>2. PICK own \in Seq(Rows) : own = tRows[t]
  BY TurnFacts
<1>3. PICK b \in Seq(Seq(STRING)) : b = tBatches[t]
  BY TurnFacts
<1>4. /\ own # <<>> /\ own[1].role = "user" /\ Answering(own, Len(own), Len(w.batch)) /\ BatchesSound(w, b)
  BY <1>1, <1>2, <1>3, TurnFacts DEF Talk!StopRepeating, RowsSound
<1>5. PICK u : u = tTurn'[t]
  OBVIOUS
<1>6. u.at = "over" /\ u.results = <<>> /\ TurnIs(t, u)
  BY <1>5, LeaveFacts DEF TalkInv, Talk!StopRepeating
<1>7. PICK row : row = [role |-> "guard", calls |-> 0]
  OBVIOUS
<1>8. /\ tRows' \in [Slots -> Seq(Rows)] /\ \A r \in Slots \ {t} : tRows'[r] = tRows[r]
      /\ tRows'[t] = Append(own, row) /\ row \in Rows /\ row.role = "guard"
  <2>1. Talk!Saved(t, "guard", 0)
    BY DEF Talk!StopRepeating
  <2>2. row \in Rows /\ row.role = "guard"
    BY <1>7 DEF Rows
  <2> QED
    BY <1>2, <1>7, <2>1, <2>2, SavedFacts DEF TalkInv
<1>9. PICK more \in Seq(Rows) : more = Append(own, row)
  BY <1>8
<1>10. PICK n \in Nat : n = Len(own)
  OBVIOUS
<1>11. n > 0 /\ own[n].role = "assistant" /\ Paired(own, n - 1)
  BY <1>4, <1>10 DEF Answering
<1>12. /\ more # <<>> /\ Len(more) = n + 1 /\ more[n + 1] = row /\ more[n] = own[n] /\ more[1] = own[1]
  BY <1>8, <1>9, <1>10, <1>11
<1>13. Paired(more, n - 1)
  BY <1>8, <1>9, <1>10, <1>11, PairedStays
<1>14. RowsSound(u, more)
  <2>1. Len(more) > 1 /\ Len(more) - 1 = n /\ Len(more) - 2 = n - 1
    BY <1>11, <1>12
  <2> QED
    BY <1>4, <1>6, <1>8, <1>11, <1>12, <1>13, <2>1 DEF RowsSound
<1>15. BatchesSound(u, b) /\ ResultsGranted(u, tRegistered)
  BY <1>4, <1>6, LeftSound
<1> QED
  BY <1>3, <1>6, <1>8, <1>9, <1>14, <1>15, TurnStep DEF Talk!StopRepeating

LEMMA RejectTurnStep == ASSUME TalkInv, NEW t \in Slots, Talk!Reject(t) PROVE TalkInv'
<1>1. PICK w \in TurnRecords : w = tTurn[t]
  BY TurnFacts
<1>2. PICK own \in Seq(Rows) : own = tRows[t]
  BY TurnFacts
<1>3. PICK b \in Seq(Seq(STRING)) : b = tBatches[t]
  BY TurnFacts
<1>4. w.at # "new" /\ own # <<>> /\ own[1].role = "user" /\ BatchesSound(w, b)
  BY <1>1, <1>2, <1>3, TurnFacts DEF Talk!Reject, RowsSound
<1>5. PICK u : u = tTurn'[t]
  OBVIOUS
<1>6. u.at = "failed" /\ u.results = <<>> /\ TurnIs(t, u)
  BY <1>5, LeaveFacts DEF TalkInv, Talk!Reject
<1>7. tRows' = tRows /\ tRows' \in [Slots -> Seq(Rows)]
  BY RowsKept DEF Talk!Reject
<1>8. RowsSound(u, own)
  BY <1>4, <1>6 DEF RowsSound
<1>9. BatchesSound(u, b) /\ ResultsGranted(u, tRegistered)
  BY <1>4, <1>6, LeftSound
<1> QED
  BY <1>2, <1>3, <1>6, <1>7, <1>8, <1>9, TurnStep DEF Talk!Reject

LEMMA CarryOutStep == ASSUME TalkInv, NEW t \in Slots, Talk!CarryOut(t) PROVE TalkInv'
<1>1. PICK w \in TurnRecords : w = tTurn[t]
  BY TurnFacts
<1>2. PICK own \in Seq(Rows) : own = tRows[t]
  BY TurnFacts
<1>3. PICK b \in Seq(Seq(STRING)) : b = tBatches[t]
  BY TurnFacts
<1>4. /\ w.at = "said" /\ w.batch # <<>> /\ own # <<>> /\ own[1].role = "user" /\ Answering(own, Len(own), Len(w.batch))
      /\ BatchesSound(w, b) /\ ResultsGranted(w, tRegistered) /\ ~Talk!Guard(w)
  BY <1>1, <1>2, <1>3, TurnFacts DEF Talk!CarryOut, RowsSound
<1>5. PICK k \in Nat : k = IF w.batch = w.previous THEN w.repeats + 1 ELSE 1
  BY DEF TurnRecords
<1>6. k < RepeatLimit
  BY <1>4, <1>5, TalkAssumption DEF Talk!Guard, Talk!Repeats
<1>7. PICK u : u = [w EXCEPT !.at = "calls", !.previous = w.batch, !.repeats = k]
  OBVIOUS
<1>8. /\ u \in TurnRecords /\ u.at = "calls" /\ u.round = w.round /\ u.batch = w.batch
      /\ u.results = w.results /\ u.previous = w.batch /\ u.repeats = k
  BY <1>7 DEF TurnRecords
<1>9. tTurn' = [tTurn EXCEPT ![t] = u]
  BY <1>1, <1>5, <1>7 DEF Talk!CarryOut, Talk!Repeats
<1>10. TurnIs(t, u)
  BY <1>8, <1>9, TurnMoves DEF TalkInv
<1>11. PICK more : more = Append(b, w.batch)
  OBVIOUS
<1>12. w.batch \in Seq(STRING) /\ w.previous \in Seq(STRING) /\ w.repeats \in Nat /\ w.round \in 0 .. MaxRounds
  BY DEF TurnRecords
<1>13. more \in Seq(Seq(STRING)) /\ Len(more) = Len(b) + 1
  BY <1>11, <1>12
<1>14. Counted(u, more) /\ NoRun(more)
  <2>1. NoRun(b) /\ Counted(w, b)
    BY <1>4 DEF BatchesSound
  <2>2. u.previous = w.batch /\ u.repeats < RepeatLimit /\ u.repeats = IF w.batch = w.previous THEN w.repeats + 1 ELSE 1
    BY <1>5, <1>6, <1>8
  <2> QED
    BY <1>4, <1>11, <1>12, <2>1, <2>2, CountedMore
<1>15. BatchesSound(u, more)
  <2>1. w.round = Len(b) + 1
    BY <1>4 DEF BatchesSound
  <2>2. Len(more) <= MaxRounds /\ u.round = Len(more)
    BY <1>8, <1>12, <1>13, <2>1, TalkAssumption
  <2> QED
    BY <1>8, <1>14, <2>2 DEF BatchesSound
<1>16. /\ tBatches' \in [Slots -> Seq(Seq(STRING))] /\ tBatches'[t] = more
       /\ \A s \in Slots \ {t} : tBatches'[s] = tBatches[s]
  <2>1. tBatches \in [Slots -> Seq(Seq(STRING))]
    BY DEF TalkInv, TalkTypes
  <2>2. tBatches' = [tBatches EXCEPT ![t] = more]
    BY <1>1, <1>3, <1>11 DEF Talk!CarryOut
  <2> QED
    BY <1>13, <2>1, <2>2
<1>17. RowsSound(u, own)
  <2>1. Len(w.results) <= Len(w.batch)
    <3>1. RowsSound(w, own) /\ w.batch \in Seq(STRING)
      BY <1>1, <1>2, TurnFacts DEF TurnRecords
    <3>2. w.results = <<>>
      BY <1>4, <3>1 DEF RowsSound
    <3> QED
      BY <3>1, <3>2
  <2> QED
    BY <1>4, <1>8, <2>1 DEF RowsSound
<1>18. ResultsGranted(u, tRegistered)
  BY <1>4, <1>8 DEF ResultsGranted
<1>19. tRows' = tRows /\ tRows' \in [Slots -> Seq(Rows)] /\ tTools' = tTools /\ UNCHANGED <<tRegistered, tOverride>>
  BY RowsKept DEF Talk!CarryOut, Talk!KeepShared
<1>20. TalkSound(tTurn'[t], tRows'[t], tBatches'[t], tRegistered)
  BY <1>2, <1>10, <1>15, <1>16, <1>17, <1>18, <1>19 DEF TalkSound, TurnIs
<1>21. tTools' \subseteq Talk!ToolsOf(tRegistered)
  BY <1>19 DEF TalkInv, TalkTypes
<1> QED
  BY <1>10, <1>16, <1>19, <1>20, <1>21, TalkTogether DEF TurnIs

(***************************************************************************)
(* The policy.                                                              *)
(***************************************************************************)

\* The rule a profile has for a name, if any.
LEMMA RuleFacts ==
  ASSUME NEW p \in {Global} \cup Overrides, NEW name
  PROVE  Talk!RulesFor(p, name) \in {<<>>, <<"allow">>, <<"deny">>}
BY TalkAssumption DEF Talk!RulesFor

\* A call that may run is denied by no profile, and one of a high risk has a rule that allows it.
LEMMA PolicyFacts ==
  ASSUME NEW o \in Profiles, NEW name, Talk!MayRun(o, name)
  PROVE  /\ ~Talk!Denies(o, name)
         /\ Named[name].scope = "high-risk" =>
               \E p \in {Global} \cup {q \in Overrides : o = <<q>>} : Talk!RulesFor(p, name) = <<"allow">>
<1>1. Talk!RulesFor(Global, name) \in {<<>>, <<"allow">>, <<"deny">>}
  BY RuleFacts
<1>2. PICK g : g = Talk!RulesFor(Global, name)
  OBVIOUS
<1>3. PICK d : d = Talk!Evaluate(o, name)
  OBVIOUS
<1>4. d.action # "deny" /\ (Named[name].scope = "high-risk" => d.explicit)
  BY <1>3 DEF Talk!MayRun, Talk!ScopeAllows
<1>5. PICK e : e = Talk!EvaluateGlobal(name)
  OBVIOUS
<1>6. /\ g # <<>> => e.action = g[1]
      /\ g = <<>> => ~e.explicit /\ (Global.default = "deny" => e.action = "deny")
  BY <1>2, <1>5 DEF Talk!EvaluateGlobal, Talk!Decision
<1>7. e.action # "deny" => g # <<"deny">> /\ ~(g = <<>> /\ Global.default = "deny")
  BY <1>6
<1>8. e.action # "deny" /\ e.explicit => g = <<"allow">>
  BY <1>1, <1>2, <1>6
<1>9. CASE o = <<>>
  <2>1. d = e
    BY <1>3, <1>5, <1>9 DEF Talk!Evaluate
  <2> QED
    BY <1>2, <1>4, <1>7, <1>8, <1>9, <2>1 DEF Talk!Denies
<1>10. ASSUME NEW p \in Overrides, o = <<p>>
       PROVE  /\ ~Talk!Denies(o, name)
              /\ Named[name].scope = "high-risk" =>
                    \E q \in {Global} \cup {r \in Overrides : o = <<r>>} : Talk!RulesFor(q, name) = <<"allow">>
  <2>1. PICK f : f = Talk!RulesFor(p, name)
    OBVIOUS
  <2>2. f \in {<<>>, <<"allow">>, <<"deny">>}
    BY <2>1, RuleFacts
  <2>3. o # <<>> /\ o[1] = p
    BY <1>10
  <2>4. /\ f # <<>> => d.action = f[1]
        /\ f = <<>> /\ p.default # "fallback" => d.action = p.default /\ ~d.explicit
        /\ f = <<>> /\ p.default = "fallback" => d = e
    BY <1>3, <1>5, <2>1, <2>3 DEF Talk!Evaluate, Talk!Decision
  <2>5. f # <<"deny">> /\ (f = <<>> => p.default # "deny")
    BY <1>4, <2>4
  <2>6. f = <<>> /\ p.default = "fallback" => g # <<"deny">> /\ ~(g = <<>> /\ Global.default = "deny")
    BY <1>4, <1>7, <2>4
  <2>7. ~Talk!Denies(o, name)
    BY <1>2, <2>1, <2>3, <2>5, <2>6 DEF Talk!Denies
  <2>8. Named[name].scope = "high-risk" => f = <<"allow">> \/ g = <<"allow">>
    BY <1>4, <1>8, <2>2, <2>4, <2>5
  <2> QED
    BY <1>2, <1>10, <2>1, <2>7, <2>8
<1> QED
  BY <1>9, <1>10 DEF Profiles

\* The next call of a batch: a name, and what it results in.
CallResult(t) == LET name == tTurn[t].batch[Len(tTurn[t].results) + 1]
                     o == tOverride[tTurn[t].session]
                 IN [name |-> name, override |-> o,
                     result |-> IF name \notin tTools THEN "unknown" ELSE IF Talk!MayRun(o, name) THEN "ran" ELSE "denied"]

LEMMA NextElement == ASSUME NEW S, NEW s \in Seq(S), NEW n \in Nat, n < Len(s) PROVE s[n + 1] \in S
OBVIOUS

LEMMA CallFacts ==
  ASSUME TalkInv, SessionsKnown, NEW t \in Slots, Talk!Call(t)
  PROVE  CallResult(t) \in Results /\ (CallResult(t).result = "ran" => Granted(CallResult(t), tRegistered))
<1>1. PICK w \in TurnRecords : w = tTurn[t]
  BY TurnFacts
<1>2. PICK o \in Profiles : o = tOverride[w.session]
  <2>1. w.session \in Sessions
    BY <1>1 DEF Talk!Call, SessionsKnown, UnderWay
  <2> QED
    BY <2>1 DEF TalkInv, TalkTypes
<1>3. PICK name \in STRING : name = w.batch[Len(w.results) + 1]
  <2>1. PICK batch \in Seq(STRING) : batch = w.batch
    BY DEF TurnRecords
  <2>2. PICK n \in Nat : n = Len(w.results)
    BY DEF TurnRecords
  <2>3. n < Len(batch)
    BY <1>1, <2>1, <2>2 DEF Talk!Call
  <2>4. batch[n + 1] \in STRING
    BY <2>3, NextElement
  <2> QED
    BY <2>1, <2>2, <2>4
<1>4. PICK result \in {"unknown", "ran", "denied"} :
         result = IF name \notin tTools THEN "unknown" ELSE IF Talk!MayRun(o, name) THEN "ran" ELSE "denied"
  OBVIOUS
<1>5. PICK r : r = CallResult(t)
  OBVIOUS
<1>6. r = [name |-> name, override |-> o, result |-> result]
  BY <1>1, <1>2, <1>3, <1>4, <1>5 DEF CallResult
<1>7. r \in Results /\ r.name = name /\ r.override = o /\ r.result = result
  BY <1>6 DEF Results
<1>8. result = "ran" => Granted(r, tRegistered)
  <2> SUFFICES ASSUME result = "ran" PROVE Granted(r, tRegistered)
    OBVIOUS
  <2>1. name \in tTools /\ Talk!MayRun(o, name)
    BY <1>4
  <2>2. Named[name].permitted /\ Named[name].skill \in tRegistered
    BY <2>1 DEF TalkInv, TalkTypes, Talk!ToolsOf
  <2>3. /\ ~Talk!Denies(o, name)
        /\ Named[name].scope = "high-risk" =>
              \E p \in {Global} \cup {q \in Overrides : o = <<q>>} : Talk!RulesFor(p, name) = <<"allow">>
    BY <2>1, PolicyFacts
  <2> QED
    BY <1>7, <2>2, <2>3, Zenon DEF Granted
<1> QED
  BY <1>5, <1>7, <1>8

LEMMA ResultsFacts ==
  ASSUME NEW all \in Seq(Results), NEW r \in Results
  PROVE  /\ Append(all, r) \in Seq(Results) /\ Len(all) \in Nat /\ Len(Append(all, r)) = Len(all) + 1
         /\ Append(all, r)[Len(all) + 1] = r /\ \A i \in 1 .. Len(all) : Append(all, r)[i] = all[i]
OBVIOUS

LEMMA CallStep == ASSUME TalkInv, SessionsKnown, NEW t \in Slots, Talk!Call(t) PROVE TalkInv'
<1>1. PICK w \in TurnRecords : w = tTurn[t]
  BY TurnFacts
<1>2. PICK own \in Seq(Rows) : own = tRows[t]
  BY TurnFacts
<1>3. PICK b \in Seq(Seq(STRING)) : b = tBatches[t]
  BY TurnFacts
<1>4. /\ w.at = "calls" /\ w.batch # <<>> /\ own # <<>> /\ own[1].role = "user" /\ Answering(own, Len(own), Len(w.batch))
      /\ BatchesSound(w, b) /\ ResultsGranted(w, tRegistered)
  BY <1>1, <1>2, <1>3, TurnFacts DEF Talk!Call, RowsSound
<1>5. PICK r : r = CallResult(t)
  OBVIOUS
<1>6. r \in Results /\ (r.result = "ran" => Granted(r, tRegistered))
  BY <1>1, <1>4, <1>5, CallFacts
<1>7. PICK all \in Seq(Results) : all = w.results
  BY DEF TurnRecords
<1>8. PICK more : more = Append(all, r)
  OBVIOUS
<1>9. /\ more \in Seq(Results) /\ Len(all) \in Nat /\ Len(more) = Len(all) + 1
      /\ more[Len(all) + 1] = r /\ \A i \in 1 .. Len(all) : more[i] = all[i]
  BY <1>6, <1>8, ResultsFacts
<1>10. PICK u : u = [w EXCEPT !.results = more]
  OBVIOUS
<1>11. /\ u \in TurnRecords /\ u.at = "calls" /\ u.round = w.round /\ u.batch = w.batch /\ u.results = more
       /\ u.previous = w.previous /\ u.repeats = w.repeats
  BY <1>4, <1>9, <1>10 DEF TurnRecords
<1>12. tTurn' = [tTurn EXCEPT ![t] = u]
  BY <1>1, <1>5, <1>7, <1>8, <1>10 DEF Talk!Call, CallResult
<1>13. TurnIs(t, u)
  BY <1>11, <1>12, TurnMoves DEF TalkInv
<1>14. Len(more) <= Len(w.batch)
  <2>1. w.batch \in Seq(STRING) /\ Len(all) < Len(w.batch)
    BY <1>1, <1>7 DEF Talk!Call, TurnRecords
  <2> QED
    BY <1>9, <2>1
<1>15. RowsSound(u, own)
  BY <1>4, <1>11, <1>14 DEF RowsSound
<1>16. BatchesSound(u, b)
  BY <1>4, <1>11 DEF BatchesSound, Counted
<1>17. ResultsGranted(u, tRegistered)
  <2>1. \A i \in 1 .. Len(all) : all[i].result = "ran" => Granted(all[i], tRegistered)
    BY <1>4, <1>7, Zenon DEF ResultsGranted
  <2>2. ASSUME NEW i \in 1 .. Len(more), more[i].result = "ran" PROVE Granted(more[i], tRegistered)
    <3>1. CASE i \in 1 .. Len(all)
      BY <1>9, <2>1, <2>2, <3>1, Zenon
    <3>2. CASE i = Len(all) + 1
      BY <1>6, <1>9, <2>2, <3>2
    <3> QED
      BY <1>9, <3>1, <3>2
  <2> QED
    BY <1>11, <2>2, Zenon DEF ResultsGranted
<1>18. tRows' = tRows /\ tRows' \in [Slots -> Seq(Rows)]
  BY RowsKept DEF Talk!Call
<1> QED
  BY <1>2, <1>3, <1>13, <1>15, <1>16, <1>17, <1>18, TurnStep DEF Talk!Call

LEMMA TailFacts ==
  ASSUME NEW all \in Seq(Results), all # <<>>
  PROVE  /\ Tail(all) \in Seq(Results) /\ Len(all) \in Nat \ {0} /\ Len(Tail(all)) = Len(all) - 1
         /\ \A i \in 1 .. Len(Tail(all)) : i + 1 \in 1 .. Len(all) /\ Tail(all)[i] = all[i + 1]
OBVIOUS

\* A result is stored.
LEMMA StoreStep ==
  ASSUME TalkInv, NEW t \in Slots, Talk!Saved(t, "tool", 0), Talk!KeepShared, Talk!KeepHistory, tTools' = tTools,
         tTurn' = [tTurn EXCEPT ![t].at = "storing", ![t].results = Tail(@)],
         \/ tTurn[t].at = "calls" /\ Len(tTurn[t].results) = Len(tTurn[t].batch)
         \/ tTurn[t].at = "storing" /\ tTurn[t].results # <<>>
  PROVE  TalkInv'
<1>1. PICK w \in TurnRecords : w = tTurn[t]
  BY TurnFacts
<1>2. PICK own \in Seq(Rows) : own = tRows[t]
  BY TurnFacts
<1>3. PICK b \in Seq(Seq(STRING)) : b = tBatches[t]
  BY TurnFacts
<1>4. PICK all \in Seq(Results) : all = w.results
  BY DEF TurnRecords
<1>5. PICK m \in Nat : m = Len(w.batch)
  BY DEF TurnRecords
<1>6. PICK n \in Nat : n = Len(own)
  OBVIOUS
<1>7. /\ own # <<>> /\ own[1].role = "user" /\ BatchesSound(w, b) /\ ResultsGranted(w, tRegistered)
      /\ w.at \in {"calls", "storing"} /\ all # <<>> /\ Len(all) <= m /\ Answering(own, n + Len(all) - m, m)
  <2>1. RowsSound(w, own) /\ BatchesSound(w, b) /\ ResultsGranted(w, tRegistered)
    BY <1>1, <1>2, <1>3, TurnFacts
  <2>2. CASE w.at = "calls" /\ Len(all) = m
    <3>1. Answering(own, n, m) /\ n + Len(all) - m = n /\ own # <<>> /\ own[1].role = "user" /\ w.batch # <<>>
      BY <1>5, <1>6, <2>1, <2>2 DEF RowsSound
    <3>2. m # 0
      BY <1>5, <3>1 DEF TurnRecords
    <3> QED
      BY <2>1, <2>2, <3>1, <3>2
  <2>3. CASE w.at = "storing" /\ all # <<>>
    BY <1>4, <1>5, <1>6, <2>1, <2>3 DEF RowsSound
  <2> QED
    BY <1>1, <1>4, <1>5, <2>2, <2>3
<1>8. PICK p \in Nat : p = n + Len(all) - m
  BY <1>7 DEF Answering
<1>9. Answering(own, p, m)
  BY <1>7, <1>8
<1>10. PICK rest : rest = Tail(all)
  OBVIOUS
<1>11. /\ rest \in Seq(Results) /\ Len(all) \in Nat \ {0} /\ Len(rest) = Len(all) - 1
       /\ \A i \in 1 .. Len(rest) : i + 1 \in 1 .. Len(all) /\ rest[i] = all[i + 1]
  BY <1>7, <1>10, TailFacts
<1>12. PICK u : u = [w EXCEPT !.at = "storing", !.results = rest]
  OBVIOUS
<1>13. /\ u \in TurnRecords /\ u.at = "storing" /\ u.round = w.round /\ u.batch = w.batch /\ u.results = rest
       /\ u.previous = w.previous /\ u.repeats = w.repeats
  BY <1>11, <1>12 DEF TurnRecords
<1>14. tTurn' = [tTurn EXCEPT ![t] = u]
  BY <1>1, <1>4, <1>10, <1>12
<1>15. TurnIs(t, u)
  BY <1>13, <1>14, TurnMoves DEF TalkInv
<1>16. PICK row : row = [role |-> "tool", calls |-> 0]
  OBVIOUS
<1>17. /\ tRows' \in [Slots -> Seq(Rows)] /\ \A r \in Slots \ {t} : tRows'[r] = tRows[r]
       /\ tRows'[t] = Append(own, row) /\ row \in Rows /\ row.role = "tool"
  <2>1. row \in Rows /\ row.role = "tool"
    BY <1>16 DEF Rows
  <2> QED
    BY <1>2, <1>16, <2>1, SavedFacts DEF TalkInv
<1>18. PICK more \in Seq(Rows) : more = Append(own, row)
  BY <1>17
<1>19. Len(more) = n + 1 /\ more # <<>> /\ more[1] = own[1]
  BY <1>6, <1>7, <1>17, <1>18
<1>20. Answering(more, p, m)
  BY <1>9, <1>17, <1>18, AnsweringStays
<1>21. RowsSound(u, more)
  <2>1. Len(u.results) <= Len(u.batch) /\ Len(u.batch) = m
    BY <1>5, <1>7, <1>11, <1>13
  <2>2. Len(more) + Len(u.results) - Len(u.batch) = p
    <3>1. \A k \in Nat : (n + 1) + (k - 1) - m = n + k - m
      OBVIOUS
    <3>2. Len(more) + Len(u.results) - Len(u.batch) = (n + 1) + (Len(all) - 1) - m
      BY <1>11, <1>13, <1>19, <2>1
    <3> QED
      BY <1>8, <1>11, <3>1, <3>2
  <2> QED
    BY <1>7, <1>13, <1>19, <1>20, <2>1, <2>2 DEF RowsSound
<1>22. BatchesSound(u, b)
  BY <1>7, <1>13 DEF BatchesSound, Counted
<1>23. ResultsGranted(u, tRegistered)
  <2>1. \A i \in 1 .. Len(all) : all[i].result = "ran" => Granted(all[i], tRegistered)
    BY <1>4, <1>7, Zenon DEF ResultsGranted
  <2>2. \A i \in 1 .. Len(rest) : rest[i].result = "ran" => Granted(rest[i], tRegistered)
    BY <1>11, <2>1, Zenon
  <2> QED
    BY <1>13, <2>2, Zenon DEF ResultsGranted
<1> QED
  BY <1>3, <1>15, <1>17, <1>18, <1>21, <1>22, <1>23, TurnStep

LEMMA NextRoundStep == ASSUME TalkInv, NEW t \in Slots, Talk!NextRound(t) PROVE TalkInv'
<1>1. PICK w \in TurnRecords : w = tTurn[t]
  BY TurnFacts
<1>2. PICK own \in Seq(Rows) : own = tRows[t]
  BY TurnFacts
<1>3. PICK b \in Seq(Seq(STRING)) : b = tBatches[t]
  BY TurnFacts
<1>4. /\ w.at = "storing" /\ w.results = <<>> /\ RowsSound(w, own) /\ BatchesSound(w, b)
  BY <1>1, <1>2, <1>3, TurnFacts DEF Talk!NextRound
<1>5. Paired(own, Len(own)) /\ own # <<>> /\ own[1].role = "user"
  <2>1. PICK m \in Nat : m = Len(w.batch)
    BY DEF TurnRecords
  <2>2. PICK n \in Nat : n = Len(own)
    OBVIOUS
  <2>3. Answering(own, n - m, m) /\ own # <<>> /\ own[1].role = "user"
    <3>1. Len(w.results) = 0 /\ n + 0 - m = n - m
      BY <1>4
    <3>2. Answering(own, n + Len(w.results) - m, m) /\ own # <<>> /\ own[1].role = "user"
      BY <1>4, <2>1, <2>2 DEF RowsSound
    <3> QED
      BY <3>1, <3>2
  <2>4. n - m \in Nat /\ n - m + m = n
    <3>1. n - m \in 1 .. n
      BY <2>2, <2>3 DEF Answering
    <3> QED
      BY <3>1
  <2> QED
    BY <2>2, <2>3, <2>4, PairedByResults
<1>6. tRows' = tRows /\ tRows' \in [Slots -> Seq(Rows)]
  BY RowsKept DEF Talk!NextRound
<1>7. CASE Talk!Leave(t, "over")
  <2>1. PICK u : u = tTurn'[t]
    OBVIOUS
  <2>2. u.at = "over" /\ u.results = <<>> /\ TurnIs(t, u)
    BY <1>7, <2>1, LeaveFacts DEF TalkInv
  <2>3. RowsSound(u, own)
    BY <1>5, <2>2 DEF RowsSound
  <2>4. BatchesSound(u, b) /\ ResultsGranted(u, tRegistered)
    BY <1>4, <2>2, LeftSound
  <2> QED
    BY <1>2, <1>3, <1>6, <2>2, <2>3, <2>4, TurnStep DEF Talk!NextRound
<1>8. CASE w.round # MaxRounds
  <2>1. w.round + 1 \in 0 .. MaxRounds
    BY <1>8, TalkAssumption DEF TurnRecords
  <2>2. PICK u : u = [w EXCEPT !.at = "model", !.round = w.round + 1, !.batch = <<>>]
    OBVIOUS
  <2>3. <<>> \in Seq(STRING)
    OBVIOUS
  <2>4. /\ u.at = "model" /\ u.round = w.round + 1 /\ u.results = w.results
        /\ u.previous = w.previous /\ u.repeats = w.repeats
    BY <2>2 DEF TurnRecords
  <2>5. u \in TurnRecords
    BY <2>1, <2>2, <2>3 DEF TurnRecords
  <2>6. tTurn' = [tTurn EXCEPT ![t] = u]
    BY <1>1, <1>8, <2>2 DEF Talk!NextRound
  <2>7. TurnIs(t, u)
    BY <2>5, <2>6, TurnMoves DEF TalkInv
  <2>8. RowsSound(u, own)
    BY <1>5, <2>4 DEF RowsSound
  <2>9. BatchesSound(u, b)
    BY <1>4, <2>4 DEF BatchesSound, Counted
  <2>10. ResultsGranted(u, tRegistered)
    BY <1>4, <2>4 DEF ResultsGranted
  <2> QED
    BY <1>2, <1>3, <1>6, <2>7, <2>8, <2>9, <2>10, TurnStep DEF Talk!NextRound
<1> QED
  BY <1>1, <1>7, <1>8 DEF Talk!NextRound

\* A tool is registered, or a profile set: what ran was granted by what was registered, and is so still.
LEMMA ChangeStep ==
  ASSUME TalkInv, UNCHANGED <<tTurn, tRows, tTools, tBatches>>, tRegistered \subseteq tRegistered',
         tOverride' \in [Sessions -> Profiles]
  PROVE  TalkInv'
<1>1. tTools' \subseteq Talk!ToolsOf(tRegistered')
  BY DEF TalkInv, TalkTypes, Talk!ToolsOf
<1>2. TalkTypes'
  <2>1. Talk!ToolsOf(tRegistered)' = Talk!ToolsOf(tRegistered')
    BY DEF Talk!ToolsOf
  <2> QED
    BY <1>1, <2>1 DEF TalkInv, TalkTypes
<1>3. ASSUME NEW t \in Slots PROVE TalkSound(tTurn'[t], tRows'[t], tBatches'[t], tRegistered')
  <2>1. ResultsGranted(tTurn[t], tRegistered) /\ BatchesSound(tTurn[t], tBatches[t]) /\ RowsSound(tTurn[t], tRows[t])
    BY TurnFacts
  <2>2. \A r : Granted(r, tRegistered) => Granted(r, tRegistered')
    BY DEF Granted
  <2>3. ResultsGranted(tTurn[t], tRegistered')
    BY <2>1, <2>2 DEF ResultsGranted
  <2> QED
    BY <2>1, <2>3 DEF TalkSound
<1> QED
  BY <1>2, <1>3 DEF TalkInv

\* A turn under way has a session.
LEMMA SessionsStep == TalkTypes /\ SessionsKnown /\ [Talk!Next]_TalkVars => SessionsKnown'
<1> SUFFICES ASSUME TalkTypes, SessionsKnown, [Talk!Next]_TalkVars PROVE SessionsKnown'
  OBVIOUS
<1>1. tTurn \in [Slots -> TurnRecords]
  BY DEF TalkTypes
<1>2. CASE UNCHANGED tTurn
  BY <1>2 DEF SessionsKnown, UnderWay
<1>4. ASSUME NEW t \in Slots, NEW at \in {"over", "failed"}, Talk!Leave(t, at) PROVE SessionsKnown'
  <2>1. tTurn'[t].at = at /\ \A s \in Slots \ {t} : tTurn'[s] = tTurn[s]
    BY <1>4, LeaveFacts DEF TurnIs
  <2> QED
    BY <2>1 DEF SessionsKnown, UnderWay
<1>5. ASSUME NEW t \in Slots, NEW s \in Sessions, Talk!Begin(t, s) PROVE SessionsKnown'
  BY <1>1, <1>5 DEF Talk!Begin, SessionsKnown, UnderWay, TurnRecords
<1>6. ASSUME NEW t \in Slots, Talk!Delegate(t) PROVE SessionsKnown'
  BY <1>1, <1>6 DEF Talk!Delegate, Talk!Go, SessionsKnown, UnderWay, TurnRecords
<1>7. ASSUME NEW t \in Slots, Talk!EnterLoop(t) PROVE SessionsKnown'
  BY <1>1, <1>7 DEF Talk!EnterLoop, SessionsKnown, UnderWay, TurnRecords
<1>8. ASSUME NEW t \in Slots, Talk!CarryOut(t) PROVE SessionsKnown'
  BY <1>1, <1>8 DEF Talk!CarryOut, SessionsKnown, UnderWay, TurnRecords
<1>9. ASSUME NEW t \in Slots, NEW batch \in Batches, Talk!Answer(t, batch) PROVE SessionsKnown'
  BY <1>1, <1>9 DEF Talk!Answer, SessionsKnown, UnderWay, TurnRecords
<1>10. ASSUME NEW t \in Slots, Talk!Call(t) PROVE SessionsKnown'
  BY <1>1, <1>10 DEF Talk!Call, SessionsKnown, UnderWay, TurnRecords
<1>11. ASSUME NEW t \in Slots, Talk!Store(t) \/ Talk!StoreNext(t) PROVE SessionsKnown'
  <2>1. CASE Talk!Store(t)
    <3>1. /\ tTurn[t].at = "calls"
          /\ tTurn' = [tTurn EXCEPT ![t].at = "storing", ![t].results = Tail(@)]
      BY <2>1 DEF Talk!Store
    <3> QED
      BY <1>1, <3>1 DEF SessionsKnown, UnderWay, TurnRecords
  <2>2. CASE Talk!StoreNext(t)
    <3>1. tTurn[t].at = "storing" /\ tTurn' = [tTurn EXCEPT ![t].results = Tail(@)]
      BY <2>2 DEF Talk!StoreNext
    <3> QED
      BY <1>1, <3>1 DEF SessionsKnown, UnderWay, TurnRecords
  <2> QED
    BY <1>11, <2>1, <2>2
<1>12. ASSUME NEW t \in Slots, Talk!NextRound(t) PROVE SessionsKnown'
  <2>1. CASE Talk!Leave(t, "over")
    BY <1>4, <2>1
  <2>2. CASE tTurn' = [tTurn EXCEPT ![t].at = "model", ![t].round = @ + 1, ![t].batch = <<>>]
    BY <1>1, <1>12, <2>2 DEF Talk!NextRound, SessionsKnown, UnderWay, TurnRecords
  <2> QED
    BY <1>12, <2>1, <2>2 DEF Talk!NextRound
<1>13. ASSUME NEW t \in Slots, Talk!Say(t) \/ Talk!StopRepeating(t) \/ Talk!Reject(t) PROVE SessionsKnown'
  BY <1>4, <1>13 DEF Talk!Say, Talk!StopRepeating, Talk!Reject
<1>14. Talk!RegisterSkill => UNCHANGED tTurn
  BY DEF Talk!RegisterSkill
<1>15. \A s, o : Talk!SetSessionOverride(s, o) => UNCHANGED tTurn
  BY DEF Talk!SetSessionOverride
<1>16. UNCHANGED TalkVars => UNCHANGED tTurn
  BY DEF TalkVars
<1> QED
  BY <1>2, <1>5, <1>6, <1>7, <1>8, <1>9, <1>10, <1>11, <1>12, <1>13, <1>14, <1>15, <1>16, Zenon DEF Talk!Next

LEMMA TalkStep == TalkInv /\ SessionsKnown /\ [Talk!Next]_TalkVars => TalkInv'
<1> SUFFICES ASSUME TalkInv, SessionsKnown, [Talk!Next]_TalkVars PROVE TalkInv'
  OBVIOUS
<1>1. CASE UNCHANGED TalkVars
  BY <1>1, ChangeStep DEF TalkVars, TalkInv, TalkTypes
<1>2. ASSUME NEW t \in Slots, NEW s \in Sessions, Talk!Begin(t, s) PROVE TalkInv'
  BY <1>2, BeginStep
<1>3. ASSUME NEW t \in Slots, Talk!Delegate(t) PROVE TalkInv'
  BY <1>3, DelegateStep
<1>4. ASSUME NEW t \in Slots, Talk!EnterLoop(t) PROVE TalkInv'
  BY <1>4, EnterLoopStep
<1>5. ASSUME NEW t \in Slots, Talk!Say(t) PROVE TalkInv'
  BY <1>5, SayStep
<1>6. ASSUME NEW t \in Slots, Talk!StopRepeating(t) PROVE TalkInv'
  BY <1>6, StopRepeatingStep
<1>7. ASSUME NEW t \in Slots, Talk!CarryOut(t) PROVE TalkInv'
  BY <1>7, CarryOutStep
<1>8. ASSUME NEW t \in Slots, NEW batch \in Batches, Talk!Answer(t, batch) PROVE TalkInv'
  BY <1>8, AnswerStep
<1>9. ASSUME NEW t \in Slots, Talk!Call(t) PROVE TalkInv'
  BY <1>9, CallStep
<1>10. ASSUME NEW t \in Slots, Talk!Store(t) PROVE TalkInv'
  BY <1>10, StoreStep DEF Talk!Store
<1>11. ASSUME NEW t \in Slots, Talk!StoreNext(t) PROVE TalkInv'
  <2>1. tTurn' = [tTurn EXCEPT ![t].at = "storing", ![t].results = Tail(@)]
    <3>1. tTurn[t].at = "storing" /\ tTurn' = [tTurn EXCEPT ![t].results = Tail(@)]
      BY <1>11 DEF Talk!StoreNext
    <3>2. tTurn \in [Slots -> TurnRecords]
      BY DEF TalkInv, TalkTypes
    <3> QED
      BY <3>1, <3>2 DEF TurnRecords
  <2> QED
    BY <1>11, <2>1, StoreStep DEF Talk!StoreNext
<1>12. ASSUME NEW t \in Slots, Talk!NextRound(t) PROVE TalkInv'
  BY <1>12, NextRoundStep
<1>13. ASSUME NEW t \in Slots, Talk!Reject(t) PROVE TalkInv'
  BY <1>13, RejectTurnStep
<1>14. CASE Talk!RegisterSkill
  <2>1. UNCHANGED <<tTurn, tRows, tTools, tBatches, tOverride>> /\ tRegistered \subseteq tRegistered'
    BY <1>14 DEF Talk!RegisterSkill, Talk!KeepHistory
  <2> QED
    BY <2>1, ChangeStep DEF TalkInv, TalkTypes
<1>15. ASSUME NEW s \in Sessions, NEW o \in Profiles, Talk!SetSessionOverride(s, o) PROVE TalkInv'
  <2>1. UNCHANGED <<tTurn, tRows, tTools, tBatches, tRegistered>> /\ tOverride' = [tOverride EXCEPT ![s] = o]
    BY <1>15 DEF Talk!SetSessionOverride, Talk!KeepHistory
  <2>2. tOverride' \in [Sessions -> Profiles]
    BY <2>1 DEF TalkInv, TalkTypes
  <2> QED
    BY <2>1, <2>2, ChangeStep
<1>16. CASE Talk!Next
  BY <1>2, <1>3, <1>4, <1>5, <1>6, <1>7, <1>8, <1>9, <1>10, <1>11, <1>12, <1>13, <1>14, <1>15, <1>16, Zenon
     DEF Talk!Next, Profiles
<1> QED
  BY <1>1, <1>16

\* What RowsSound says of a turn that is over.
LEMMA OverFacts ==
  ASSUME NEW own \in Seq(Rows), NEW u, u.at = "over", RowsSound(u, own)
  PROVE  /\ own # <<>> /\ own[1].role = "user"
         /\ own[Len(own)].role = "assistant" => own[Len(own)].calls = 0
         /\ \A i \in 1 .. Len(own) - 1 : own[i].role = "assistant" =>
              \/ own[i + 1].role = "guard"
              \/ /\ \A j \in i + 1 .. i + own[i].calls : j \in DOMAIN own /\ own[j].role = "tool"
                 /\ i + own[i].calls + 1 \in DOMAIN own => own[i + own[i].calls + 1].role # "tool"
<1>1. own # <<>> /\ own[1].role = "user"
  BY DEF RowsSound
<1>2. PICK n \in Nat \ {0} : n = Len(own)
  BY <1>1
<1>3. DOMAIN own = 1 .. n /\ \A i \in 1 .. n : own[i].calls \in Nat
  BY <1>2, RowsFacts
<1>4. \/ Paired(own, n)
      \/ n > 1 /\ own[n].role = "guard" /\ own[n - 1].role = "assistant" /\ Paired(own, n - 2)
  BY <1>2 DEF RowsSound
<1>5. ASSUME own[n].role = "assistant" PROVE own[n].calls = 0
  <2>1. Paired(own, n)
    BY <1>4, <1>5
  <2>2. PICK c \in Nat : c = own[n].calls
    BY <1>3
  <2>3. n + c <= n
    BY <1>5, <2>1, <2>2 DEF Paired
  <2> QED
    BY <2>2, <2>3
<1>6. ASSUME NEW i \in 1 .. n - 1, own[i].role = "assistant"
      PROVE  \/ own[i + 1].role = "guard"
             \/ /\ \A j \in i + 1 .. i + own[i].calls : j \in DOMAIN own /\ own[j].role = "tool"
                /\ i + own[i].calls + 1 \in DOMAIN own => own[i + own[i].calls + 1].role # "tool"
  <2>1. PICK c \in Nat : c = own[i].calls
    BY <1>3
  <2>2. CASE Paired(own, n)
    <3>1. /\ i + c <= n /\ \A j \in i + 1 .. i + c : own[j].role = "tool"
          /\ i + c + 1 <= n => own[i + c + 1].role # "tool"
      BY <1>6, <2>1, <2>2 DEF Paired
    <3> QED
      BY <1>3, <2>1, <3>1
  <2>3. CASE n > 1 /\ own[n].role = "guard" /\ own[n - 1].role = "assistant" /\ Paired(own, n - 2)
    <3>1. CASE i = n - 1
      <4>1. i + 1 = n
        BY <3>1
      <4> QED
        BY <2>3, <4>1
    <3>2. CASE i # n - 1
      <4>1. i \in 1 .. n - 2
        BY <3>2
      <4>2. /\ i + c <= n - 2 /\ \A j \in i + 1 .. i + c : own[j].role = "tool"
            /\ i + c + 1 <= n - 2 => own[i + c + 1].role # "tool"
        BY <1>6, <2>1, <2>3, <4>1 DEF Paired
      <4>3. i + c + 1 <= n - 2 \/ i + c + 1 = n - 1
        BY <4>2
      <4>4. own[i + c + 1].role # "tool"
        BY <2>3, <4>2, <4>3
      <4> QED
        BY <1>3, <2>1, <4>2, <4>4
    <3> QED
      BY <3>1, <3>2
  <2> QED
    BY <1>4, <2>2, <2>3
<1> QED
  BY <1>1, <1>2, <1>5, <1>6, Zenon

LEMMA TurnIsSafe == TalkInv => Talk!TurnSafe
<1> SUFFICES ASSUME TalkInv PROVE Talk!TurnSafe
  OBVIOUS
<1>1. Talk!Bounded
  <2> SUFFICES ASSUME NEW t \in Slots PROVE Len(tBatches[t]) <= MaxRounds /\ NoRun(tBatches[t])
    BY Zenon DEF Talk!Bounded, NoRun
  <2> QED
    BY TurnFacts, Zenon DEF BatchesSound
<1>2. Talk!Answered
  <2> SUFFICES ASSUME NEW t \in Slots, tTurn[t].at = "over", NEW own, own = tRows[t]
               PROVE  /\ own[1].role = "user"
                      /\ own[Len(own)].role = "assistant" => own[Len(own)].calls = 0
                      /\ \A i \in 1 .. Len(own) - 1 : own[i].role = "assistant" =>
                           \/ own[i + 1].role = "guard"
                           \/ /\ \A j \in i + 1 .. i + own[i].calls : j \in DOMAIN own /\ own[j].role = "tool"
                              /\ i + own[i].calls + 1 \in DOMAIN own => own[i + own[i].calls + 1].role # "tool"
    BY Zenon DEF Talk!Answered, Talk!Last
  <2>1. own \in Seq(Rows) /\ RowsSound(tTurn[t], own)
    BY TurnFacts
  <2> QED
    BY <2>1, OverFacts, Zenon
<1>3. Talk!ToolsGoverned
  <2> SUFFICES ASSUME NEW t \in Slots, NEW r \in {x \in Talk!Range(tTurn[t].results) : x.result = "ran"}
               PROVE  Granted(r, tRegistered)
    BY Zenon DEF Talk!ToolsGoverned, Granted
  <2>1. PICK all \in Seq(Results) : all = tTurn[t].results
    BY TurnFacts DEF TurnRecords
  <2>2. \A i \in 1 .. Len(all) : all[i].result = "ran" => Granted(all[i], tRegistered)
    BY <2>1, TurnFacts, Zenon DEF ResultsGranted
  <2>3. PICK i \in DOMAIN all : r = all[i]
    BY <2>1 DEF Talk!Range
  <2>4. DOMAIN all = 1 .. Len(all)
    OBVIOUS
  <2> QED
    BY <2>2, <2>3, <2>4, Zenon
<1> QED
  BY <1>1, <1>2, <1>3 DEF Talk!TurnSafe

(***************************************************************************)
(* The context of a turn.                                                   *)
(***************************************************************************)


Sections == {"memory", "delegation", "warm", "archived"}
ContextInv == xSizes \in Seq(Nat) /\ xTexts \in [Sections -> Nat]

LEMMA SectionLabels == DOMAIN Context!Labels = Sections
BY DEF Context!Labels, Sections

LEMMA ContextInitially == Init => ContextInv
<1> SUFFICES ASSUME Init PROVE ContextInv
  OBVIOUS
<1>1. xSizes = <<>> /\ xTexts = [s \in Sections |-> 0]
  BY SectionLabels DEF Init, Context!Init
<1> QED
  BY <1>1 DEF ContextInv

LEMMA TextsCounted == TextSizes \subseteq Nat
<1>1. PICK top : top = 4 * (10^6 - 1)
  OBVIOUS
<1>2. TextSizes \subseteq 0 .. top
  BY <1>1, ContextAssumption, Zenon
<1> QED
  BY <1>2

LEMMA ContextStep == ContextInv /\ [Context!Next]_ContextVars => ContextInv'
<1> SUFFICES ASSUME ContextInv, [Context!Next]_ContextVars PROVE ContextInv'
  OBVIOUS
<1>1. CASE UNCHANGED ContextVars
  BY <1>1 DEF ContextInv, ContextVars
<1>2. CASE Context!AddMessage
  <2>1. PICK k \in Nat : xSizes' = Append(xSizes, k) /\ xTexts' = xTexts
    BY <1>2, ContextAssumption DEF Context!AddMessage
  <2> QED
    BY <2>1 DEF ContextInv
<1>3. CASE Context!Retrieve
  <2>1. PICK t \in TextSizes, s \in Sections : xTexts' = [xTexts EXCEPT ![s] = t] /\ xSizes' = xSizes
    <3>1. \E t \in TextSizes, s \in DOMAIN Context!Labels : xTexts' = [xTexts EXCEPT ![s] = t] /\ xSizes' = xSizes
      BY <1>3 DEF Context!Retrieve
    <3> QED
      BY <3>1, SectionLabels
  <2>2. t \in Nat
    BY TextsCounted
  <2> QED
    BY <2>1, <2>2 DEF ContextInv
<1> QED
  BY <1>1, <1>2, <1>3 DEF Context!Next

LEMMA GreatestFacts ==
  \A a, b \in Int : /\ Context!Greatest(a, b) \in {a, b} /\ Context!Greatest(a, b) \in Int
                    /\ Context!Greatest(a, b) >= a /\ Context!Greatest(a, b) >= b
BY DEF Context!Greatest
LEMMA LeastFacts ==
  \A a, b \in Int : /\ Context!Least(a, b) \in {a, b} /\ Context!Least(a, b) \in Int
                    /\ Context!Least(a, b) <= a /\ Context!Least(a, b) <= b
BY DEF Context!Least

LEMMA ConfigFacts ==
  /\ Config.history \in Int /\ Config.memory \in Int /\ Config.delegation \in Int /\ Config.lifecycle \in Int
  /\ Config.hotLimit \in Int /\ Config.warmLimit \in Int /\ Config.topKMin \in Int /\ Config.topKMax \in Int
  /\ Config.perItem \in Int /\ Config.summaryEntries \in Int
BY ContextAssumption

\* resolveContextBudgetConfig puts every number into its limits.
LEMMA ResolvedFacts ==
  /\ Context!Resolved.history \in Nat /\ Context!Resolved.history >= 200
  /\ Context!Resolved.memory \in Nat /\ Context!Resolved.memory >= 100
  /\ Context!Resolved.delegation \in Nat /\ Context!Resolved.delegation >= 100
  /\ Context!Resolved.lifecycle \in Nat /\ Context!Resolved.lifecycle >= 80
  /\ Context!Resolved.hotLimit \in Nat \ {0} /\ Context!Resolved.warmLimit \in Nat
  /\ Context!Resolved.summaryEntries \in Nat \ {0} /\ Context!Resolved.perItem \in Nat \ {0}
  /\ Context!Resolved.topKMin \in Nat /\ Context!Resolved.topKMax \in Nat
  /\ Context!Resolved.topKMin <= Context!Resolved.topKMax
<1>1. /\ Context!Resolved.history = Context!Greatest(200, Config.history)
      /\ Context!Resolved.memory = Context!Greatest(100, Config.memory)
      /\ Context!Resolved.delegation = Context!Greatest(100, Config.delegation)
      /\ Context!Resolved.lifecycle = Context!Greatest(80, Config.lifecycle)
      /\ Context!Resolved.hotLimit = Context!Greatest(1, Config.hotLimit)
  BY DEF Context!Resolved
<1>2. /\ Context!Resolved.warmLimit = Context!Greatest(0, Config.warmLimit)
      /\ Context!Resolved.topKMin = Context!Greatest(1, Config.topKMin)
      /\ Context!Resolved.topKMax = Context!Greatest(Context!Greatest(1, Config.topKMin), Config.topKMax)
      /\ Context!Resolved.perItem = Context!Greatest(20, Config.perItem)
      /\ Context!Resolved.summaryEntries = Context!Greatest(1, Config.summaryEntries)
  BY DEF Context!Resolved
<1>3. /\ Context!Resolved.history \in Nat /\ Context!Resolved.history >= 200
      /\ Context!Resolved.memory \in Nat /\ Context!Resolved.memory >= 100
      /\ Context!Resolved.delegation \in Nat /\ Context!Resolved.delegation >= 100
      /\ Context!Resolved.lifecycle \in Nat /\ Context!Resolved.lifecycle >= 80
  BY <1>1, ConfigFacts DEF Context!Greatest
<1>4. /\ Context!Resolved.hotLimit \in Nat \ {0} /\ Context!Resolved.warmLimit \in Nat
      /\ Context!Resolved.summaryEntries \in Nat \ {0} /\ Context!Resolved.perItem \in Nat \ {0}
  BY <1>1, <1>2, ConfigFacts DEF Context!Greatest
<1>5. /\ Context!Resolved.topKMin \in Nat /\ Context!Resolved.topKMax \in Nat
      /\ Context!Resolved.topKMin <= Context!Resolved.topKMax
  BY <1>2, ConfigFacts DEF Context!Greatest
<1> QED
  BY <1>3, <1>4, <1>5, Zenon

LEMMA LeastExists ==
  ASSUME NEW n \in Nat, NEW S \in SUBSET (0 .. n), S # {}
  PROVE  \E x \in S : \A y \in S : x <= y
<1> DEFINE Below(x) == 0 .. x
           T == {Below(x) : x \in S}
<1>1. T \subseteq SUBSET (0 .. n) /\ T # {}
  <2>1. \A x \in S : Below(x) \subseteq 0 .. n
    OBVIOUS
  <2> HIDE DEF Below
  <2> QED
    BY <2>1, Zenon
<1>2. IsWellFoundedOn(StrictSubsetOrdering(0 .. n), SUBSET (0 .. n))
  <2>1. IsFiniteSet(0 .. n)
    BY FS_Interval
  <2> QED
    BY <2>1, FS_FiniteSubsetsOfFinite, FS_StrictSubsetOrderingWellFounded, Zenon
<1>3. PICK B \in T : \A C \in T : ~(<<C, B>> \in StrictSubsetOrdering(0 .. n))
  <2> HIDE DEF T
  <2> QED
    BY <1>1, <1>2, WFMin
<1>4. PICK x \in S : B = Below(x)
  OBVIOUS
<1>5. \A y \in S : x <= y
  <2> SUFFICES ASSUME NEW y \in S, y < x PROVE FALSE
    OBVIOUS
  <2>1. Below(y) \subseteq Below(x) /\ Below(y) # Below(x)
    OBVIOUS
  <2>2. Below(x) \in SUBSET (0 .. n) /\ Below(y) \in SUBSET (0 .. n)
    OBVIOUS
  <2>3. <<Below(y), Below(x)>> \in StrictSubsetOrdering(0 .. n)
    BY <2>1, <2>2 DEF StrictSubsetOrdering
  <2> QED
    BY <1>3, <1>4, <2>3
<1> QED
  BY <1>5


\* So a property of the numbers up to n that holds of 0, and of k if of k - 1, holds of them all.
LEMMA NoCounterexample ==
  ASSUME NEW n \in Nat, NEW T \in SUBSET (0 .. n), 0 \notin T, \A k \in T : k # 0 => k - 1 \in T
  PROVE  T = {}
<1> SUFFICES ASSUME T # {} PROVE FALSE
  OBVIOUS
<1>1. PICK k \in T : \A j \in T : k <= j
  BY LeastExists
<1>2. k \in Nat /\ k # 0 /\ k - 1 \in T
  BY <1>1
<1> QED
  BY <1>1, <1>2

(***************************************************************************)
(* planHistoryWindow.                                                       *)
(***************************************************************************)

\* What a message makes of the hot window.
Step(all, hot, k) == Context!HotStep(hot, Len(all) + 1 - k, all[Len(all) + 1 - k])
None == [chosen |-> {}, used |-> 0]

\* The recursion has a solution for every message, so NewestFirst is one.
LEMMA NewestByMessages ==
  ASSUME NEW all \in Seq(Nat), NEW m \in Nat
  PROVE  /\ Context!NewestFirst(all, m)[0] = None
         /\ \A k \in 1 .. m : Context!NewestFirst(all, m)[k] = Step(all, Context!NewestFirst(all, m)[k - 1], k)
<1> DEFINE Solves(f, n) == \A k \in 0 .. n : f[k] = IF k = 0 THEN None ELSE Step(all, f[k - 1], k)
           T == {n \in 0 .. m : ~\E f : Solves(f, n)}
<1>1. 0 \notin T
  <2>1. Solves([k \in 0 .. 0 |-> None], 0)
    OBVIOUS
  <2> QED
    BY <2>1
<1>2. ASSUME NEW n \in T, n # 0 PROVE n - 1 \in T
  <2> SUFFICES ASSUME NEW e, Solves(e, n - 1) PROVE \E f : Solves(f, n)
    BY <1>2
  <2> DEFINE f == [k \in 0 .. n |-> IF k = n THEN Step(all, e[n - 1], n) ELSE e[k]]
  <2>1. n \in Nat /\ n - 1 \in 0 .. n
    BY <1>2
  <2>2. f[n] = Step(all, e[n - 1], n) /\ \A k \in 0 .. n - 1 : f[k] = e[k]
    BY <2>1
  <2> HIDE DEF f
  <2>3. ASSUME NEW k \in 0 .. n PROVE f[k] = IF k = 0 THEN None ELSE Step(all, f[k - 1], k)
    <3>1. CASE k = n
      <4>1. f[n - 1] = e[n - 1]
        BY <1>2, <2>1, <2>2
      <4> QED
        BY <1>2, <2>2, <3>1, <4>1
    <3>2. CASE k # n
      <4>1. k \in 0 .. n - 1
        BY <2>1, <3>2
      <4>2. k # 0 => k - 1 \in 0 .. n - 1
        BY <2>1, <4>1
      <4>3. e[k] = IF k = 0 THEN None ELSE Step(all, e[k - 1], k)
        BY <4>1
      <4>4. f[k] = e[k] /\ (k # 0 => f[k - 1] = e[k - 1])
        BY <2>2, <4>1, <4>2
      <4> QED
        BY <4>3, <4>4
    <3> QED
      BY <3>1, <3>2
  <2> QED
    BY <2>3
<1>3. T = {}
  <2>1. T \in SUBSET (0 .. m)
    OBVIOUS
  <2> HIDE DEF T
  <2> QED
    BY <1>1, <1>2, <2>1, NoCounterexample
<1>4. PICK e : Solves(e, m)
  <2>1. m \in 0 .. m
    OBVIOUS
  <2> HIDE DEF Solves
  <2> QED
    BY <1>3, <2>1
<1> DEFINE f == [k \in 0 .. m |-> e[k]]
<1>5. f = [k \in 0 .. m |-> IF k = 0 THEN None ELSE Step(all, f[k - 1], k)]
  <2>1. \A k \in 0 .. m : k # 0 => k - 1 \in 0 .. m
    OBVIOUS
  <2>2. \A k \in 0 .. m : e[k] = IF k = 0 THEN None ELSE Step(all, f[k - 1], k)
    <3> SUFFICES ASSUME NEW k \in 0 .. m PROVE e[k] = IF k = 0 THEN None ELSE Step(all, f[k - 1], k)
      OBVIOUS
    <3>1. e[k] = IF k = 0 THEN None ELSE Step(all, e[k - 1], k)
      BY <1>4
    <3>2. k # 0 => f[k - 1] = e[k - 1]
      BY <2>1
    <3> HIDE DEF f
    <3> QED
      BY <3>1, <3>2
  <2> QED
    BY <2>2
<1> HIDE DEF f
<1>6. PICK F : F = Context!NewestFirst(all, m)
  OBVIOUS
<1>7. F = [k \in 0 .. m |-> IF k = 0 THEN None ELSE Step(all, F[k - 1], k)]
  <2> DEFINE IsOne(g) == g = [k \in 0 .. m |-> IF k = 0 THEN None ELSE Step(all, g[k - 1], k)]
  <2>1. F = CHOOSE g : IsOne(g)
    BY <1>6 DEF Context!NewestFirst, None, Step
  <2>2. IsOne(f)
    BY <1>5
  <2> HIDE DEF IsOne
  <2>3. IsOne(F)
    BY <2>1, <2>2
  <2> QED
    BY <2>3 DEF IsOne
<1> QED
  BY <1>6, <1>7

\* What is hot after the newest messages k: some of them, the newest first of all, and no more than
\* fit, unless the newest alone does not.
HotSound(all, hot, k) ==
    /\ hot.chosen \subseteq Len(all) + 1 - k .. Len(all) /\ hot.used \in Nat
    /\ k > 0 => Len(all) \in hot.chosen
    /\ hot.used <= Context!Resolved.history \/ hot.chosen = {Len(all)}

LEMMA StepSound ==
  ASSUME NEW all \in Seq(Nat), NEW k \in 1 .. Len(all), NEW hot, HotSound(all, hot, k - 1)
  PROVE  HotSound(all, Step(all, hot, k), k)
<1>1. PICK n \in Nat : n = Len(all)
  OBVIOUS
<1>2. PICK i \in 1 .. n : i = Len(all) + 1 - k
  <2>1. k \in Int /\ 1 <= k /\ k <= n
    BY <1>1
  <2>2. n + 1 - k \in 1 .. n
    BY <2>1
  <2> QED
    BY <1>1, <2>2
<1>3. PICK size \in Nat : size = all[i]
  BY <1>1
<1>4. PICK h \in Nat : h = Context!Resolved.history
  BY ResolvedFacts
<1>5. /\ hot.chosen \subseteq i + 1 .. n /\ hot.used \in Nat /\ (k - 1 > 0 => n \in hot.chosen)
      /\ hot.used <= h \/ hot.chosen = {n}
  BY <1>1, <1>2, <1>4 DEF HotSound
<1>6. PICK new : new = Step(all, hot, k)
  OBVIOUS
<1>7. new = IF hot.chosen = {} \/ hot.used + size <= h
            THEN [chosen |-> hot.chosen \cup {i}, used |-> hot.used + size] ELSE hot
  BY <1>2, <1>3, <1>4, <1>6 DEF Step, Context!HotStep
<1>8. hot.chosen = {} => k = 1 /\ i = n
  BY <1>1, <1>2, <1>5
<1>9. /\ new.chosen \subseteq i .. n /\ new.used \in Nat /\ n \in new.chosen
      /\ new.used <= h \/ new.chosen = {n}
  <2>1. CASE hot.chosen = {}
    BY <1>3, <1>5, <1>7, <1>8, <2>1
  <2>2. CASE hot.chosen # {} /\ hot.used + size <= h
    <3>1. n \in hot.chosen
      BY <1>1, <1>2, <1>5, <2>2
    <3> QED
      BY <1>3, <1>5, <1>7, <2>2, <3>1
  <2>3. CASE hot.chosen # {} /\ ~(hot.used + size <= h)
    <3>1. n \in hot.chosen
      BY <1>1, <1>2, <1>5, <2>3
    <3> QED
      BY <1>5, <1>7, <2>3, <3>1
  <2> QED
    BY <2>1, <2>2, <2>3
<1> QED
  BY <1>1, <1>2, <1>4, <1>6, <1>9 DEF HotSound

LEMMA NewestSound ==
  ASSUME NEW all \in Seq(Nat), NEW m \in 0 .. Len(all)
  PROVE  HotSound(all, Context!NewestFirst(all, m)[m], m)
<1>1. PICK F : F = Context!NewestFirst(all, m)
  OBVIOUS
<1>2. m \in Nat
  OBVIOUS
<1>3. F[0] = None /\ \A k \in 1 .. m : F[k] = Step(all, F[k - 1], k)
  BY <1>1, <1>2, NewestByMessages
<1> DEFINE T == {k \in 0 .. m : ~HotSound(all, F[k], k)}
<1>4. 0 \notin T
  <2>1. HotSound(all, None, 0)
    BY ResolvedFacts DEF HotSound, None
  <2> QED
    BY <1>3, <2>1
<1>5. ASSUME NEW k \in T, k # 0 PROVE k - 1 \in T
  <2>1. k \in 1 .. Len(all) /\ k \in 1 .. m /\ k - 1 \in 0 .. m
    BY <1>5
  <2>2. ~HotSound(all, Step(all, F[k - 1], k), k)
    BY <1>3, <2>1
  <2>3. ~HotSound(all, F[k - 1], k - 1)
    BY <2>1, <2>2, StepSound
  <2> QED
    BY <2>1, <2>3
<1>6. T = {}
  <2>1. T \in SUBSET (0 .. m)
    OBVIOUS
  <2> HIDE DEF T
  <2> QED
    BY <1>2, <1>4, <1>5, <2>1, NoCounterexample
<1>7. m \in 0 .. m
  OBVIOUS
<1> QED
  BY <1>1, <1>6, <1>7

(***************************************************************************)
(* What of the tiers is shown.                                              *)
(***************************************************************************)

LEMMA ApartCounted ==
  ASSUME NEW A, NEW B, IsFiniteSet(A), IsFiniteSet(B), A \cap B = {}
  PROVE  /\ IsFiniteSet(A \cup B) /\ Cardinality(A) \in Nat /\ Cardinality(B) \in Nat
         /\ Cardinality(A \cup B) = Cardinality(A) + Cardinality(B)
<1>1. Cardinality(A) \in Nat /\ Cardinality(B) \in Nat
  BY FS_CardinalityType
<1>2. IsFiniteSet(A \cup B) /\ Cardinality(A \cup B) = Cardinality(A) + Cardinality(B) - Cardinality(A \cap B)
  BY FS_Union
<1>3. Cardinality(A \cap B) = 0
  BY FS_EmptySet
<1> QED
  BY <1>1, <1>2, <1>3

\* The last c of a set of numbers.
LastOf(W, c) == {i \in W : Cardinality({k \in W : k > i}) < c}

LEMMA LastCounted ==
  ASSUME NEW n \in Nat, NEW W \in SUBSET (1 .. n), NEW c \in Nat \ {0}
  PROVE  /\ IsFiniteSet(W) /\ IsFiniteSet(LastOf(W, c)) /\ Cardinality(W) \in Nat /\ Cardinality(LastOf(W, c)) \in Nat
         /\ Cardinality(LastOf(W, c)) = IF Cardinality(W) <= c THEN Cardinality(W) ELSE c
<1>1. PICK L : L = LastOf(W, c)
  OBVIOUS
<1>2. L \subseteq W /\ \A i \in W : i \in L <=> Cardinality({k \in W : k > i}) < c
  BY <1>1 DEF LastOf
<1>3. IsFiniteSet(W) /\ IsFiniteSet(L) /\ \A i \in W : IsFiniteSet({k \in W : k > i})
  <2>1. IsFiniteSet(1 .. n)
    BY FS_Interval
  <2>2. IsFiniteSet(W)
    BY <2>1, FS_Subset
  <2> QED
    BY <1>2, <2>2, FS_Subset
<1>4. Cardinality(W) \in Nat /\ Cardinality(L) \in Nat /\ Cardinality(L) <= Cardinality(W)
  BY <1>2, <1>3, FS_CardinalityType, FS_Subset
<1>5. Cardinality(L) <= c
  <2>1. CASE L = {}
    BY <2>1, FS_EmptySet
  <2>2. CASE L # {}
    <3>1. PICK x \in L : \A y \in L : x <= y
      <4>1. L \in SUBSET (0 .. n)
        BY <1>2
      <4> QED
        BY <2>2, <4>1, LeastExists
    <3>2. PICK above : above = {k \in W : k > x}
      OBVIOUS
    <3>3. L \ {x} \subseteq above
      BY <1>2, <3>1, <3>2
    <3>4. IsFiniteSet(above) /\ Cardinality(above) < c
      BY <1>2, <1>3, <3>1, <3>2
    <3>5. Cardinality(L \ {x}) <= Cardinality(above) /\ Cardinality(above) \in Nat
      BY <3>3, <3>4, FS_Subset, FS_CardinalityType
    <3>6. Cardinality(L \ {x}) = Cardinality(L) - 1
      BY <1>3, <3>1, FS_RemoveElement
    <3> QED
      BY <1>4, <3>4, <3>5, <3>6
  <2> QED
    BY <2>1, <2>2
<1>6. CASE L = W
  BY <1>1, <1>3, <1>4, <1>5, <1>6
<1>7. CASE L # W
  <2>1. PICK others : others = {n - i : i \in W \ L}
    OBVIOUS
  <2>2. others \in SUBSET (0 .. n) /\ others # {}
    <3>1. PICK j \in W \ L : TRUE
      BY <1>2, <1>7
    <3>2. n - j \in others
      BY <2>1, <3>1
    <3>3. \A k \in 1 .. n : n - k \in 0 .. n
      OBVIOUS
    <3> QED
      BY <2>1, <3>2, <3>3
  <2>3. PICK d \in others : \A y \in others : d <= y
    BY <2>2, LeastExists
  <2>4. PICK i \in W \ L : d = n - i
    BY <2>1, <2>3
  <2>5. PICK above : above = {k \in W : k > i}
    OBVIOUS
  <2>6. above \subseteq L
    <3> SUFFICES ASSUME NEW k \in W, k > i, k \notin L PROVE FALSE
      BY <2>5
    <3>1. n - k \in others
      BY <2>1
    <3>2. n - i <= n - k
      BY <2>3, <2>4, <3>1
    <3> QED
      BY <3>2
  <2>7. Cardinality(above) <= Cardinality(L) /\ Cardinality(above) \in Nat
    BY <1>2, <1>3, <2>6, FS_Subset, FS_CardinalityType
  <2>8. ~(Cardinality(above) < c)
    BY <1>2, <2>4, <2>5
  <2>9. Cardinality(L) = c
    BY <1>4, <1>5, <2>7, <2>8
  <2> QED
    BY <1>1, <1>3, <1>4, <2>9
<1> QED
  BY <1>6, <1>7

\* The first two and the last two of the archived.
LEMMA ArchivedCounted ==
  ASSUME NEW a \in Nat
  PROVE  /\ Context!ArchivedListed(1 .. a) \subseteq 1 .. a /\ IsFiniteSet(Context!ArchivedListed(1 .. a))
         /\ Cardinality(Context!ArchivedListed(1 .. a)) = IF a <= 4 THEN a ELSE 4
         /\ Context!Cardinality(1 .. a) = a
<1>1. PICK low : low = Context!Least(2, a)
  OBVIOUS
<1>2. PICK high : high = Context!Greatest(2, a - 2)
  OBVIOUS
<1>3. low \in Nat /\ low = (IF 2 < a THEN 2 ELSE a) /\ high \in Nat /\ high = (IF 2 > a - 2 THEN 2 ELSE a - 2)
  BY <1>1, <1>2 DEF Context!Least, Context!Greatest
<1>4. Context!Cardinality(1 .. a) = a
  <2>1. Cardinality(1 .. a) = a
    BY FS_Interval
  <2> QED
    BY <2>1 DEF Context!Cardinality, Cardinality
<1>5. Context!ArchivedListed(1 .. a) = (1 .. low) \cup (high + 1 .. a)
  BY <1>1, <1>2, <1>4 DEF Context!ArchivedListed
<1>6. IsFiniteSet(1 .. low) /\ Cardinality(1 .. low) = low
  BY <1>3, FS_Interval
<1>7. IsFiniteSet(high + 1 .. a) /\ Cardinality(high + 1 .. a) = IF high + 1 > a THEN 0 ELSE a - high
  <2>1. high + 1 \in Int /\ a \in Int
    BY <1>3
  <2>2. IsFiniteSet(high + 1 .. a) /\ Cardinality(high + 1 .. a) = IF high + 1 > a THEN 0 ELSE a - (high + 1) + 1
    BY <2>1, FS_Interval
  <2> QED
    BY <1>3, <2>2
<1>8. (1 .. low) \cap (high + 1 .. a) = {}
  BY <1>3
<1>9. IsFiniteSet((1 .. low) \cup (high + 1 .. a))
      /\ Cardinality((1 .. low) \cup (high + 1 .. a)) = Cardinality(1 .. low) + Cardinality(high + 1 .. a)
  BY <1>6, <1>7, <1>8, ApartCounted
<1>10. (1 .. low) \cup (high + 1 .. a) \subseteq 1 .. a
  BY <1>3
<1>11. low + (IF high + 1 > a THEN 0 ELSE a - high) = IF a <= 4 THEN a ELSE 4
  BY <1>3
<1> QED
  BY <1>4, <1>5, <1>6, <1>7, <1>9, <1>10, <1>11, Zenon

LEMMA SameCount == \A S : Context!Cardinality(S) = Cardinality(S)
BY DEF Context!Cardinality, Cardinality

\* The tiers of n messages: the hot among the newest, the warm the others of the tiers' limits.
Tiers(n, start, warmStart, hot, warm) ==
    /\ start \in 0 .. n /\ warmStart \in 0 .. start
    /\ hot \subseteq start + 1 .. n /\ warm = (warmStart + 1 .. n) \ hot

LEMMA TiersCounted ==
  ASSUME NEW n \in Nat, NEW start, NEW warmStart, NEW hot, NEW warm, Tiers(n, start, warmStart, hot, warm),
         NEW c \in Nat \ {0}
  PROVE  n - Cardinality(hot \cup LastOf(warm, c) \cup Context!ArchivedListed(1 .. warmStart))
           = (IF Cardinality(warm) > c THEN Cardinality(warm) - c ELSE 0) + (IF warmStart > 4 THEN warmStart - 4 ELSE 0)
<1>1. /\ start \in 0 .. n /\ warmStart \in 0 .. start /\ warmStart \in Nat
      /\ hot \subseteq start + 1 .. n /\ warm = (warmStart + 1 .. n) \ hot
  BY DEF Tiers
<1>2. PICK last : last = LastOf(warm, c)
  OBVIOUS
<1>3. PICK listed : listed = Context!ArchivedListed(1 .. warmStart)
  OBVIOUS
<1>4. warm \in SUBSET (1 .. n)
  BY <1>1
<1>5. /\ IsFiniteSet(warm) /\ IsFiniteSet(last) /\ Cardinality(warm) \in Nat
      /\ Cardinality(last) = IF Cardinality(warm) <= c THEN Cardinality(warm) ELSE c
  BY <1>2, <1>4, LastCounted
<1>6. listed \subseteq 1 .. warmStart /\ IsFiniteSet(listed) /\ Cardinality(listed) = IF warmStart <= 4 THEN warmStart ELSE 4
  BY <1>1, <1>3, ArchivedCounted
<1>7. last \subseteq warm
  BY <1>2 DEF LastOf
<1>8. IsFiniteSet(hot)
  <2>1. IsFiniteSet(start + 1 .. n)
    BY <1>1, FS_Interval
  <2> QED
    BY <1>1, <2>1, FS_Subset
<1>9. hot \cap warm = {} /\ hot \cup warm = warmStart + 1 .. n
  <2>1. start + 1 .. n \subseteq warmStart + 1 .. n
    BY <1>1
  <2> QED
    BY <1>1, <2>1, Zenon
<1>10. Cardinality(hot) \in Nat /\ Cardinality(hot) + Cardinality(warm) = n - warmStart
  <2>1. Cardinality(warmStart + 1 .. n) = n - warmStart
    <3>1. warmStart + 1 \in Int /\ n \in Int /\ warmStart \in Nat /\ warmStart <= n
      BY <1>1
    <3>2. Cardinality(warmStart + 1 .. n) = IF warmStart + 1 > n THEN 0 ELSE n - (warmStart + 1) + 1
      BY <3>1, FS_Interval
    <3> QED
      BY <3>1, <3>2
  <2>2. Cardinality(hot \cup warm) = Cardinality(hot) + Cardinality(warm) /\ Cardinality(hot) \in Nat
    BY <1>5, <1>8, <1>9, ApartCounted
  <2> QED
    BY <1>9, <2>1, <2>2
<1>11. IsFiniteSet(hot \cup last) /\ Cardinality(hot \cup last) = Cardinality(hot) + Cardinality(last)
  <2>1. hot \cap last = {}
    BY <1>7, <1>9
  <2> QED
    BY <1>5, <1>8, <2>1, ApartCounted
<1>12. Cardinality(hot \cup last \cup listed) = Cardinality(hot) + Cardinality(last) + Cardinality(listed)
  <2>1. (hot \cup last) \cap listed = {}
    <3>1. hot \cup last \subseteq warmStart + 1 .. n
      BY <1>7, <1>9
    <3>2. (warmStart + 1 .. n) \cap (1 .. warmStart) = {}
      BY <1>1
    <3> QED
      BY <1>6, <3>1, <3>2
  <2> QED
    BY <1>6, <1>11, <2>1, ApartCounted
<1>13. n - (Cardinality(hot) + Cardinality(last) + Cardinality(listed))
         = (IF Cardinality(warm) > c THEN Cardinality(warm) - c ELSE 0) + (IF warmStart > 4 THEN warmStart - 4 ELSE 0)
  BY <1>1, <1>5, <1>6, <1>10
<1> QED
  BY <1>2, <1>3, <1>12, <1>13

LEMMA WindowsAreSound == ContextInv => Context!WindowsSound
<1> SUFFICES ASSUME ContextInv PROVE Context!WindowsSound
  OBVIOUS
<1>1. PICK all \in Seq(Nat) : all = xSizes
  BY DEF ContextInv
<1>2. PICK n \in Nat : n = Len(all)
  OBVIOUS
<1>3. PICK limit \in Nat \ {0} : limit = Context!Resolved.hotLimit
  BY ResolvedFacts
<1>4. PICK warmLimit \in Nat : warmLimit = Context!Resolved.warmLimit
  BY ResolvedFacts
<1>5. PICK c \in Nat \ {0} : c = Context!Resolved.summaryEntries
  BY ResolvedFacts
<1>6. PICK start \in 0 .. n : start = Context!Greatest(0, n - limit) /\ n - start <= limit /\ (n > 0 => n - start > 0)
  <2>1. PICK start : start = Context!Greatest(0, n - limit)
    OBVIOUS
  <2>2. start = IF 0 > n - limit THEN 0 ELSE n - limit
    BY <2>1 DEF Context!Greatest
  <2>3. start \in 0 .. n /\ n - start <= limit /\ (n > 0 => n - start > 0)
    BY <2>2
  <2> QED
    BY <2>1, <2>3
<1>7. PICK warmStart \in 0 .. start : warmStart = Context!Greatest(0, start - warmLimit)
  BY <1>4, <1>6 DEF Context!Greatest
<1>8. PICK m \in 0 .. n : m = n - start
  BY <1>6
<1>9. PICK hot : hot = Context!NewestFirst(all, m)[m]
  OBVIOUS
<1>10. /\ hot.chosen \subseteq start + 1 .. n /\ hot.used \in Nat /\ (n > 0 => n \in hot.chosen)
       /\ hot.used <= Context!Resolved.history \/ hot.chosen = {n}
  <2>1. HotSound(all, hot, m)
    BY <1>2, <1>8, <1>9, NewestSound
  <2>2. n + 1 - m = start + 1
    BY <1>8
  <2> QED
    BY <1>2, <1>6, <1>8, <2>1, <2>2 DEF HotSound
<1>11. PICK chosen : chosen = hot.chosen
  OBVIOUS
<1>12. PICK warm : warm = (warmStart + 1 .. n) \ chosen
  OBVIOUS
<1>13. PICK plan : plan = Context!PlanHistory(xSizes)
  OBVIOUS
<1>14. /\ plan.hot = chosen /\ plan.warm = warm /\ plan.archived = 1 .. warmStart /\ plan.used = hot.used
       /\ plan.topK = Context!Clamp((Context!Resolved.memory + Context!Greatest(0, Context!Resolved.history - hot.used) \div 2)
                                     \div Context!Resolved.perItem, Context!Resolved.topKMin, Context!Resolved.topKMax)
  BY <1>1, <1>2, <1>3, <1>4, <1>6, <1>7, <1>8, <1>9, <1>11, <1>12, <1>13, Zenon DEF Context!PlanHistory
<1>15. Tiers(n, start, warmStart, chosen, warm)
  BY <1>10, <1>11, <1>12 DEF Tiers
<1>16. /\ chosen \cup warm \cup 1 .. warmStart = 1 .. n
       /\ chosen \cap warm = {} /\ (chosen \cup warm) \cap 1 .. warmStart = {}
  <2>1. chosen \cup warm = warmStart + 1 .. n /\ chosen \cap warm = {}
    BY <1>10, <1>11, <1>12
  <2>2. (warmStart + 1 .. n) \cup 1 .. warmStart = 1 .. n /\ (warmStart + 1 .. n) \cap 1 .. warmStart = {}
    BY <1>7
  <2> QED
    BY <2>1, <2>2
<1>17. Cardinality(chosen) <= limit
  <2>1. start + 1 \in Int /\ n \in Int /\ start \in Nat /\ start <= n
    BY <1>6
  <2>2. IsFiniteSet(start + 1 .. n) /\ Cardinality(start + 1 .. n) = IF start + 1 > n THEN 0 ELSE n - (start + 1) + 1
    BY <2>1, FS_Interval
  <2>3. Cardinality(start + 1 .. n) <= limit
    BY <1>3, <1>6, <2>1, <2>2
  <2>4. chosen \in SUBSET (start + 1 .. n)
    BY <1>10, <1>11
  <2>5. IsFiniteSet(chosen) /\ Cardinality(chosen) <= Cardinality(start + 1 .. n)
    BY <2>2, <2>4, FS_Subset
  <2>6. Cardinality(chosen) \in Nat /\ Cardinality(start + 1 .. n) \in Nat
    BY <2>2, <2>5, FS_CardinalityType
  <2> QED
    BY <1>3, <2>3, <2>5, <2>6
<1>18. plan.topK \in Context!Resolved.topKMin .. Context!Resolved.topKMax
  <2>1. PICK low \in Nat : low = Context!Resolved.topKMin
    BY ResolvedFacts
  <2>2. PICK high \in Nat : high = Context!Resolved.topKMax /\ low <= high
    BY <2>1, ResolvedFacts
  <2>3. PICK unused \in Nat : unused = Context!Greatest(0, Context!Resolved.history - hot.used)
    BY <1>10, ResolvedFacts DEF Context!Greatest
  <2>4. PICK per \in Nat \ {0} : per = Context!Resolved.perItem
    BY ResolvedFacts
  <2>5. PICK tokens \in Nat : tokens = Context!Resolved.memory + unused \div 2
    BY ResolvedFacts
  <2>6. tokens \div per \in Int
    BY <2>4, <2>5
  <2>7. PICK k \in Int : k = tokens \div per
    BY <2>6
  <2>8. Context!Clamp(k, low, high) \in low .. high
    BY <2>2 DEF Context!Clamp, Context!Least, Context!Greatest
  <2> QED
    BY <1>14, <2>1, <2>2, <2>3, <2>4, <2>5, <2>7, <2>8
<1>19. Context!WarmListed(warm) = LastOf(warm, c)
  BY <1>5, SameCount DEF Context!WarmListed, LastOf
<1>20. n - Context!Cardinality(Context!Shown(plan))
         = Context!WarmOmitted(warm) + Context!Greatest(0, Context!Cardinality(1 .. warmStart) - 4)
  <2>1. Context!Shown(plan) = chosen \cup LastOf(warm, c) \cup Context!ArchivedListed(1 .. warmStart)
    BY <1>14, <1>19 DEF Context!Shown
  <2>2. n - Cardinality(Context!Shown(plan))
           = (IF Cardinality(warm) > c THEN Cardinality(warm) - c ELSE 0) + (IF warmStart > 4 THEN warmStart - 4 ELSE 0)
    BY <1>15, <2>1, TiersCounted
  <2>3. Cardinality(warm) \in Nat
    <3>1. warm \in SUBSET (1 .. n)
      BY <1>7, <1>12
    <3> QED
      BY <3>1, LastCounted
  <2>4. Context!WarmOmitted(warm) = IF Cardinality(warm) > c THEN Cardinality(warm) - c ELSE 0
    BY <1>5, <2>3, SameCount DEF Context!WarmOmitted, Context!Greatest
  <2>5. Context!Cardinality(1 .. warmStart) = warmStart /\ warmStart \in Nat
    BY <1>7, ArchivedCounted
  <2>6. Context!Greatest(0, warmStart - 4) = IF warmStart > 4 THEN warmStart - 4 ELSE 0
    BY <2>5 DEF Context!Greatest
  <2> QED
    BY <2>2, <2>4, <2>5, <2>6, SameCount
<1>21. n > 0 => n \in chosen
  BY <1>10, <1>11
<1>22. hot.used <= Context!Resolved.history \/ chosen = {n}
  BY <1>10, <1>11
<1>23. Context!Cardinality(chosen) <= Context!Resolved.hotLimit
  BY <1>3, <1>17, SameCount
<1> QED
  BY <1>1, <1>2, <1>13, <1>14, <1>16, <1>18, <1>20, <1>21, <1>22, <1>23, Zenon DEF Context!WindowsSound

(***************************************************************************)
(* compactSection.                                                          *)
(***************************************************************************)

LEMMA DigitsFacts == \A n : Context!Digits(n) \in 1 .. 6
<1>1. ASSUME NEW S, S \subseteq 1 .. 5 PROVE 1 + Cardinality(S) \in 1 .. 6
  <2>1. IsFiniteSet(1 .. 5) /\ Cardinality(1 .. 5) = 5
    <3>1. PICK five \in Nat : five = 5
      OBVIOUS
    <3>2. IsFiniteSet(1 .. five) /\ Cardinality(1 .. five) = IF 1 > five THEN 0 ELSE five - 1 + 1
      BY FS_Interval
    <3> QED
      BY <3>1, <3>2
  <2>2. Cardinality(S) \in Nat /\ Cardinality(S) <= 5
    BY <1>1, <2>1, FS_Subset, FS_CardinalityType
  <2> QED
    BY <2>2
<1>2. \A n : {k \in 1 .. 5 : 10^k <= n} \subseteq 1 .. 5
  BY Zenon
<1> QED
  BY <1>1, <1>2, SameCount, Zenon DEF Context!Digits

LEMMA TokensFacts == \A chars \in Nat : /\ Context!Tokens(chars) \in Nat
                                        /\ \A top \in Nat : chars <= 4 * top => Context!Tokens(chars) <= top
BY DEF Context!Tokens, Context!CharsPerToken

\* What is kept of a text that exceeds its budget, and the marker.
LEMMA SectionFits ==
  ASSUME NEW label \in 14 .. 21, NEW chars \in Nat, NEW budget \in Nat, budget >= 30
  PROVE  /\ budget >= 170 => Context!Tokens(Context!CompactSection(label, chars, budget).chars) <= budget
         /\ Context!Tokens(Context!CompactSection(label, chars, budget).chars) <= budget + 15
<1>1. PICK tokens \in Nat : tokens = Context!Tokens(chars)
  BY TokensFacts
<1>2. PICK d \in 1 .. 6 : d = Context!Digits(tokens)
  BY DigitsFacts
<1>3. PICK e \in 1 .. 6 : e = Context!Digits(budget)
  BY DigitsFacts
<1>4. PICK room \in Nat : room = Context!Greatest(120, budget * 4) /\ room = IF 120 > budget * 4 THEN 120 ELSE budget * 4
  BY DEF Context!Greatest
<1>5. PICK head \in Nat : head = Context!Greatest(48, (room * 72) \div 100)
                           /\ head = IF 48 > (room * 72) \div 100 THEN 48 ELSE (room * 72) \div 100
  BY DEF Context!Greatest
<1>6. PICK tail \in Nat : tail = Context!Greatest(32, (room * 18) \div 100)
                           /\ tail = IF 32 > (room * 18) \div 100 THEN 32 ELSE (room * 18) \div 100
  BY DEF Context!Greatest
<1>7. PICK first \in Nat : first = Context!Least(head, chars) /\ first <= head
  BY DEF Context!Least
<1>8. PICK last \in Nat : last = Context!Least(tail, chars) /\ last <= tail
  BY DEF Context!Least
<1>9. PICK section : section = Context!CompactSection(label, chars, budget)
  OBVIOUS
<1>10. section.chars = IF tokens <= budget THEN chars
                       ELSE IF room < 160 THEN 41 + label + e ELSE first + last + (30 + label + d + e)
  BY <1>1, <1>2, <1>3, <1>4, <1>5, <1>6, <1>7, <1>8, <1>9
     DEF Context!CompactSection, Context!Kept, Context!Shortened, Context!CharsPerToken
<1>11. CASE tokens <= budget
  BY <1>1, <1>9, <1>10, <1>11
<1>12. CASE ~(tokens <= budget) /\ room < 160
  <2>1. budget < 40 /\ section.chars \in Nat /\ section.chars <= 4 * 17
    BY <1>4, <1>10, <1>12
  <2>2. Context!Tokens(section.chars) <= 17 /\ Context!Tokens(section.chars) \in Nat
    BY <2>1, TokensFacts
  <2> QED
    BY <1>9, <2>1, <2>2
<1>13. CASE ~(tokens <= budget) /\ ~(room < 160)
  <2>1. room = 4 * budget /\ budget >= 40
    BY <1>4, <1>13
  <2>2. section.chars \in Nat /\ section.chars <= head + tail + 63
    BY <1>7, <1>8, <1>10, <1>13
  <2>3. head <= (room * 72) \div 100
    BY <1>5, <2>1
  <2>4. head + tail + 63 <= 4 * (budget + 15)
    BY <1>6, <2>1, <2>3
  <2>5. budget >= 170 => head + tail + 63 <= 4 * budget
    BY <1>6, <2>1, <2>3
  <2>6. Context!Tokens(section.chars) <= budget + 15
    BY <2>2, <2>4, TokensFacts
  <2>7. budget >= 170 => Context!Tokens(section.chars) <= budget
    BY <2>2, <2>5, TokensFacts
  <2> QED
    BY <1>9, <2>6, <2>7
<1> QED
  BY <1>11, <1>12, <1>13

\* The shares of the lifecycle budget.
LEMMA SharesFacts ==
  /\ Context!WarmShare \in Nat /\ Context!WarmShare >= 30
  /\ Context!ArchivedShare \in Nat /\ Context!ArchivedShare >= 30
  /\ Context!WarmShare + Context!ArchivedShare = Context!Resolved.lifecycle
<1>1. PICK budget \in Nat : budget = Context!Resolved.lifecycle /\ budget >= 80
  BY ResolvedFacts
<1>2. PICK warm \in Nat : warm = Context!Greatest(40, (budget * 65) \div 100)
                           /\ warm = IF 40 > (budget * 65) \div 100 THEN 40 ELSE (budget * 65) \div 100
  BY DEF Context!Greatest
<1>3. PICK archived \in Nat : archived = Context!Greatest(0, budget - warm) /\ archived = budget - warm
  BY <1>1, <1>2 DEF Context!Greatest
<1>4. Context!Least(30, budget) = 30 /\ Context!Greatest(0, budget - 30) = budget - 30
  BY <1>1 DEF Context!Least, Context!Greatest
<1>5. Context!WarmShare = IF archived < 30 THEN budget - 30 ELSE warm
  BY <1>1, <1>2, <1>3, <1>4 DEF Context!WarmShare
<1>6. Context!ArchivedShare = budget - Context!WarmShare
  BY <1>1 DEF Context!ArchivedShare
<1>7. warm >= 40
  BY <1>2
<1>8. PICK share \in Nat : share = Context!WarmShare /\ share >= 30 /\ budget - share >= 30
  <2>1. CASE archived < 30
    BY <1>1, <1>5, <2>1
  <2>2. CASE ~(archived < 30)
    BY <1>3, <1>5, <1>7, <2>2
  <2> QED
    BY <2>1, <2>2
<1> QED
  BY <1>1, <1>6, <1>8

LEMMA SectionsFitAlways == ContextInv => Context!SectionsFit
<1> SUFFICES ASSUME ContextInv, NEW s \in Sections
             PROVE  LET used == Context!Tokens(Context!PlanRuntimeContext(xTexts)[s].chars)
                    IN /\ Context!Budget[s] >= 170 => used <= Context!Budget[s]
                       /\ used <= Context!Budget[s] + 15
                       /\ Context!WarmShare + Context!ArchivedShare = Context!Resolved.lifecycle /\ Context!ArchivedShare >= 30
  BY SectionLabels, Zenon DEF Context!SectionsFit
<1>1. PICK chars \in Nat : chars = xTexts[s]
  BY DEF ContextInv
<1>2. PICK label \in 14 .. 21 : label = Context!Labels[s]
  BY DEF Sections, Context!Labels
<1>3. PICK budget \in Nat : budget = Context!Budget[s] /\ budget >= 30
  BY ResolvedFacts, SharesFacts DEF Sections, Context!Budget
<1>4. Context!PlanRuntimeContext(xTexts)[s] = Context!CompactSection(label, chars, budget)
  BY <1>1, <1>2, <1>3, SectionLabels DEF Context!PlanRuntimeContext
<1> QED
  BY <1>3, <1>4, SectionFits, SharesFacts

LEMMA ContextIsSound == ContextInv => Context!ContextSound
BY WindowsAreSound, SectionsFitAlways DEF Context!ContextSound

(***************************************************************************)
(* The memory.                                                              *)
(***************************************************************************)


MemoryRows == [node : Memory!Node, linked : BOOLEAN]
Progress == [chunks : Seq(Memory!Node), previous : sNodes \cup {Memory!NoNode}]

MemoryTypes ==
    /\ sMemory \in Seq(MemoryRows) /\ sNodes \subseteq Memory!Node /\ sCut \subseteq Memory!Node
    /\ IsFiniteSet(sNodes) /\ IsFiniteSet(sEdges)
    /\ sTurn \in [Slots -> Progress]
    /\ sBegun \in 0 .. MaxTurns /\ sFaults \in 0 .. Faults

LinkedKnown == \A r \in 1 .. Len(sMemory) : sMemory[r].linked => sMemory[r].node \in sNodes
\* An edge joins two nodes, and one of contradiction a claim and its denial.
EdgeSound(e, known) == /\ e.from \in known /\ e.to \in known
                       /\ e.relation = "contradicts" => e.from.claim = e.to.claim /\ e.from # e.to
EdgesSound == \A e \in sEdges : EdgeSound(e, sNodes)
BothWays(n, other) == {Memory!Edge(n, other, "contradicts"), Memory!Edge(other, n, "contradicts")}
DenialsLinked == \A n \in sNodes \ sCut : \A other \in Memory!Related(n) \ sCut : BothWays(n, other) \subseteq sEdges

MemoryInv == MemoryTypes /\ LinkedKnown /\ EdgesSound /\ DenialsLinked

LEMMA MemoryInitially == Init => MemoryInv
<1> SUFFICES ASSUME Init PROVE MemoryInv
  OBVIOUS
<1>1. /\ sMemory = <<>> /\ sNodes = {} /\ sEdges = {} /\ sTurn = [t \in Slots |-> Memory!Idle]
      /\ sBegun = 0 /\ sFaults = 0 /\ sCut = {}
  BY DEF Init, Memory!Init
<1>2. Memory!Idle \in Progress
  <2>1. <<>> \in Seq(Memory!Node)
    OBVIOUS
  <2> QED
    BY <2>1 DEF Memory!Idle, Progress
<1>3. IsFiniteSet({})
  BY FS_EmptySet
<1>4. MemoryTypes
  BY <1>1, <1>2, <1>3, RuntimeAssumption, MemoryAssumption DEF MemoryTypes
<1>5. LinkedKnown /\ EdgesSound /\ DenialsLinked
  BY <1>1 DEF LinkedKnown, EdgesSound, DenialsLinked
<1> QED
  BY <1>4, <1>5 DEF MemoryInv

LEMMA ImageFinite ==
  ASSUME NEW S, IsFiniteSet(S), NEW f, DOMAIN f = S PROVE IsFiniteSet({f[x] : x \in S})
<1>1. PICK T : T = {f[x] : x \in S}
  OBVIOUS
<1>2. PICK g : g = [x \in S |-> f[x]]
  OBVIOUS
<1>3. g \in Surjection(S, T)
  BY <1>1, <1>2 DEF Surjection
<1> QED
  BY <1>1, <1>3, FS_Surjection

\* The edges written for a chunk.
LEMMA EdgesFacts ==
  ASSUME MemoryTypes, NEW node \in Memory!Node, NEW previous \in sNodes \cup {Memory!NoNode}, NEW k \in 0 .. 6
  PROVE  /\ IsFiniteSet(Memory!Edges(node, previous, k))
         /\ k < 4 => Memory!Edges(node, previous, k) = {}
         /\ \A e \in Memory!Edges(node, previous, k) : EdgeSound(e, sNodes \cup {node})
<1>1. PICK related : related = Memory!Related(node)
  OBVIOUS
<1>2. related \subseteq sNodes /\ \A other \in related : other.claim = node.claim /\ other # node
  BY <1>1 DEF Memory!Related
<1>3. IsFiniteSet(related)
  BY <1>2, FS_Subset DEF MemoryTypes
<1>4. PICK derived : derived = IF k >= 4 THEN Memory!Derived(previous, node) ELSE {}
  OBVIOUS
<1>5. PICK to : to = {Memory!Edge(other, node, Memory!Relation(other, node)) : other \in IF k >= 5 THEN related ELSE {}}
  OBVIOUS
<1>7. PICK from : from = {Memory!Edge(node, other, Memory!Relation(other, node)) : other \in IF k >= 6 THEN related ELSE {}}
  OBVIOUS
<1>8. Memory!Edges(node, previous, k) = derived \cup to \cup from
  BY <1>1, <1>4, <1>5, <1>7 DEF Memory!Edges
<1>9. IsFiniteSet(derived)
  BY <1>4, FS_EmptySet, FS_Singleton DEF Memory!Derived
<1>10. IsFiniteSet(to) /\ IsFiniteSet(from)
  <2>1. PICK others : others = IF k >= 5 THEN related ELSE {}
    OBVIOUS
  <2>2. PICK others2 : others2 = IF k >= 6 THEN related ELSE {}
    OBVIOUS
  <2>3. IsFiniteSet(others) /\ IsFiniteSet(others2)
    BY <1>3, <2>1, <2>2, FS_EmptySet
  <2>4. PICK f : f = [other \in others |-> Memory!Edge(other, node, Memory!Relation(other, node))]
    OBVIOUS
  <2>5. PICK g : g = [other \in others2 |-> Memory!Edge(node, other, Memory!Relation(other, node))]
    OBVIOUS
  <2>6. IsFiniteSet({f[x] : x \in others}) /\ IsFiniteSet({g[x] : x \in others2})
    BY <2>3, <2>4, <2>5, ImageFinite
  <2>7. to = {f[x] : x \in others} /\ from = {g[x] : x \in others2}
    BY <1>5, <1>7, <2>1, <2>2, <2>4, <2>5
  <2> QED
    BY <2>6, <2>7
<1>11. IsFiniteSet(derived \cup to \cup from)
  BY <1>9, <1>10, FS_Union
<1>12. k < 4 => derived = {} /\ to = {} /\ from = {}
  BY <1>4, <1>5, <1>7
<1>13. \A e \in derived : EdgeSound(e, sNodes \cup {node})
  BY <1>4 DEF Memory!Derived, Memory!Edge, EdgeSound
<1>14. \A e \in to : EdgeSound(e, sNodes \cup {node})
  BY <1>2, <1>5 DEF Memory!Edge, EdgeSound
<1>15. \A e \in from : EdgeSound(e, sNodes \cup {node})
  BY <1>2, <1>7 DEF Memory!Edge, EdgeSound
<1> QED
  BY <1>8, <1>11, <1>12, <1>13, <1>14, <1>15

\* All the writes of a chunk are done, or some.
LEMMA WriteStep ==
  ASSUME MemoryInv, NEW node \in Memory!Node, NEW previous \in sNodes \cup {Memory!NoNode}, NEW k \in 0 .. 6,
         Memory!Write(node, previous, k),
         sTurn' \in [Slots -> [chunks : Seq(Memory!Node), previous : sNodes' \cup {Memory!NoNode}]],
         sBegun' \in 0 .. MaxTurns, sFaults' \in 0 .. Faults
  PROVE  MemoryInv'
<1>1. PICK added : added = Memory!Edges(node, previous, k)
  OBVIOUS
<1>2. IsFiniteSet(added) /\ (k < 4 => added = {}) /\ \A e \in added : EdgeSound(e, sNodes \cup {node})
  BY <1>1, EdgesFacts DEF MemoryInv
<1>3. /\ sMemory' = IF k >= 1 THEN Append(sMemory, [node |-> node, linked |-> k >= 3]) ELSE sMemory
      /\ sNodes' = IF k >= 2 THEN sNodes \cup {node} ELSE sNodes
      /\ sEdges' = sEdges \cup added
      /\ sCut' = IF k = 6 THEN sCut \ {node} ELSE sCut \cup {node}
  BY <1>1 DEF Memory!Write, Memory!Remembered, Memory!WithNode, Memory!AllWrites
<1>4. PICK row : row = [node |-> node, linked |-> k >= 3]
  OBVIOUS
<1>5. row \in MemoryRows /\ row.node = node /\ row.linked = (k >= 3)
  BY <1>4 DEF MemoryRows
<1>6. MemoryTypes
  BY DEF MemoryInv
<1>7. sMemory' \in Seq(MemoryRows)
  BY <1>3, <1>4, <1>5, <1>6 DEF MemoryTypes
<1>8. IsFiniteSet(sNodes') /\ IsFiniteSet(sEdges')
  BY <1>2, <1>3, <1>6, FS_AddElement, FS_Union DEF MemoryTypes
<1>9. MemoryTypes'
  <2>1. sNodes' \subseteq Memory!Node /\ sCut' \subseteq Memory!Node
    BY <1>3, <1>6 DEF MemoryTypes
  <2>2. Progress' = [chunks : Seq(Memory!Node), previous : sNodes' \cup {Memory!NoNode}]
    BY DEF Progress
  <2> QED
    BY <1>7, <1>8, <2>1, <2>2 DEF MemoryTypes, MemoryRows
<1>10. LinkedKnown'
  <2> SUFFICES ASSUME NEW r \in 1 .. Len(sMemory'), sMemory'[r].linked PROVE sMemory'[r].node \in sNodes'
    BY DEF LinkedKnown
  <2>1. PICK all \in Seq(MemoryRows) : all = sMemory
    BY <1>6 DEF MemoryTypes
  <2>2. \A i \in 1 .. Len(all) : all[i].linked => all[i].node \in sNodes'
    BY <1>3, <2>1 DEF MemoryInv, LinkedKnown
  <2>3. CASE k = 0
    <3>1. sMemory' = all
      BY <1>3, <2>1, <2>3
    <3> QED
      BY <2>2, <3>1
  <2>4. CASE k >= 1
    <3>1. PICK more : more = Append(all, row)
      OBVIOUS
    <3>2. /\ Len(all) \in Nat /\ Len(more) = Len(all) + 1 /\ more[Len(all) + 1] = row
          /\ \A i \in 1 .. Len(all) : more[i] = all[i]
      BY <1>5, <3>1
    <3>3. sMemory' = more
      BY <1>3, <1>4, <2>1, <2>4, <3>1
    <3>4. CASE r = Len(all) + 1
      <4>1. sMemory'[r] = row
        BY <3>2, <3>3, <3>4
      <4>2. k >= 3
        BY <1>5, <4>1
      <4> QED
        BY <1>3, <1>5, <4>1, <4>2
    <3>5. CASE r # Len(all) + 1
      <4>1. r \in 1 .. Len(all)
        BY <3>2, <3>3, <3>5
      <4> QED
        BY <2>2, <3>2, <3>3, <4>1
    <3> QED
      BY <3>4, <3>5
  <2> QED
    BY <2>3, <2>4
<1>11. EdgesSound'
  <2>1. ASSUME NEW e \in sEdges PROVE EdgeSound(e, sNodes')
    BY <1>3 DEF MemoryInv, EdgesSound, EdgeSound
  <2>2. ASSUME NEW e \in added PROVE EdgeSound(e, sNodes')
    <3>1. k >= 4
      BY <1>2, <2>2
    <3>2. sNodes' = sNodes \cup {node}
      BY <1>3, <3>1
    <3> QED
      BY <1>2, <3>2
  <2> QED
    BY <1>3, <2>1, <2>2 DEF EdgesSound
<1>12. DenialsLinked'
  <2> SUFFICES ASSUME NEW n \in sNodes' \ sCut', NEW other \in sNodes' \ sCut', other.claim = n.claim, other # n
               PROVE  BothWays(n, other) \subseteq sEdges'
    BY DEF DenialsLinked, Memory!Related, BothWays, Memory!Edge
  <2>1. CASE n # node /\ other # node
    <3>1. n \in sNodes \ sCut /\ other \in Memory!Related(n) \ sCut
      BY <1>3, <2>1 DEF Memory!Related
    <3> QED
      BY <1>3, <3>1 DEF MemoryInv, DenialsLinked
  <2>2. CASE k = 6 /\ (n = node \/ other = node)
    <3>1. PICK o : o \in sNodes /\ o.claim = node.claim /\ o # node /\ ((n = node /\ other = o) \/ (n = o /\ other = node))
      BY <1>3, <2>2
    <3>2. o.polarity # node.polarity
      BY <1>6, <3>1 DEF MemoryTypes, Memory!Node
    <3>3. Memory!Relation(o, node) = "contradicts" /\ o \in Memory!Related(node)
      BY <3>1, <3>2 DEF Memory!Relation, Memory!Related
    <3>4. {Memory!Edge(o, node, "contradicts"), Memory!Edge(node, o, "contradicts")} \subseteq added
      BY <1>1, <2>2, <3>3 DEF Memory!Edges
    <3> QED
      BY <1>3, <3>1, <3>4 DEF BothWays
  <2> QED
    BY <1>3, <2>1, <2>2
<1> QED
  BY <1>9, <1>10, <1>11, <1>12 DEF MemoryInv

\* A turn takes up its next chunk.
LEMMA TurnGoesOn ==
  ASSUME MemoryTypes, NEW t \in Slots, sTurn[t].chunks # <<>>
  PROVE  /\ Head(sTurn[t].chunks) \in Memory!Node /\ sTurn[t].previous \in sNodes \cup {Memory!NoNode}
         /\ \A known, node : sNodes \subseteq known /\ node \in known \cup {Memory!NoNode} /\ Memory!After(t, node) =>
               sTurn' \in [Slots -> [chunks : Seq(Memory!Node), previous : known \cup {Memory!NoNode}]]
<1>1. PICK u \in Progress : u = sTurn[t]
  BY DEF MemoryTypes
<1>2. PICK chunks \in Seq(Memory!Node) : chunks = u.chunks
  BY DEF Progress
<1>3. Head(chunks) \in Memory!Node /\ Tail(chunks) \in Seq(Memory!Node)
  BY <1>1, <1>2
<1>4. u.previous \in sNodes \cup {Memory!NoNode}
  BY DEF Progress
<1>5. ASSUME NEW known, NEW node, sNodes \subseteq known, node \in known \cup {Memory!NoNode}, Memory!After(t, node)
      PROVE  sTurn' \in [Slots -> [chunks : Seq(Memory!Node), previous : known \cup {Memory!NoNode}]]
  <2>1. PICK rest \in Seq(Memory!Node) : rest = Tail(chunks)
    BY <1>3
  <2>2. PICK v : v = IF rest = <<>> THEN Memory!Idle ELSE [chunks |-> rest, previous |-> node]
    OBVIOUS
  <2>3. v \in [chunks : Seq(Memory!Node), previous : known \cup {Memory!NoNode}]
    BY <1>5, <2>1, <2>2 DEF Memory!Idle
  <2>4. sTurn' = [sTurn EXCEPT ![t] = v]
    BY <1>1, <1>2, <1>5, <2>1, <2>2 DEF Memory!After
  <2>5. Progress \subseteq [chunks : Seq(Memory!Node), previous : known \cup {Memory!NoNode}]
    BY <1>5 DEF Progress
  <2> QED
    BY <2>3, <2>4, <2>5 DEF MemoryTypes
<1> QED
  BY <1>1, <1>2, <1>3, <1>4, <1>5

LEMMA IdleAllowed == \A known : Memory!Idle \in [chunks : Seq(Memory!Node), previous : known \cup {Memory!NoNode}]
<1>1. <<>> \in Seq(Memory!Node)
  OBVIOUS
<1> QED
  BY <1>1 DEF Memory!Idle

\* The tables stay as they are.
LEMMA MemoryKept ==
  ASSUME MemoryInv, UNCHANGED <<sMemory, sNodes, sEdges, sCut>>, sTurn' \in [Slots -> Progress],
         sBegun' \in 0 .. MaxTurns, sFaults' \in 0 .. Faults
  PROVE  MemoryInv'
<1>1. MemoryTypes'
  BY DEF MemoryInv, MemoryTypes, Progress
<1>2. LinkedKnown' /\ EdgesSound'
  BY DEF MemoryInv, LinkedKnown, EdgesSound
<1>3. DenialsLinked'
  BY DEF MemoryInv, DenialsLinked, Memory!Related
<1> QED
  BY <1>1, <1>2, <1>3 DEF MemoryInv

LEMMA MemoryStep == MemoryInv /\ [Memory!Next]_MemoryVars => MemoryInv'
<1> SUFFICES ASSUME MemoryInv, [Memory!Next]_MemoryVars PROVE MemoryInv'
  OBVIOUS
<1>1. /\ MemoryTypes /\ sBegun \in 0 .. MaxTurns /\ sFaults \in 0 .. Faults /\ sTurn \in [Slots -> Progress]
      /\ MaxTurns \in Nat /\ Faults \in Nat
  BY MemoryAssumption, RuntimeAssumption DEF MemoryInv, MemoryTypes
<1>2. CASE UNCHANGED MemoryVars
  BY <1>1, <1>2, MemoryKept DEF MemoryVars
<1>3. ASSUME NEW t \in Slots, Memory!Begin(t) PROVE MemoryInv'
  <2>1. PICK chunks \in Contents : sTurn' = [sTurn EXCEPT ![t] = [chunks |-> chunks, previous |-> Memory!NoNode]]
    BY <1>3 DEF Memory!Begin
  <2>2. chunks \in Seq(Memory!Node)
    BY MemoryAssumption DEF Memory!Node
  <2>3. sTurn' \in [Slots -> Progress]
    BY <1>1, <2>1, <2>2 DEF Progress
  <2>4. sBegun' \in 0 .. MaxTurns /\ sFaults' \in 0 .. Faults
    BY <1>1, <1>3 DEF Memory!Begin
  <2> QED
    BY <1>3, <2>3, <2>4, MemoryKept DEF Memory!Begin
<1>4. ASSUME NEW t \in Slots, Memory!Skip(t) PROVE MemoryInv'
  <2>1. sTurn[t].chunks # <<>> /\ Memory!After(t, sTurn[t].previous)
    BY <1>4 DEF Memory!Skip
  <2>2. sTurn[t].previous \in sNodes \cup {Memory!NoNode}
    BY <1>1, <2>1, TurnGoesOn
  <2>3. sTurn' \in [Slots -> Progress]
    BY <1>1, <2>1, <2>2, TurnGoesOn DEF Progress
  <2> QED
    BY <1>1, <1>4, <2>3, MemoryKept DEF Memory!Skip
<1>5. ASSUME NEW t \in Slots, Memory!Store(t) PROVE MemoryInv'
  <2>1. PICK node : node = Head(sTurn[t].chunks)
    OBVIOUS
  <2>2. PICK previous : previous = sTurn[t].previous
    OBVIOUS
  <2>3. /\ sTurn[t].chunks # <<>> /\ Memory!Write(node, previous, 6) /\ Memory!After(t, node)
        /\ UNCHANGED <<sBegun, sFaults>>
    BY <1>5, <2>1, <2>2 DEF Memory!Store, Memory!AllWrites
  <2>4. node \in Memory!Node /\ previous \in sNodes \cup {Memory!NoNode}
    BY <1>1, <2>1, <2>2, <2>3, TurnGoesOn
  <2>5. sNodes' = sNodes \cup {node}
    BY <2>3 DEF Memory!Write, Memory!WithNode
  <2>6. sTurn' \in [Slots -> [chunks : Seq(Memory!Node), previous : sNodes' \cup {Memory!NoNode}]]
    BY <1>1, <2>3, <2>5, TurnGoesOn
  <2> QED
    BY <1>1, <2>3, <2>4, <2>6, WriteStep
<1>6. ASSUME NEW t \in Slots, Memory!Interrupted(t) PROVE MemoryInv'
  <2>1. PICK node : node = Head(sTurn[t].chunks)
    OBVIOUS
  <2>2. PICK previous : previous = sTurn[t].previous
    OBVIOUS
  <2>3. PICK k \in 0 .. 5 : Memory!Write(node, previous, k)
    BY <1>6, <2>1, <2>2 DEF Memory!Interrupted, Memory!AllWrites
  <2>4. /\ sTurn[t].chunks # <<>> /\ sFaults' \in 0 .. Faults /\ sBegun' \in 0 .. MaxTurns
        /\ \/ sTurn' = [sTurn EXCEPT ![t] = Memory!Idle]
           \/ sTurn' = [u \in Slots |-> Memory!Idle]
    BY <1>1, <1>6 DEF Memory!Interrupted
  <2>5. node \in Memory!Node /\ previous \in sNodes \cup {Memory!NoNode}
    BY <1>1, <2>1, <2>2, <2>4, TurnGoesOn
  <2>6. sNodes \subseteq sNodes'
    BY <2>3 DEF Memory!Write, Memory!WithNode
  <2>7. PICK idle : idle = Memory!Idle
    OBVIOUS
  <2>8. PICK allowed : allowed = [chunks : Seq(Memory!Node), previous : sNodes' \cup {Memory!NoNode}]
    OBVIOUS
  <2>9. idle \in allowed
    BY <2>7, <2>8, IdleAllowed
  <2>10. Progress \subseteq allowed
    BY <2>6, <2>8 DEF Progress
  <2>11. sTurn' \in [Slots -> allowed]
    BY <1>1, <2>4, <2>7, <2>9, <2>10
  <2>12. k \in 0 .. 6
    OBVIOUS
  <2> QED
    BY <2>3, <2>4, <2>5, <2>8, <2>11, <2>12, WriteStep
<1> QED
  BY <1>2, <1>3, <1>4, <1>5, <1>6 DEF Memory!Next

\* What retrieval finds contradicted has a node that it contradicts, and a claim linked with its
\* denial is found so.
LEMMA MemoryIsSound == MemoryInv => Memory!MemorySound
<1> SUFFICES ASSUME MemoryInv PROVE Memory!MemorySound
  OBVIOUS
<1>1. sMemory \in Seq(MemoryRows) /\ DOMAIN sMemory = 1 .. Len(sMemory)
  BY DEF MemoryInv, MemoryTypes
<1>2. \A r \in DOMAIN sMemory : sMemory[r].linked => sMemory[r].node \in sNodes
  BY <1>1 DEF MemoryInv, LinkedKnown
<1>3. Memory!Ends(sEdges) \subseteq sNodes
  BY DEF MemoryInv, EdgesSound, EdgeSound, Memory!Ends
<1>4. \A n \in sNodes \ sCut : \A other \in Memory!Related(n) \ sCut :
         {Memory!Edge(n, other, "contradicts"), Memory!Edge(other, n, "contradicts")} \subseteq sEdges
  BY DEF MemoryInv, DenialsLinked, BothWays
<1>5. ASSUME NEW es, es \subseteq sEdges, NEW node
      PROVE  /\ Memory!Contradictions(es, node) \in Nat
             /\ Memory!Contradictions(es, node) > 0 <=> \E e \in es : node \in {e.from, e.to} /\ e.relation = "contradicts"
  <2>1. PICK found : found = {e \in es : node \in {e.from, e.to} /\ e.relation = "contradicts"}
    OBVIOUS
  <2>2. IsFiniteSet(found)
    BY <1>5, <2>1, FS_Subset DEF MemoryInv, MemoryTypes
  <2>3. Memory!Contradictions(es, node) = Cardinality(found)
    BY <2>1 DEF Memory!Contradictions, Memory!Cardinality, Cardinality
  <2>4. Cardinality(found) \in Nat /\ (Cardinality(found) = 0 <=> found = {})
    BY <2>2, FS_CardinalityType, FS_EmptySet
  <2> QED
    BY <2>1, <2>3, <2>4
<1>6. \A ns : Memory!Expansion(ns) \subseteq sEdges
  BY DEF Memory!Expansion, Memory!Touching
<1>7. ASSUME NEW rows \in SUBSET DOMAIN sMemory, NEW r \in rows, r \in Memory!Conflicts(rows)
      PROVE  Memory!Related(sMemory[r].node) # {}
  <2>1. PICK node : node = sMemory[r].node
    OBVIOUS
  <2>2. PICK all : all = Memory!Expansion(Memory!Provenance(rows))
    OBVIOUS
  <2>3. Memory!Contradictions(sEdges, node) + Memory!Contradictions(all, node) > 0
    BY <1>7, <2>1, <2>2 DEF Memory!Conflicts
  <2>4. \E e \in sEdges : node \in {e.from, e.to} /\ e.relation = "contradicts"
    <3>1. all \subseteq sEdges
      BY <1>6, <2>2
    <3>2. Memory!Contradictions(sEdges, node) > 0 \/ Memory!Contradictions(all, node) > 0
      BY <1>5, <2>3, <3>1
    <3> QED
      BY <1>5, <3>1, <3>2
  <2> QED
    BY <2>1, <2>4 DEF MemoryInv, EdgesSound, EdgeSound, Memory!Related
<1>8. ASSUME NEW rows \in SUBSET DOMAIN sMemory, NEW r \in rows, sMemory[r].linked, sMemory[r].node \notin sCut,
             Memory!Related(sMemory[r].node) \ sCut # {}
      PROVE  r \in Memory!Conflicts(rows)
  <2>1. PICK node : node = sMemory[r].node
    OBVIOUS
  <2>2. PICK all : all = Memory!Expansion(Memory!Provenance(rows))
    OBVIOUS
  <2>3. PICK other \in Memory!Related(node) \ sCut : TRUE
    BY <1>8, <2>1
  <2>4. Memory!Edge(node, other, "contradicts") \in sEdges
    BY <1>2, <1>4, <1>8, <2>1, <2>3
  <2>5. Memory!Contradictions(sEdges, node) > 0 /\ Memory!Contradictions(sEdges, node) \in Nat
    BY <1>5, <2>4 DEF Memory!Edge
  <2>6. Memory!Contradictions(all, node) \in Nat
    BY <1>5, <1>6, <2>2
  <2>7. Memory!Contradictions(sEdges, node) + Memory!Contradictions(all, node) > 0
    BY <2>5, <2>6
  <2> QED
    BY <1>8, <2>1, <2>2, <2>7 DEF Memory!Conflicts
<1> QED
  BY <1>2, <1>3, <1>4, <1>7, <1>8 DEF Memory!MemorySound

(***************************************************************************)
(* A turn, what it shows of the past, and what it remembers.                *)
(***************************************************************************)

LEMMA TalkHolds == Spec => [](TalkInv /\ SessionsKnown)
<1>1. Init => TalkInv /\ SessionsKnown
  BY TalkInitially DEF Init, Talk!Init, Talk!Unused, SessionsKnown, UnderWay
<1>2. TalkInv /\ SessionsKnown /\ [Next]_vars => (TalkInv /\ SessionsKnown)'
  BY TalkPart, TalkStep, SessionsStep DEF TalkInv
<1> QED
  BY <1>1, <1>2, PTL DEF Spec

\* However turns run side by side, a turn is bounded, its transcript whole and its tools governed; every
\* message of the past is in one tier and the sections keep to their budgets; and whatever indexing is
\* interrupted, a claim and its denial are linked and found, never one without the other.
THEOREM TurnsAreSafe == Spec => []TurnsSafe
<1>1. TalkInv /\ ContextInv /\ MemoryInv => TurnsSafe
  BY TurnIsSafe, ContextIsSound, MemoryIsSound DEF TurnsSafe
<1>2. Spec => [](TalkInv /\ SessionsKnown)
  BY TalkHolds
<1>3. Spec => []ContextInv
  BY ContextInitially, ContextStep, ContextPart, PTL DEF Spec
<1>4. Spec => []MemoryInv
  BY MemoryInitially, MemoryStep, MemoryPart, PTL DEF Spec
<1> QED
  BY <1>1, <1>2, <1>3, <1>4, PTL

=============================================================================
