------------------------- MODULE DeliveryQueueProofs -------------------------
(***************************************************************************)
(* Theorems about DeliveryQueue, for every set of deliveries, every queue  *)
(* configuration and every bound.                                          *)
(***************************************************************************)
EXTENDS DeliveryQueue, FiniteSetTheorems, TLAPS

-----------------------------------------------------------------------------
(* What the operators return.                                              *)

\* A retry delay is never negative and never above maxDelayMs.
LEMMA RetryDelayBound ==
    ASSUME NEW k \in 1 .. MaxAttempts, window \in 1 .. 12
    PROVE  RetryDelay(k) \in 0 .. MaxDelay
<1>1. Backoff[k] \in Nat /\ MaxDelay \in Nat
  BY QueueAssumption
<1>2. Backoff[k] * window \in Nat
  BY <1>1
<1>3. (Backoff[k] * window) \div 2 \in Nat
  BY <1>2
<1>. QED  BY <1>1, <1>3 DEF RetryDelay, Least

\* A delay of at most a day makes a timestamp of today or tomorrow.
LEMMA IsoAfterType ==
    ASSUME NEW d \in 0 .. MaxDelay, now \in 0 .. DayLength - 1
    PROVE  IsoAfter(d) \in Timestamps
  BY QueueAssumption DEF IsoAfter, Timestamps

\* CURRENT_TIMESTAMP is a timestamp of today.
LEMMA SqlNowType ==
    ASSUME now \in 0 .. DayLength - 1
    PROVE  SqlNow \in Timestamps
  BY QueueAssumption DEF SqlNow, Timestamps

\* Midnight turns a timestamp into one of today or of an earlier day.
LEMMA YesterdayType ==
    ASSUME NEW t \in Timestamps
    PROVE  Yesterday(t) \in Timestamps
  BY DEF Yesterday, Timestamps
-----------------------------------------------------------------------------
(* Types.                                                                  *)

\* The part of TypeOK that a step which only writes one row must keep.
LEMMA RowWriteKeepsTypes ==
    ASSUME TypeOK,
           NEW r \in Ids, NEW c \in Rows, row' = [row EXCEPT ![r] = c],
           UNCHANGED <<log, inflight, control, now, crashes>>,
           reopened' \in [Ids -> Nat], touched' \subseteq Ids
    PROVE  TypeOK'
  BY DEF TypeOK, control

\* Closing the attempt of a job removes the job and opens or closes nothing else.
LEMMA EndAttemptKeepsTypes ==
    ASSUME TypeOK,
           NEW f \in inflight, NEW c \in Rows, NEW o \in {"ok", "error"},
           row' = [row EXCEPT ![f[1]] = c],
           inflight' = inflight \ {f}, EndAttempt(f, o),
           UNCHANGED <<control, now, history, crashes>>
    PROVE  TypeOK'
<1>. DEFINE r == f[1]
            i == f[2]
<1>1. r \in Ids /\ i \in DOMAIN log[r] /\ f = <<r, i>>
  BY DEF TypeOK
<1>2. log[r] \in Seq(Attempts) /\ log \in [Ids -> Seq(Attempts)]
  BY <1>1 DEF TypeOK
<1>3. log' = [log EXCEPT ![r] = [log[r] EXCEPT ![i] = [log[r][i] EXCEPT !.outcome = o]]]
  BY DEF EndAttempt
<1>4. [log[r][i] EXCEPT !.outcome = o] \in Attempts
  <2>1. log[r][i] \in Attempts
    BY <1>1, <1>2
  <2>. QED  BY <2>1 DEF Attempts
<1>5. /\ [log[r] EXCEPT ![i] = [log[r][i] EXCEPT !.outcome = o]] \in Seq(Attempts)
      /\ DOMAIN [log[r] EXCEPT ![i] = [log[r][i] EXCEPT !.outcome = o]] = DOMAIN log[r]
  BY <1>1, <1>2, <1>4
<1>6. log' \in [Ids -> Seq(Attempts)]
  BY <1>1, <1>2, <1>3, <1>5
<1>7. ASSUME NEW g \in inflight'
      PROVE  g[2] \in DOMAIN log'[g[1]] /\ log'[g[1]][g[2]].outcome = "open"
  <2>1. /\ g \in inflight /\ g # f /\ g \in Ids \X (Nat \ {0})
        /\ g[2] \in DOMAIN log[g[1]] /\ log[g[1]][g[2]].outcome = "open"
    BY <1>7 DEF TypeOK
  <2>2. CASE g[1] # r
    BY <1>1, <1>2, <1>3, <2>1, <2>2
  <2>3. CASE g[1] = r
    <3>1. g[2] # i
      BY <1>1, <2>1, <2>3
    <3>. QED  BY <1>1, <1>2, <1>3, <1>5, <2>1, <2>3, <3>1
  <2>. QED  BY <2>2, <2>3
<1>8. row' \in [Ids -> Rows] /\ inflight' \subseteq Ids \X (Nat \ {0})
  BY <1>1 DEF TypeOK
<1>. QED  BY <1>6, <1>7, <1>8 DEF TypeOK, control, history

\* An empty table has the types.
LEMMA InitTypes == Init => TypeOK
<1>. SUFFICES ASSUME Init PROVE TypeOK
  OBVIOUS
<1>1. row \in [Ids -> Rows]
  BY QueueAssumption DEF Init, Rows, RowStates, Timestamps
<1>2. log \in [Ids -> Seq(Attempts)]
  BY DEF Init
<1>. QED  BY <1>1, <1>2, QueueAssumption DEF Init, TypeOK

\* enqueueDelivery keeps the types.
LEMMA EnqueueTypes == ASSUME TypeOK, NEW r \in Ids, Enqueue(r) PROVE TypeOK'
<1>1. SqlNow \in Timestamps
  BY SqlNowType DEF TypeOK
<1>2. [state |-> "queued", attempts |-> 0, next |-> SqlNow, resolved |-> FALSE] \in Rows
  BY <1>1 DEF Rows, RowStates
<1>. QED  BY <1>2, RowWriteKeepsTypes DEF Enqueue, TypeOK, history

\* The dequeue transaction keeps the types: the jobs it adds are those whose
\* attempts it opens.
LEMMA PollTypes == ASSUME TypeOK, Poll PROVE TypeOK'
<1>1. PICK b \in Batches \ {{}} :
        /\ row' = [r \in Ids |-> IF r \in b THEN Taken(row[r]) ELSE row[r]]
        /\ log' = [r \in Ids |->
                      IF r \in b
                      THEN Append(log[r], [number  |-> row[r].attempts + 1,
                                           outcome |-> "open"])
                      ELSE log[r]]
        /\ inflight' = inflight \cup {<<r, Len(log[r]) + 1>> : r \in b}
  BY DEF Poll
<1>2. b \subseteq Ids
  BY <1>1 DEF Batches, DueRows
<1>3. ASSUME NEW r \in Ids
      PROVE  /\ Taken(row[r]) \in Rows
             /\ [number |-> row[r].attempts + 1, outcome |-> "open"] \in Attempts
             /\ log[r] \in Seq(Attempts)
  <2>1. row[r] \in Rows /\ row[r].attempts + 1 \in Nat \ {0}
    BY <1>3 DEF TypeOK, Rows
  <2>2. Taken(row[r]) \in Rows
    BY <2>1 DEF Rows, RowStates, Taken
  <2>3. [number |-> row[r].attempts + 1, outcome |-> "open"] \in Attempts
    BY <2>1 DEF Attempts
  <2>. QED  BY <2>2, <2>3, <1>3 DEF TypeOK
<1>4. row' \in [Ids -> Rows] /\ log' \in [Ids -> Seq(Attempts)]
  <2>1. row' \in [Ids -> Rows]
    BY <1>1, <1>3 DEF TypeOK
  <2>2. ASSUME NEW r \in Ids
        PROVE  Append(log[r], [number |-> row[r].attempts + 1, outcome |-> "open"])
                  \in Seq(Attempts)
    BY <1>3
  <2>3. log' \in [Ids -> Seq(Attempts)]
    BY <1>1, <1>3, <2>2
  <2>. QED  BY <2>1, <2>3
<1>5. inflight' \subseteq Ids \X (Nat \ {0})
  BY <1>1, <1>2, <1>3 DEF TypeOK
<1>6. ASSUME NEW g \in inflight'
      PROVE  g[2] \in DOMAIN log'[g[1]] /\ log'[g[1]][g[2]].outcome = "open"
  <2>1. CASE g \in inflight
    <3>1. /\ g[1] \in Ids /\ g[2] \in DOMAIN log[g[1]]
          /\ log[g[1]][g[2]].outcome = "open" /\ log[g[1]] \in Seq(Attempts)
      BY <2>1 DEF TypeOK
    <3>. QED  BY <1>1, <1>3, <3>1
  <2>2. CASE \E r \in b : g = <<r, Len(log[r]) + 1>>
    <3>1. PICK r \in b : g = <<r, Len(log[r]) + 1>>
      BY <2>2
    <3>2. log'[r] = Append(log[r], [number |-> row[r].attempts + 1, outcome |-> "open"])
      BY <1>1, <1>2, <3>1
    <3>. QED  BY <1>2, <1>3, <3>1, <3>2
  <2>. QED  BY <1>1, <1>6, <2>1, <2>2
<1>. QED  BY <1>4, <1>5, <1>6 DEF TypeOK, Poll, control, history

\* A dispatchFn call that resolves keeps the types.
LEMMA SucceedTypes ==
    ASSUME TypeOK, NEW f \in inflight, Succeed(f)
    PROVE  TypeOK'
<1>1. f[1] \in Ids /\ row[f[1]] \in Rows
  BY DEF TypeOK
<1>2. WithState(row[f[1]], "sent", TRUE) \in Rows
  BY <1>1 DEF WithState, Rows, RowStates
<1>. QED  BY <1>1, <1>2, EndAttemptKeepsTypes DEF Succeed

\* The columns a failed attempt leaves.
LEMMA FailRowType ==
    ASSUME TypeOK, NEW f \in inflight
    PROVE  LET k == log[f[1]][f[2]].number IN
           /\ k \in Nat \ {0}
           /\ WithState(row[f[1]], "dead_letter", TRUE) \in Rows
           /\ k \in 1 .. MaxAttempts =>
                 WithState(WithAttempts(row[f[1]], k, IsoAfter(RetryDelay(k))),
                           "failed", FALSE) \in Rows
<1>. DEFINE k == log[f[1]][f[2]].number
<1>1. f[1] \in Ids /\ row[f[1]] \in Rows /\ log[f[1]] \in Seq(Attempts)
      /\ f[2] \in DOMAIN log[f[1]]
  BY DEF TypeOK
<1>2. log[f[1]][f[2]] \in Attempts
  BY <1>1
<1>3. k \in Nat \ {0}
  BY <1>2 DEF Attempts
<1>4. WithState(row[f[1]], "dead_letter", TRUE) \in Rows
  BY <1>1 DEF WithState, Rows, RowStates
<1>5. ASSUME k \in 1 .. MaxAttempts
      PROVE  WithState(WithAttempts(row[f[1]], k, IsoAfter(RetryDelay(k))),
                       "failed", FALSE) \in Rows
  <2>1. IsoAfter(RetryDelay(k)) \in Timestamps
    BY <1>5, RetryDelayBound, IsoAfterType DEF TypeOK
  <2>. HIDE DEF k
  <2>. QED  BY <1>1, <1>3, <2>1 DEF WithState, WithAttempts, Rows, RowStates
<1>. QED  BY <1>3, <1>4, <1>5

\* A replay keeps the types.
LEMMA RequeueTypes ==
    ASSUME TypeOK, NEW r \in Ids, RequeueDeadLetter(r)
    PROVE  TypeOK'
<1>1. IsoAfter(0) \in Timestamps
  BY IsoAfterType, QueueAssumption DEF TypeOK
<1>2. WithState(WithAttempts(row[r], 0, IsoAfter(0)), "queued", FALSE) \in Rows
  BY <1>1 DEF TypeOK, WithState, WithAttempts, Rows, RowStates
<1>3. reopened' \in [Ids -> Nat] /\ touched' \subseteq Ids
  BY DEF RequeueDeadLetter, TypeOK
<1>. QED  BY <1>2, <1>3, RowWriteKeepsTypes DEF RequeueDeadLetter

\* A webhook keeps the types.
LEMMA ReconcileTypes ==
    ASSUME TypeOK, NEW r \in Ids, NEW status \in CallbackStatuses,
           Reconcile(r, status)
    PROVE  TypeOK'
<1>. DEFINE s == ReconciledState(r, status)
<1>1. row[r] \in Rows
  BY DEF TypeOK
<1>2. s \in RowStates
  BY <1>1, QueueAssumption DEF ReconciledState, Reconcile, Exists, Rows, RowStates
<1>3. WithState(row[r], s, s = "sent") \in Rows
  <2>. HIDE DEF s
  <2>. QED  BY <1>1, <1>2 DEF WithState, Rows
<1>4. reopened' \in [Ids -> Nat] /\ touched' \subseteq Ids
  BY DEF Reconcile, TypeOK
<1>5. row' = [row EXCEPT ![r] = WithState(row[r], s, s = "sent")]
  BY DEF Reconcile, TypeOK
<1>. QED  BY <1>3, <1>4, <1>5, RowWriteKeepsTypes DEF Reconcile

\* The clock keeps the types.
LEMMA TickTypes == ASSUME TypeOK, Tick PROVE TypeOK'
<1>1. now' \in 0 .. DayLength - 1
  BY QueueAssumption DEF Tick, TypeOK
<1>2. ASSUME NEW r \in Ids
      PROVE  [row[r] EXCEPT !.next = Yesterday(row[r].next)] \in Rows
  <2>1. row[r] \in Rows
    BY DEF TypeOK
  <2>2. Yesterday(row[r].next) \in Timestamps
    BY <2>1, YesterdayType DEF Rows
  <2>. QED  BY <2>1, <2>2 DEF Rows
<1>3. row' \in [Ids -> Rows]
  BY <1>2 DEF Tick, TypeOK
<1>. QED  BY <1>1, <1>3 DEF Tick, TypeOK, control, history

\* A dispatchFn call that rejects keeps the types.
LEMMA FailTypes ==
    ASSUME TypeOK, NEW f \in inflight, Fail(f)
    PROVE  TypeOK'
<1>. DEFINE k == log[f[1]][f[2]].number
            c == IF k >= MaxAttempts
                 THEN WithState(row[f[1]], "dead_letter", TRUE)
                 ELSE WithState(WithAttempts(row[f[1]], k, IsoAfter(RetryDelay(k))),
                                "failed", FALSE)
<1>1. f[1] \in Ids
  BY DEF TypeOK
<1>2. k \in Nat \ {0} /\ (k < MaxAttempts => k \in 1 .. MaxAttempts)
  <2>1. k \in Nat \ {0}
    BY FailRowType
  <2>. HIDE DEF k
  <2>. QED  BY <2>1, QueueAssumption
<1>3. c \in Rows
  <2>1. CASE k >= MaxAttempts
    BY <2>1, FailRowType
  <2>2. CASE ~(k >= MaxAttempts)
    <3>1. k \in 1 .. MaxAttempts
      <4>. HIDE DEF k
      <4>. QED  BY <1>2, <2>2, QueueAssumption
    <3>2. WithState(WithAttempts(row[f[1]], k, IsoAfter(RetryDelay(k))),
                    "failed", FALSE) \in Rows
      BY <3>1, FailRowType
    <3>. QED  BY <2>2, <3>2
  <2>. QED  BY <2>1, <2>2
<1>4. row' = [row EXCEPT ![f[1]] = c]
  BY <1>1 DEF Fail, TypeOK
<1>. QED  BY <1>3, <1>4, EndAttemptKeepsTypes DEF Fail

\* The controls and a restart keep the types.
LEMMA ControlTypes ==
    ASSUME TypeOK,
           \/ \E m \in Modes : SetProcessingMode(m)
           \/ \E w \in Multipliers : SetRetryWindowMultiplier(w)
           \/ Restart
    PROVE  TypeOK'
<1>1. CASE \E m \in Modes : SetProcessingMode(m)
  BY <1>1 DEF SetProcessingMode, TypeOK, tables, history
<1>2. CASE \E w \in Multipliers : SetRetryWindowMultiplier(w)
  <2>1. window' \in 1 .. 12
    BY <1>2, QueueAssumption DEF SetRetryWindowMultiplier, Least, Greatest
  <2>. QED  BY <1>2, <2>1 DEF SetRetryWindowMultiplier, TypeOK, tables, history
<1>3. CASE Restart
  BY <1>3, QueueAssumption DEF Restart, TypeOK, tables, history
<1>. QED  BY <1>1, <1>2, <1>3

\* Every step keeps the types: one case per action.
LEMMA NextTypes == TypeOK /\ [Next]_vars => TypeOK'
<1>. SUFFICES ASSUME TypeOK, [Next]_vars PROVE TypeOK'
  OBVIOUS
<1>1. CASE \E r \in Ids : Enqueue(r)
  BY <1>1, EnqueueTypes
<1>2. CASE Poll
  BY <1>2, PollTypes
<1>3. CASE \E r \in Ids : Settle(r)
  BY <1>3, SucceedTypes, FailTypes DEF Settle, FlightsOf
<1>4. CASE \E r \in Ids : RequeueDeadLetter(r)
  BY <1>4, RequeueTypes
<1>5. CASE \E r \in Ids, status \in CallbackStatuses : Reconcile(r, status)
  BY <1>5, ReconcileTypes
<1>6. CASE \/ \E m \in Modes : SetProcessingMode(m)
           \/ \E w \in Multipliers : SetRetryWindowMultiplier(w)
           \/ Restart
  BY <1>6, ControlTypes
<1>7. CASE Tick
  BY <1>7, TickTypes
<1>8. CASE UNCHANGED vars
  BY <1>8 DEF vars, TypeOK
<1>. QED  BY <1>1, <1>2, <1>3, <1>4, <1>5, <1>6, <1>7, <1>8 DEF Next, QueueNext

\* The variables keep their types, and every job in flight keeps an open attempt
\* in delivery_attempts, in every behaviour of the queue and its surroundings.
THEOREM TypeCorrect == Spec => []TypeOK
<1>1. Init => TypeOK
  BY InitTypes
<1>2. TypeOK /\ [Next]_vars => TypeOK'
  BY NextTypes
<1>. QED  BY <1>1, <1>2, PTL DEF Spec

-----------------------------------------------------------------------------
(* A row nobody outside overwrote is worked on by one job at a time.  What *)
(* the properties say is not inductive: it must be known as well that a    *)
(* pending row has tries left, and where its attempts column stands.       *)

LastAttempt(r) == log[r][Len(log[r])]

CleanRow(r) ==
    /\ \A f \in inflight :
          f[1] = r => f[2] = Len(log[r]) /\ row[r].state = "dispatching"
    /\ row[r].state = "dispatching" =>
          Len(log[r]) > 0 /\ row[r].attempts = LastAttempt(r).number
    /\ \A i \in DOMAIN log[r] :
          log[r][i].outcome = "ok" => i = Len(log[r]) /\ row[r].state = "sent"
    /\ row[r].state = "sent" => Len(log[r]) > 0 /\ LastAttempt(r).outcome = "ok"
    /\ row[r].attempts <= MaxAttempts
    /\ Pending(r) => row[r].attempts < MaxAttempts
    /\ row[r].state = "dead_letter" => row[r].attempts = MaxAttempts
    /\ row[r].state = "absent" => row[r].attempts = 0

CleanRows == \A r \in Ids \ touched : CleanRow(r)

Inv == TypeOK /\ CleanRows

\* A row is clean as long as its state, its attempts and its log stay and no job
\* of it starts.
LEMMA CleanRowFrame ==
    ASSUME NEW r \in Ids, CleanRow(r),
           row'[r].state = row[r].state, row'[r].attempts = row[r].attempts,
           log'[r] = log[r],
           \A f \in inflight' : f[1] = r => f \in inflight
    PROVE  CleanRow(r)'
  BY DEF CleanRow, Pending, LastAttempt

\* A new row is clean: its log is empty.
LEMMA EnqueueClean ==
    ASSUME Inv, NEW q \in Ids, Enqueue(q)
    PROVE  CleanRows'
<1>. SUFFICES ASSUME NEW r \in Ids \ touched
              PROVE  CleanRow(r)'
  BY DEF CleanRows, Enqueue, history
<1>1. CleanRow(r) /\ row \in [Ids -> Rows] /\ r \in Ids
  BY DEF Inv, CleanRows, TypeOK
<1>2. CASE r # q
  BY <1>1, <1>2, CleanRowFrame DEF Enqueue
<1>3. CASE r = q
  <2>1. /\ row[r].state = "absent" /\ log' = log /\ inflight' = inflight
        /\ row'[r].state = "queued" /\ row'[r].attempts = 0
    BY <1>1, <1>3 DEF Enqueue, Exists
  <2>. QED  BY <1>1, <2>1, QueueAssumption DEF CleanRow, Pending, LastAttempt
<1>. QED  BY <1>2, <1>3

\* A clean row is taken when it is pending, so no job of it is in flight and none
\* of its attempts succeeded; after the dequeue it has one open attempt, its last.
LEMMA PollClean ==
    ASSUME Inv, Poll
    PROVE  CleanRows'
<1>. SUFFICES ASSUME NEW r \in Ids \ touched
              PROVE  CleanRow(r)'
  BY DEF CleanRows, Poll, history
<1>1. PICK b \in Batches \ {{}} :
        /\ row' = [q \in Ids |-> IF q \in b THEN Taken(row[q]) ELSE row[q]]
        /\ log' = [q \in Ids |->
                      IF q \in b
                      THEN Append(log[q], [number  |-> row[q].attempts + 1,
                                           outcome |-> "open"])
                      ELSE log[q]]
        /\ inflight' = inflight \cup {<<q, Len(log[q]) + 1>> : q \in b}
  BY DEF Poll
<1>2. /\ CleanRow(r) /\ r \in Ids /\ row[r] \in Rows /\ log[r] \in Seq(Attempts)
      /\ inflight \subseteq Ids \X (Nat \ {0})
  BY DEF Inv, CleanRows, TypeOK
<1>3. CASE r \notin b
  <2>1. \A f \in inflight' : f[1] = r => f \in inflight
    BY <1>1, <1>3
  <2>2. row'[r] = row[r] /\ log'[r] = log[r]
    BY <1>1, <1>2, <1>3
  <2>. QED  BY <1>2, <2>1, <2>2, CleanRowFrame
<1>4. CASE r \in b
  <2>. DEFINE e == [number |-> row[r].attempts + 1, outcome |-> "open"]
  <2>1. Pending(r)
    BY <1>1, <1>4 DEF Batches, DueRows, Due
  <2>2. /\ row'[r] = Taken(row[r]) /\ log'[r] = Append(log[r], e)
    BY <1>1, <1>2, <1>4
  <2>3. /\ row'[r].state = "dispatching"
        /\ row'[r].attempts = row[r].attempts + 1
        /\ row[r].attempts \in Nat
    BY <1>2, <2>2 DEF Taken, Rows
  <2>4. /\ Len(log'[r]) = Len(log[r]) + 1
        /\ log'[r][Len(log'[r])] = e
        /\ Len(log[r]) \in Nat
        /\ DOMAIN log'[r] = 1 .. Len(log'[r])
        /\ \A i \in 1 .. Len(log[r]) : log'[r][i] = log[r][i] /\ i \in DOMAIN log[r]
    BY <1>2, <2>2
  <2>5. ASSUME NEW f \in inflight', f[1] = r
        PROVE  f[2] = Len(log'[r])
    <3>1. f \notin inflight
      BY <1>2, <2>1, <2>5 DEF CleanRow, Pending
    <3>2. PICK q \in b : f = <<q, Len(log[q]) + 1>>
      BY <1>1, <2>5, <3>1
    <3>. QED  BY <2>4, <2>5, <3>2
  <2>6. ASSUME NEW i \in DOMAIN log'[r]
        PROVE  log'[r][i].outcome # "ok"
    <3>1. CASE i = Len(log'[r])
      BY <2>4, <3>1
    <3>2. CASE i # Len(log'[r])
      <4>1. i \in 1 .. Len(log[r])
        BY <2>4, <3>2
      <4>. QED  BY <1>2, <2>1, <2>4, <4>1 DEF CleanRow, Pending
    <3>. QED  BY <3>1, <3>2
  <2>7. row'[r].attempts <= MaxAttempts
    BY <1>2, <2>1, <2>3, QueueAssumption DEF CleanRow
  <2>. QED  BY <2>3, <2>4, <2>5, <2>6, <2>7 DEF CleanRow, Pending, LastAttempt
<1>. QED  BY <1>3, <1>4

\* A job of a clean row is its only job, its attempt is the last one and the
\* attempts column holds its number; ending it closes that attempt and no other.
LEMMA CleanJob ==
    ASSUME Inv, NEW f \in inflight, f[1] \notin touched,
           NEW o \in {"ok", "error"}, EndAttempt(f, o)
    PROVE  LET r == f[1] IN
           /\ r \in Ids /\ CleanRow(r)
           /\ FlightsOf(r) = {f}
           /\ f[2] = Len(log[r]) /\ Len(log[r]) > 0
           /\ row[r].state = "dispatching"
           /\ row[r].attempts = log[r][f[2]].number
           /\ \A q \in Ids \ {r} : log'[q] = log[q]
           /\ Len(log'[r]) = Len(log[r]) /\ DOMAIN log'[r] = DOMAIN log[r]
           /\ log'[r][Len(log[r])].outcome = o
           /\ \A i \in DOMAIN log[r] :
                 i # Len(log[r]) => log'[r][i] = log[r][i] /\ log[r][i].outcome # "ok"
<1>. DEFINE r == f[1]
<1>1. /\ r \in Ids /\ CleanRow(r) /\ log \in [Ids -> Seq(Attempts)]
      /\ log[r] \in Seq(Attempts) /\ f[2] \in DOMAIN log[r] /\ f = <<r, f[2]>>
      /\ inflight \subseteq Ids \X (Nat \ {0})
  BY DEF Inv, CleanRows, TypeOK
<1>2. f[2] = Len(log[r]) /\ row[r].state = "dispatching" /\ Len(log[r]) > 0
  BY <1>1 DEF CleanRow
<1>3. row[r].attempts = log[r][f[2]].number
  BY <1>1, <1>2 DEF CleanRow, LastAttempt
<1>4. FlightsOf(r) = {f}
  <2>1. ASSUME NEW g \in FlightsOf(r)
        PROVE  g = f
    <3>1. g \in inflight /\ g[1] = r
      BY DEF FlightsOf
    <3>2. g[2] = Len(log[r]) /\ g = <<g[1], g[2]>>
      BY <1>1, <3>1 DEF CleanRow
    <3>. QED  BY <1>1, <1>2, <3>1, <3>2
  <2>. QED  BY <2>1 DEF FlightsOf
<1>5. log' = [log EXCEPT ![r] =
                 [log[r] EXCEPT ![f[2]] = [log[r][f[2]] EXCEPT !.outcome = o]]]
  BY DEF EndAttempt
<1>6. /\ log'[r] = [log[r] EXCEPT ![f[2]] = [log[r][f[2]] EXCEPT !.outcome = o]]
      /\ \A q \in Ids \ {r} : log'[q] = log[q]
  BY <1>1, <1>5
<1>7. log[r][f[2]] \in Attempts
  BY <1>1
<1>8. [log[r][f[2]] EXCEPT !.outcome = o].outcome = o
  BY <1>7 DEF Attempts
<1>9. /\ Len(log'[r]) = Len(log[r]) /\ DOMAIN log'[r] = DOMAIN log[r]
      /\ log'[r][Len(log[r])].outcome = o
      /\ \A i \in DOMAIN log[r] : i # Len(log[r]) => log'[r][i] = log[r][i]
  <2>. DEFINE e == [log[r][f[2]] EXCEPT !.outcome = o]
  <2>1. e \in Attempts
    BY <1>7 DEF Attempts
  <2>. HIDE DEF e
  <2>2. /\ [log[r] EXCEPT ![f[2]] = e] \in Seq(Attempts)
        /\ DOMAIN [log[r] EXCEPT ![f[2]] = e] = DOMAIN log[r]
    BY <1>1, <2>1
  <2>3. log'[r] = [log[r] EXCEPT ![f[2]] = e]
    BY <1>6 DEF e
  <2>4. Len(log'[r]) = Len(log[r]) /\ DOMAIN log'[r] = DOMAIN log[r]
    BY <1>1, <2>2, <2>3
  <2>5. log'[r][Len(log[r])] = e
    BY <1>1, <1>2, <2>3
  <2>6. \A i \in DOMAIN log[r] : i # Len(log[r]) => log'[r][i] = log[r][i]
    BY <1>1, <1>2, <2>3
  <2>7. e.outcome = o
    BY <1>8 DEF e
  <2>. QED  BY <2>4, <2>5, <2>6, <2>7
<1>10. \A i \in DOMAIN log[r] : log[r][i].outcome # "ok"
  BY <1>1, <1>2 DEF CleanRow
<1>. QED  BY <1>1, <1>2, <1>3, <1>4, <1>6, <1>9, <1>10

\* The job that ends is the only one of a clean row, so the row's columns and its
\* log record the same outcome.
LEMMA SettleClean ==
    ASSUME Inv, NEW f \in inflight, Succeed(f) \/ Fail(f)
    PROVE  CleanRows'
<1>. SUFFICES ASSUME NEW r \in Ids \ touched
              PROVE  CleanRow(r)'
  BY DEF CleanRows, Succeed, Fail, history
<1>1. /\ CleanRow(r) /\ r \in Ids /\ row \in [Ids -> Rows] /\ row[r] \in Rows
      /\ f[1] \in Ids /\ log \in [Ids -> Seq(Attempts)] /\ log[r] \in Seq(Attempts)
  BY DEF Inv, CleanRows, TypeOK
<1>2. CASE r # f[1]
  <2>1. row'[r] = row[r] /\ log'[r] = log[r]
    BY <1>1, <1>2 DEF Succeed, Fail, EndAttempt
  <2>2. \A g \in inflight' : g \in inflight
    BY DEF Succeed, Fail
  <2>. QED  BY <1>1, <2>1, <2>2, CleanRowFrame
<1>3. CASE r = f[1] /\ Succeed(f)
  <2>. USE <1>3
  <2>1. EndAttempt(f, "ok")
    BY DEF Succeed
  <2>2. /\ row'[r] = WithState(row[r], "sent", TRUE)
        /\ inflight' = inflight \ {f}
    BY <1>1 DEF Succeed
  <2>3. row'[r].state = "sent" /\ row'[r].attempts = row[r].attempts
    BY <1>1, <2>2 DEF WithState, Rows
  <2>4. /\ FlightsOf(r) = {f} /\ Len(log'[r]) = Len(log[r]) /\ Len(log[r]) > 0
        /\ DOMAIN log'[r] = DOMAIN log[r] /\ log'[r][Len(log[r])].outcome = "ok"
        /\ \A i \in DOMAIN log[r] :
              i # Len(log[r]) => log'[r][i] = log[r][i] /\ log[r][i].outcome # "ok"
    BY <2>1, CleanJob
  <2>5. \A g \in inflight' : g[1] # r
    BY <2>2, <2>4 DEF FlightsOf
  <2>6. row'[r].attempts <= MaxAttempts
    BY <1>1, <2>3 DEF CleanRow
  <2>. QED  BY <2>3, <2>4, <2>5, <2>6 DEF CleanRow, Pending, LastAttempt
<1>4. CASE r = f[1] /\ Fail(f)
  <2>. USE <1>4
  <2>. DEFINE k == log[r][f[2]].number
  <2>1. EndAttempt(f, "error")
    BY DEF Fail
  <2>2. inflight' = inflight \ {f}
    BY DEF Fail
  <2>3. /\ FlightsOf(r) = {f} /\ Len(log'[r]) = Len(log[r]) /\ Len(log[r]) > 0
        /\ DOMAIN log'[r] = DOMAIN log[r] /\ log'[r][Len(log[r])].outcome = "error"
        /\ \A i \in DOMAIN log[r] :
              i # Len(log[r]) => log'[r][i] = log[r][i] /\ log[r][i].outcome # "ok"
        /\ row[r].attempts = k
    BY <2>1, CleanJob
  <2>4. k \in Nat /\ k <= MaxAttempts
    BY <1>1, <2>3 DEF CleanRow, Rows
  <2>5. CASE k >= MaxAttempts
    <3>1. row'[r] = WithState(row[r], "dead_letter", TRUE)
      BY <1>1, <2>5 DEF Fail
    <3>2. row'[r].state = "dead_letter" /\ row'[r].attempts = MaxAttempts
      <4>1. k = MaxAttempts
        <5>. HIDE DEF k
        <5>. QED  BY <2>4, <2>5, QueueAssumption
      <4>. QED  BY <1>1, <2>3, <3>1, <4>1 DEF WithState, Rows
    <3>3. \A g \in inflight' : g[1] # r
      BY <2>2, <2>3 DEF FlightsOf
    <3>4. \A i \in DOMAIN log'[r] : log'[r][i].outcome # "ok"
      BY <2>3
    <3>. QED  BY <3>2, <3>3, <3>4, QueueAssumption DEF CleanRow, Pending, LastAttempt
  <2>6. CASE ~(k >= MaxAttempts)
    <3>1. row'[r] = WithState(WithAttempts(row[r], k, IsoAfter(RetryDelay(k))),
                              "failed", FALSE)
      BY <1>1, <2>6 DEF Fail
    <3>2. row'[r].state = "failed" /\ row'[r].attempts = k
      BY <1>1, <3>1 DEF WithState, WithAttempts, Rows
    <3>3. k < MaxAttempts
      <4>. HIDE DEF k
      <4>. QED  BY <2>4, <2>6, QueueAssumption
    <3>4. \A g \in inflight' : g[1] # r
      BY <2>2, <2>3 DEF FlightsOf
    <3>5. \A i \in DOMAIN log'[r] : log'[r][i].outcome # "ok"
      BY <2>3
    <3>6. row'[r].attempts < MaxAttempts /\ row'[r].attempts <= MaxAttempts
      <4>. HIDE DEF k
      <4>. QED  BY <2>4, <3>2, <3>3, QueueAssumption
    <3>. QED  BY <3>2, <3>4, <3>5, <3>6 DEF CleanRow, Pending, LastAttempt
  <2>. QED  BY <2>5, <2>6
<1>. QED  BY <1>2, <1>3, <1>4

\* A replay leaves a dead letter clean, and any other row is no longer clean.
LEMMA RequeueClean ==
    ASSUME Inv, NEW q \in Ids, RequeueDeadLetter(q)
    PROVE  CleanRows'
<1>. SUFFICES ASSUME NEW r \in Ids \ touched'
              PROVE  CleanRow(r)'
  BY DEF CleanRows
<1>1. /\ CleanRow(r) /\ r \in Ids /\ row \in [Ids -> Rows]
  BY DEF Inv, CleanRows, TypeOK, RequeueDeadLetter
<1>2. CASE r # q
  BY <1>1, <1>2, CleanRowFrame DEF RequeueDeadLetter
<1>3. CASE r = q
  <2>1. row[r].state = "dead_letter" /\ log' = log /\ inflight' = inflight
    BY <1>3 DEF RequeueDeadLetter
  <2>2. row'[r].state = "queued" /\ row'[r].attempts = 0
    BY <1>1, <1>3 DEF RequeueDeadLetter, WithState, WithAttempts, Rows
  <2>. QED  BY <1>1, <2>1, <2>2, QueueAssumption DEF CleanRow, Pending, LastAttempt
<1>. QED  BY <1>2, <1>3

\* A webhook that writes a row makes it one that an outsider overwrote.
LEMMA ReconcileClean ==
    ASSUME Inv, NEW q \in Ids, NEW status \in CallbackStatuses, Reconcile(q, status)
    PROVE  CleanRows'
<1>. SUFFICES ASSUME NEW r \in Ids \ touched'
              PROVE  CleanRow(r)'
  BY DEF CleanRows
<1>1. /\ CleanRow(r) /\ r \in Ids /\ row \in [Ids -> Rows]
  BY DEF Inv, CleanRows, TypeOK, Reconcile
<1>2. CASE r # q
  BY <1>1, <1>2, CleanRowFrame DEF Reconcile
<1>3. CASE r = q
  <2>1. status = "progress" /\ log' = log /\ inflight' = inflight
    BY <1>3 DEF Reconcile
  <2>2. row'[r].state = row[r].state /\ row'[r].attempts = row[r].attempts
    BY <1>1, <1>3, <2>1 DEF Reconcile, ReconciledState, WithState, Rows
  <2>. QED  BY <1>1, <2>1, <2>2, CleanRowFrame
<1>. QED  BY <1>2, <1>3

\* The clock, the controls and a restart leave clean rows clean.
LEMMA OtherClean ==
    ASSUME Inv,
           \/ \E m \in Modes : SetProcessingMode(m)
           \/ \E w \in Multipliers : SetRetryWindowMultiplier(w)
           \/ Restart \/ Tick \/ UNCHANGED vars
    PROVE  CleanRows'
<1>1. log' = log /\ touched' = touched /\ inflight' \subseteq inflight
  BY DEF SetProcessingMode, SetRetryWindowMultiplier, Restart, Tick, vars, tables, history
<1>2. ASSUME NEW r \in Ids
      PROVE  row'[r].state = row[r].state /\ row'[r].attempts = row[r].attempts
  <2>1. row[r] \in Rows
    BY DEF Inv, TypeOK
  <2>2. row' = row \/ row'[r] = [row[r] EXCEPT !.next = Yesterday(row[r].next)]
    BY DEF SetProcessingMode, SetRetryWindowMultiplier, Restart, Tick, vars, tables
  <2>. QED  BY <2>1, <2>2 DEF Rows
<1>3. ASSUME NEW r \in Ids \ touched'
      PROVE  CleanRow(r)'
  BY <1>1, <1>2, CleanRowFrame DEF Inv, CleanRows
<1>. QED  BY <1>3 DEF CleanRows

\* Rows that do not exist are clean.
LEMMA InitClean == Init => CleanRows
  BY QueueAssumption DEF Init, CleanRows, CleanRow, Pending, LastAttempt

\* Every step keeps Inv: one case per action.
LEMMA NextClean == Inv /\ [Next]_vars => Inv'
<1>. SUFFICES ASSUME Inv, [Next]_vars PROVE CleanRows'
  BY NextTypes DEF Inv
<1>1. CASE \E r \in Ids : Enqueue(r)
  BY <1>1, EnqueueClean
<1>2. CASE Poll
  BY <1>2, PollClean
<1>3. CASE \E r \in Ids : Settle(r)
  BY <1>3, SettleClean DEF Settle, FlightsOf
<1>4. CASE \E r \in Ids : RequeueDeadLetter(r)
  BY <1>4, RequeueClean
<1>5. CASE \E r \in Ids, status \in CallbackStatuses : Reconcile(r, status)
  BY <1>5, ReconcileClean
<1>6. CASE \/ \E m \in Modes : SetProcessingMode(m)
           \/ \E w \in Multipliers : SetRetryWindowMultiplier(w)
           \/ Restart \/ Tick \/ UNCHANGED vars
  BY <1>6, OtherClean
<1>. QED  BY <1>1, <1>2, <1>3, <1>4, <1>5, <1>6 DEF Next, QueueNext

\* Type correctness and the clean rows, together inductive.
THEOREM Invariance == Spec => []Inv
<1>1. Init => Inv
  BY InitTypes, InitClean DEF Inv
<1>2. Inv /\ [Next]_vars => Inv'
  BY NextClean
<1>. QED  BY <1>1, <1>2, PTL DEF Spec

\* Overlapping processQueue() calls never put a row nobody outside overwrote into
\* two dispatchFn calls at once.
THEOREM OneDispatch == Spec => []OneDispatchAtATime
<1>1. ASSUME Inv PROVE OneDispatchAtATime
  <2>. SUFFICES ASSUME NEW f \in inflight, f[1] \notin touched
                PROVE  /\ FlightsOf(f[1]) = {f}
                       /\ row[f[1]].state = "dispatching"
                       /\ row[f[1]].attempts = log[f[1]][f[2]].number
    BY DEF OneDispatchAtATime
  <2>1. /\ f[1] \in Ids /\ CleanRow(f[1]) /\ inflight \subseteq Ids \X (Nat \ {0})
    BY <1>1 DEF Inv, TypeOK, CleanRows
  <2>2. /\ f[2] = Len(log[f[1]]) /\ row[f[1]].state = "dispatching"
        /\ row[f[1]].attempts = log[f[1]][f[2]].number
    BY <2>1 DEF CleanRow, LastAttempt
  <2>3. ASSUME NEW g \in FlightsOf(f[1])
        PROVE  g = f
    <3>1. g \in inflight /\ g[1] = f[1]
      BY DEF FlightsOf
    <3>2. g[2] = f[2]
      BY <2>1, <2>2, <3>1 DEF CleanRow
    <3>. QED  BY <2>1, <3>1, <3>2
  <2>. QED  BY <2>2, <2>3 DEF FlightsOf
<1>. QED  BY <1>1, Invariance, PTL

\* A message is sent again after an acknowledged attempt only if an outsider
\* reopened its row.
THEOREM AtMostOneAcknowledgement == Spec => []SentOnce
<1>1. Inv => SentOnce
  BY DEF Inv, CleanRows, CleanRow, LastAttempt, SentOnce
<1>. QED  BY <1>1, Invariance, PTL

-----------------------------------------------------------------------------
(* Only the death of the process leaves a row marked with nobody on it.    *)

\* One step strands a row only if it restarts the process.
LEMMA StrandStep ==
    ASSUME TypeOK, [Next]_vars, NEW r \in Ids, Stranded(r)'
    PROVE  Stranded(r) \/ crashes' = crashes + 1
<1>0. row \in [Ids -> Rows] /\ inflight \subseteq Ids \X (Nat \ {0})
  BY DEF TypeOK
<1>. DEFINE Same == /\ row'[r].state = row[r].state
                    /\ \A f \in inflight : f[1] = r => f \in inflight'
<1>1. Same => Stranded(r)
  BY DEF Stranded, FlightsOf
<1>2. ASSUME NEW q \in Ids, Enqueue(q) PROVE Same
  <2>1. CASE q = r
    BY <1>0, <1>2, <2>1 DEF Enqueue, Stranded
  <2>2. CASE q # r
    BY <1>0, <1>2, <2>2 DEF Enqueue
  <2>. QED  BY <2>1, <2>2
<1>3. ASSUME Poll PROVE Same
  <2>1. PICK b \in Batches \ {{}} :
          /\ row' = [q \in Ids |-> IF q \in b THEN Taken(row[q]) ELSE row[q]]
          /\ inflight' = inflight \cup {<<q, Len(log[q]) + 1>> : q \in b}
    BY <1>3 DEF Poll
  <2>2. r \notin b
    <3>1. ASSUME r \in b PROVE FALSE
      <4>. DEFINE f == <<r, Len(log[r]) + 1>>
      <4>1. f \in inflight' /\ f[1] = r
        BY <2>1, <3>1
      <4>. QED  BY <4>1 DEF Stranded, FlightsOf
    <3>. QED  BY <3>1
  <2>. QED  BY <2>1, <2>2
<1>4. ASSUME NEW f \in inflight, Succeed(f) \/ Fail(f) PROVE Same
  <2>1. CASE f[1] = r
    <3>1. row[r] \in Rows
      BY <1>0
    <3>. DEFINE k == log[f[1]][f[2]].number
    <3>2. \/ row'[r] = WithState(row[r], "sent", TRUE)
          \/ row'[r] = WithState(row[r], "dead_letter", TRUE)
          \/ row'[r] = WithState(WithAttempts(row[r], k, IsoAfter(RetryDelay(k))),
                                "failed", FALSE)
      <4>1. CASE Succeed(f)
        BY <1>0, <2>1, <4>1 DEF Succeed
      <4>2. CASE Fail(f) /\ k >= MaxAttempts
        BY <1>0, <2>1, <4>2 DEF Fail
      <4>3. CASE Fail(f) /\ ~(k >= MaxAttempts)
        BY <1>0, <2>1, <4>3 DEF Fail
      <4>. QED  BY <1>4, <4>1, <4>2, <4>3
    <3>3. row'[r].state # "dispatching"
      BY <3>1, <3>2 DEF WithState, WithAttempts, Rows
    <3>. QED  BY <3>3 DEF Stranded
  <2>2. CASE f[1] # r
    BY <1>0, <1>4, <2>2 DEF Succeed, Fail
  <2>. QED  BY <2>1, <2>2
<1>5. ASSUME NEW q \in Ids, RequeueDeadLetter(q) PROVE Same
  <2>1. CASE q = r
    <3>1. row'[r].state = "queued"
      BY <1>0, <1>5, <2>1 DEF RequeueDeadLetter, WithState, WithAttempts, Rows
    <3>. QED  BY <3>1 DEF Stranded
  <2>2. CASE q # r
    BY <1>0, <1>5, <2>2 DEF RequeueDeadLetter
  <2>. QED  BY <2>1, <2>2
<1>6. ASSUME NEW q \in Ids, NEW status \in CallbackStatuses, Reconcile(q, status)
      PROVE  Same
  <2>1. CASE q = r
    <3>1. row'[r].state = ReconciledState(r, status)
      BY <1>0, <1>6, <2>1 DEF Reconcile, WithState, Rows
    <3>. QED  BY <1>6, <2>1, <3>1 DEF ReconciledState, Reconcile, Stranded
  <2>2. CASE q # r
    BY <1>0, <1>6, <2>2 DEF Reconcile
  <2>. QED  BY <2>1, <2>2
<1>7. ASSUME \/ \E m \in Modes : SetProcessingMode(m)
             \/ \E w \in Multipliers : SetRetryWindowMultiplier(w)
             \/ UNCHANGED vars
      PROVE  Same
  BY <1>7 DEF SetProcessingMode, SetRetryWindowMultiplier, tables, vars
<1>8. ASSUME Tick PROVE Same
  <2>1. row[r] \in Rows
    BY <1>0
  <2>2. row' = row \/ row'[r] = [row[r] EXCEPT !.next = Yesterday(row[r].next)]
    BY <1>8 DEF Tick
  <2>. QED  BY <1>8, <2>1, <2>2 DEF Tick, Rows
<1>9. CASE Restart
  BY <1>9 DEF Restart
<1>. QED  BY <1>1, <1>2, <1>3, <1>4, <1>5, <1>6, <1>7, <1>8, <1>9
         DEF Next, QueueNext, Settle, FlightsOf

\* No interleaving of polls, completions, replays and callbacks leaves a row
\* 'dispatching' with no job on it; only a restart does.
THEOREM StrandedByRestartOnly == Spec => OnlyARestartStrands
<1>1. TypeOK /\ [Next]_vars =>
        [\A r \in Ids : Stranded(r)' => Stranded(r) \/ crashes' = crashes + 1]_vars
  BY StrandStep
<1>. QED  BY <1>1, TypeCorrect, PTL DEF Spec, OnlyARestartStrands

-----------------------------------------------------------------------------
(* The refinement.  With rows written by no outsider but the replay of dead *)
(* letters, every row is clean, and each step of the queue is one step of   *)
(* OutboundDelivery or leaves phase and tries alone.                        *)

QueueOnly == CallbackStatuses \subseteq {"progress"} /\ ReplayStates \subseteq {"dead_letter"}

AllClean == Inv /\ touched = {}

phase == [r \in Ids |-> Phase(row[r].state)]
tries == [r \in Ids |-> row[r].attempts]

\* Without webhooks, and with dead letters only replayed, no row is ever
\* overwritten from outside.
LEMMA AllCleanInvariance == ASSUME QueueOnly PROVE Spec => []AllClean
<1>1. Init => AllClean
  BY InitTypes, InitClean DEF Inv, AllClean, Init
<1>2. AllClean /\ [Next]_vars => AllClean'
  <2>. SUFFICES ASSUME AllClean, [Next]_vars PROVE touched' = {}
    BY NextClean DEF AllClean
  <2>1. CASE \E r \in Ids : RequeueDeadLetter(r)
    BY <2>1 DEF QueueOnly, RequeueDeadLetter, AllClean
  <2>2. CASE \E r \in Ids, status \in CallbackStatuses : Reconcile(r, status)
    BY <2>2 DEF QueueOnly, Reconcile, AllClean
  <2>3. CASE UNCHANGED touched
    BY <2>3 DEF AllClean
  <2>. QED  BY <2>1, <2>2, <2>3 DEF Next, QueueNext, Enqueue, Poll, Settle, Succeed,
              Fail, SetProcessingMode, SetRetryWindowMultiplier, Tick, Restart, vars, history
<1>. QED  BY <1>1, <1>2, PTL DEF Spec

\* A step that keeps every row's state and attempts is a stutter of the promise.
LEMMA SameColumns ==
    ASSUME \A r \in Ids : /\ row'[r].state = row[r].state
                          /\ row'[r].attempts = row[r].attempts
    PROVE  phase' = phase /\ tries' = tries
  BY DEF phase, tries

\* A step that changes one row's state, and perhaps its attempts.
LEMMA OneRow ==
    ASSUME row \in [Ids -> Rows], NEW r \in Ids, NEW c,
           row' = [row EXCEPT ![r] = c]
    PROVE  /\ phase' = [phase EXCEPT ![r] = Phase(c.state)]
           /\ tries' = [tries EXCEPT ![r] = c.attempts]
           /\ phase[r] = Phase(row[r].state) /\ tries[r] = row[r].attempts
<1>1. \A q \in Ids : row'[q] = IF q = r THEN c ELSE row[q]
  OBVIOUS
<1>2. phase' = [q \in Ids |-> Phase(row'[q].state)]
  BY DEF phase
<1>3. tries' = [q \in Ids |-> row'[q].attempts]
  BY DEF tries
<1>. QED  BY <1>1, <1>2, <1>3 DEF phase, tries

\* The promise's phase of each row state.
LEMMA PhaseValues ==
    /\ Phase("absent") = "none" /\ Phase("queued") = "waiting"
    /\ Phase("failed") = "waiting" /\ Phase("dispatching") = "trying"
    /\ Phase("sent") = "sent" /\ Phase("dead_letter") = "abandoned"
  BY DEF Phase

\* Every step is a step of the promise or a stutter of it.
LEMMA PromiseStep ==
    ASSUME QueueOnly, AllClean, [Next]_vars
    PROVE  [Promise!Next]_(Promise!vars)
<1>. SUFFICES [Promise!Next]_<<phase, tries>>
  BY DEF Promise!vars, phase, tries
<1>0. /\ row \in [Ids -> Rows]
      /\ \A r \in Ids : CleanRow(r) /\ row[r] \in Rows
  BY DEF AllClean, Inv, CleanRows, TypeOK
<1>1. ASSUME NEW r \in Ids, Enqueue(r)
      PROVE  Promise!Next
  <2>1. row[r].state = "absent" /\ row[r].attempts = 0
    BY <1>0, <1>1 DEF Enqueue, Exists, CleanRow
  <2>2. /\ phase' = [phase EXCEPT ![r] = "waiting"]
        /\ tries' = [tries EXCEPT ![r] = 0]
        /\ phase[r] = "none" /\ tries[r] = 0
    <3>. DEFINE c == [state |-> "queued", attempts |-> 0,
                      next |-> SqlNow, resolved |-> FALSE]
    <3>1. row' = [row EXCEPT ![r] = c]
      BY <1>1 DEF Enqueue
    <3>2. c.state = "queued" /\ c.attempts = 0
      OBVIOUS
    <3>. HIDE DEF c
    <3>3. /\ phase' = [phase EXCEPT ![r] = Phase(c.state)]
          /\ tries' = [tries EXCEPT ![r] = c.attempts]
          /\ phase[r] = Phase(row[r].state) /\ tries[r] = row[r].attempts
      BY <1>0, <3>1, OneRow
    <3>. QED  BY <2>1, <3>2, <3>3, PhaseValues
  <2>3. tries' = tries
    BY <2>2 DEF tries
  <2>4. Promise!Accept(r)
    BY <2>2, <2>3 DEF Promise!Accept, phase, tries
  <2>. QED  BY <2>4 DEF Promise!Next
<1>2. ASSUME Poll
      PROVE  Promise!Next
  <2>1. PICK b \in Batches \ {{}} :
          row' = [r \in Ids |-> IF r \in b THEN Taken(row[r]) ELSE row[r]]
    BY <1>2 DEF Poll
  <2>2. b \subseteq Ids /\ \A r \in b : Pending(r)
    BY <2>1 DEF Batches, DueRows, Due
  <2>3. ASSUME NEW r \in Ids
        PROVE  /\ Taken(row[r]).state = "dispatching"
               /\ Taken(row[r]).attempts = row[r].attempts + 1
    BY <1>0 DEF Taken, Rows
  <2>4. \A r \in b : phase[r] = "waiting" /\ tries[r] < MaxAttempts
    BY <1>0, <2>2 DEF Pending, Phase, CleanRow, phase, tries
  <2>5. ASSUME NEW r \in Ids
        PROVE  /\ Phase(row'[r].state) = IF r \in b THEN "trying" ELSE phase[r]
               /\ row'[r].attempts = IF r \in b THEN tries[r] + 1 ELSE tries[r]
    BY <2>1, <2>3 DEF Phase, phase, tries
  <2>6. /\ phase' = [r \in Ids |-> IF r \in b THEN "trying" ELSE phase[r]]
        /\ tries' = [r \in Ids |-> IF r \in b THEN tries[r] + 1 ELSE tries[r]]
    BY <2>5 DEF phase, tries
  <2>7. Promise!Try(b)
    BY <2>4, <2>6 DEF Promise!Try, phase, tries
  <2>. QED  BY <2>2, <2>7 DEF Promise!Next
<1>3. ASSUME NEW f \in inflight, Succeed(f)
      PROVE  Promise!Next
  <2>1. f[1] \in Ids /\ row[f[1]].state = "dispatching"
    BY <1>3, CleanJob DEF AllClean, Succeed
  <2>2. /\ WithState(row[f[1]], "sent", TRUE).state = "sent"
        /\ WithState(row[f[1]], "sent", TRUE).attempts = row[f[1]].attempts
    BY <1>0, <2>1 DEF WithState, Rows
  <2>3. row' = [row EXCEPT ![f[1]] = WithState(row[f[1]], "sent", TRUE)]
    BY <1>0, <1>3, <2>1 DEF Succeed
  <2>4. /\ phase' = [phase EXCEPT ![f[1]] = "sent"]
        /\ tries' = [tries EXCEPT ![f[1]] = tries[f[1]]]
        /\ phase[f[1]] = "trying"
    <3>. DEFINE c == WithState(row[f[1]], "sent", TRUE)
                r == f[1]
    <3>1. r \in Ids /\ row' = [row EXCEPT ![r] = c]
      BY <2>1, <2>3
    <3>2. c.state = "sent" /\ c.attempts = row[r].attempts /\ row[r].state = "dispatching"
      BY <2>1, <2>2
    <3>. HIDE DEF c, r
    <3>3. /\ phase' = [phase EXCEPT ![r] = Phase(c.state)]
          /\ tries' = [tries EXCEPT ![r] = c.attempts]
          /\ phase[r] = Phase(row[r].state) /\ tries[r] = row[r].attempts
      BY <1>0, <3>1, OneRow
    <3>4. /\ phase' = [phase EXCEPT ![r] = "sent"]
          /\ tries' = [tries EXCEPT ![r] = tries[r]]
          /\ phase[r] = "trying"
      BY <3>2, <3>3, PhaseValues
    <3>. QED  BY <3>4 DEF r
  <2>5. tries' = tries
    BY <2>4 DEF tries
  <2>6. Promise!Deliver(f[1])
    BY <2>4, <2>5 DEF Promise!Deliver, phase, tries
  <2>. QED  BY <2>1, <2>6 DEF Promise!Next
<1>4. ASSUME NEW f \in inflight, Fail(f)
      PROVE  Promise!Next
  <2>. DEFINE r == f[1]
              k == log[r][f[2]].number
              dead == WithState(row[r], "dead_letter", TRUE)
              again == WithState(WithAttempts(row[r], k, IsoAfter(RetryDelay(k))),
                                 "failed", FALSE)
  <2>1. r \in Ids /\ row[r].state = "dispatching" /\ row[r].attempts = k
    BY <1>4, CleanJob DEF AllClean, Fail
  <2>2. k \in Nat /\ k <= MaxAttempts
    BY <1>0, <2>1 DEF CleanRow, Rows
  <2>3. /\ dead.state = "dead_letter" /\ dead.attempts = row[r].attempts
        /\ again.state = "failed" /\ again.attempts = k
    BY <1>0, <2>1 DEF WithState, WithAttempts, Rows
  <2>4. row' = [row EXCEPT ![r] = IF k >= MaxAttempts THEN dead ELSE again]
    BY <1>0, <1>4, <2>1 DEF Fail
  <2>5. phase[r] = "trying" /\ tries[r] = k
    BY <2>1 DEF phase, tries, Phase
  <2>6. CASE k >= MaxAttempts
    <3>1. row' = [row EXCEPT ![r] = dead]
      BY <2>4, <2>6
    <3>2. /\ phase' = [phase EXCEPT ![r] = "abandoned"]
          /\ tries' = [tries EXCEPT ![r] = k]
      <4>. HIDE DEF r, k, dead, again
      <4>1. /\ phase' = [phase EXCEPT ![r] = Phase(dead.state)]
            /\ tries' = [tries EXCEPT ![r] = dead.attempts]
        BY <1>0, <2>1, <3>1, OneRow
      <4>. QED  BY <2>1, <2>3, <4>1, PhaseValues
    <3>3. k = MaxAttempts
      <4>. HIDE DEF k
      <4>. QED  BY <2>2, <2>6, QueueAssumption
    <3>4. tries' = tries
      BY <2>5, <3>2 DEF tries
    <3>5. Promise!Abandon(r)
      BY <2>5, <3>2, <3>3, <3>4 DEF Promise!Abandon, phase, tries
    <3>. QED  BY <2>1, <3>5 DEF Promise!Next
  <2>7. CASE ~(k >= MaxAttempts)
    <3>1. row' = [row EXCEPT ![r] = again]
      BY <2>4, <2>7
    <3>2. /\ phase' = [phase EXCEPT ![r] = "waiting"]
          /\ tries' = [tries EXCEPT ![r] = k]
      <4>. HIDE DEF r, k, dead, again
      <4>1. /\ phase' = [phase EXCEPT ![r] = Phase(again.state)]
            /\ tries' = [tries EXCEPT ![r] = again.attempts]
        BY <1>0, <2>1, <3>1, OneRow
      <4>. QED  BY <2>1, <2>3, <4>1, PhaseValues
    <3>3. k < MaxAttempts
      <4>. HIDE DEF k
      <4>. QED  BY <2>2, <2>7, QueueAssumption
    <3>4. tries' = tries
      BY <2>5, <3>2 DEF tries
    <3>5. Promise!TryAgain(r)
      BY <2>5, <3>2, <3>3, <3>4 DEF Promise!TryAgain, phase, tries
    <3>. QED  BY <2>1, <3>5 DEF Promise!Next
  <2>. QED  BY <2>6, <2>7
<1>5. ASSUME NEW r \in Ids, RequeueDeadLetter(r)
      PROVE  Promise!Next
  <2>. DEFINE c == WithState(WithAttempts(row[r], 0, IsoAfter(0)), "queued", FALSE)
  <2>1. row[r].state = "dead_letter"
    BY <1>5 DEF RequeueDeadLetter, QueueOnly
  <2>2. c.state = "queued" /\ c.attempts = 0
    BY <1>0 DEF WithState, WithAttempts, Rows
  <2>3. row' = [row EXCEPT ![r] = c]
    BY <1>0, <1>5 DEF RequeueDeadLetter
  <2>4. /\ phase' = [phase EXCEPT ![r] = "waiting"]
        /\ tries' = [tries EXCEPT ![r] = 0]
        /\ phase[r] = "abandoned"
    <3>. HIDE DEF c
    <3>1. /\ phase' = [phase EXCEPT ![r] = Phase(c.state)]
          /\ tries' = [tries EXCEPT ![r] = c.attempts]
          /\ phase[r] = Phase(row[r].state)
      BY <1>0, <2>3, OneRow
    <3>. QED  BY <2>1, <2>2, <3>1, PhaseValues
  <2>5. Promise!Replay(r)
    BY <2>4 DEF Promise!Replay, phase, tries
  <2>. QED  BY <2>5 DEF Promise!Next
<1>6. ASSUME NEW r \in Ids, NEW status \in CallbackStatuses, Reconcile(r, status)
      PROVE  UNCHANGED <<phase, tries>>
  <2>1. status = "progress"
    BY <1>6 DEF QueueOnly
  <2>2. row' = [row EXCEPT ![r] = WithState(row[r], row[r].state, row[r].state = "sent")]
    BY <1>0, <1>6, <2>1 DEF Reconcile, ReconciledState
  <2>3. \A q \in Ids : row'[q].state = row[q].state /\ row'[q].attempts = row[q].attempts
    BY <1>0, <2>2 DEF WithState, Rows
  <2>. QED  BY <2>3, SameColumns
<1>7. ASSUME \/ \E m \in Modes : SetProcessingMode(m)
             \/ \E w \in Multipliers : SetRetryWindowMultiplier(w)
             \/ Restart \/ Tick \/ UNCHANGED vars
      PROVE  UNCHANGED <<phase, tries>>
  <2>1. ASSUME NEW q \in Ids
        PROVE  row'[q].state = row[q].state /\ row'[q].attempts = row[q].attempts
    <3>1. row' = row \/ row'[q] = [row[q] EXCEPT !.next = Yesterday(row[q].next)]
      BY <1>7 DEF SetProcessingMode, SetRetryWindowMultiplier, Restart, Tick, vars, tables
    <3>. QED  BY <1>0, <3>1 DEF Rows
  <2>. QED  BY <2>1, SameColumns
<1>. QED  BY <1>1, <1>2, <1>3, <1>4, <1>5, <1>6, <1>7
         DEF Next, QueueNext, Settle, FlightsOf

\* The queue implements OutboundDelivery, whatever the number of deliveries, the
\* batch size, the backoff, the order of polls and completions and the restarts,
\* as long as no webhook completes or fails rows and only dead letters are
\* replayed.
THEOREM PromiseKept == ASSUME QueueOnly PROVE Spec => KeepsThePromise
<1>1. Init => Promise!Init
  BY DEF Init, Promise!Init, Phase
<1>2. AllClean /\ [Next]_vars => [Promise!Next]_(Promise!vars)
  BY PromiseStep
<1>. QED  BY <1>1, <1>2, AllCleanInvariance, PTL DEF Spec, KeepsThePromise, Promise!Spec

-----------------------------------------------------------------------------
(* How many attempts a row can still be given.  A job that fails short of  *)
(* the limit makes its row pending with the attempts that it has left: they *)
(* are its tickets, and a pending row has those its attempts column leaves *)
(* it.  A poll turns them into an attempt and the tickets of its job.      *)

Tickets(r) ==
    {t \in Nat \X Nat : <<r, t[1]>> \in inflight /\ t[2] \in log[r][t[1]].number + 1 .. MaxAttempts}

Credit(r) == IF Pending(r) THEN Greatest(1, MaxAttempts - row[r].attempts) ELSE 0

Afforded(r) ==
    /\ IsFiniteSet(Tickets(r))
    /\ Len(log[r]) + Cardinality(Tickets(r)) + Credit(r) <= MaxAttempts * (1 + reopened[r])

\* A row that was never enqueued has cost nothing.
Unused(r) == ~Exists(r) => Len(log[r]) = 0 /\ FlightsOf(r) = {} /\ reopened[r] = 0

Budget == \A r \in Ids : Afforded(r) /\ Unused(r)

\* The tickets of one job.
LEMMA TicketsOfAJob ==
    ASSUME NEW n \in Nat, NEW k \in Nat
    PROVE  /\ IsFiniteSet({n} \X (k + 1 .. MaxAttempts))
           /\ Cardinality({n} \X (k + 1 .. MaxAttempts)) = IF k < MaxAttempts THEN MaxAttempts - k ELSE 0
<1>1. MaxAttempts \in Nat
  BY QueueAssumption
<1>2. /\ IsFiniteSet(k + 1 .. MaxAttempts)
      /\ Cardinality(k + 1 .. MaxAttempts) = IF k < MaxAttempts THEN MaxAttempts - k ELSE 0
  BY <1>1, FS_Interval
<1>3. IsFiniteSet({n}) /\ Cardinality({n}) = 1
  BY FS_Singleton
<1>4. /\ IsFiniteSet({n} \X (k + 1 .. MaxAttempts))
      /\ Cardinality({n} \X (k + 1 .. MaxAttempts)) = Cardinality({n}) * Cardinality(k + 1 .. MaxAttempts)
  BY <1>2, <1>3, FS_Product
<1>5. \A c \in Nat : 1 * c = c
  OBVIOUS
<1>6. Cardinality(k + 1 .. MaxAttempts) \in Nat
  BY <1>1, <1>2
<1>. QED  BY <1>2, <1>3, <1>4, <1>5, <1>6

\* A step that gives a row no attempt and no ticket, and lets it cost no more
\* than what a replay or a callback pays for.
LEMMA StaysAfforded ==
    ASSUME TypeOK, NEW r \in Ids, Afforded(r), reopened'[r] \in Nat,
           Len(log'[r]) = Len(log[r]), Tickets(r)' \subseteq Tickets(r),
           Credit(r)' \in Nat,
           Credit(r)' <= Credit(r) \/ (Credit(r)' <= MaxAttempts /\ reopened'[r] = reopened[r] + 1),
           reopened'[r] >= reopened[r]
    PROVE  Afforded(r)'
<1>1. /\ IsFiniteSet(Tickets(r)') /\ Cardinality(Tickets(r)') <= Cardinality(Tickets(r))
      /\ Cardinality(Tickets(r)) \in Nat /\ Cardinality(Tickets(r)') \in Nat
  BY FS_Subset, FS_CardinalityType DEF Afforded
<1>2. MaxAttempts \in Nat /\ MaxAttempts > 0 /\ reopened[r] \in Nat /\ Len(log[r]) \in Nat
  BY QueueAssumption DEF TypeOK
<1>3. Credit(r) \in Nat
  BY <1>2 DEF TypeOK, Rows, Credit, Greatest
<1>4. Len(log[r]) + Cardinality(Tickets(r)) + Credit(r) <= MaxAttempts * (1 + reopened[r])
  BY DEF Afforded
<1>7. SUFFICES Len(log'[r]) + Cardinality(Tickets(r)') + Credit(r)' <= MaxAttempts * (1 + reopened'[r])
  BY <1>1 DEF Afforded
<1>8. PICK x \in Nat, y \in Nat : x = MaxAttempts * (1 + reopened[r]) /\ y = MaxAttempts * (1 + reopened'[r])
  BY <1>2
<1>9. Len(log[r]) + Cardinality(Tickets(r)) + Credit(r) <= x
  BY <1>4, <1>8
<1>10. SUFFICES Len(log[r]) + Cardinality(Tickets(r)') + Credit(r)' <= y
  BY <1>8
<1>5. CASE Credit(r)' <= Credit(r)
  <2>1. MaxAttempts * (1 + reopened[r]) <= MaxAttempts * (1 + reopened'[r])
    <3>1. \A a, b, m \in Nat : a <= b => m * a <= m * b
      OBVIOUS
    <3>2. 1 + reopened[r] \in Nat /\ 1 + reopened'[r] \in Nat /\ 1 + reopened[r] <= 1 + reopened'[r]
      BY <1>2
    <3>. QED  BY <1>2, <3>1, <3>2
  <2>2. x <= y
    BY <1>8, <2>1
  <2>. QED  BY <1>1, <1>2, <1>3, <1>5, <1>9, <2>2
<1>6. CASE Credit(r)' <= MaxAttempts /\ reopened'[r] = reopened[r] + 1
  <2>1. MaxAttempts * (1 + reopened'[r]) = MaxAttempts * (1 + reopened[r]) + MaxAttempts
    BY <1>2, <1>6
  <2>2. y = x + MaxAttempts
    BY <1>8, <2>1
  <2>. QED  BY <1>1, <1>2, <1>3, <1>6, <1>9, <2>2
<1>. QED  BY <1>5, <1>6

\* A step that leaves a row's state and costs alone keeps its budget.
LEMMA BudgetFrame ==
    ASSUME TypeOK, NEW r \in Ids, Afforded(r), Unused(r),
           row'[r].state = row[r].state, row'[r].attempts = row[r].attempts,
           log'[r] = log[r], reopened'[r] = reopened[r],
           \A n \in Nat : <<r, n>> \in inflight' => <<r, n>> \in inflight,
           inflight' \subseteq Ids \X (Nat \ {0})
    PROVE  Afforded(r)' /\ Unused(r)'
<1>1. Tickets(r)' \subseteq Tickets(r)
  BY DEF Tickets
<1>2. Credit(r)' = Credit(r) /\ Credit(r) \in Nat /\ reopened[r] \in Nat
  BY QueueAssumption DEF Credit, Pending, Greatest, TypeOK, Rows
<1>3. Afforded(r)'
  BY <1>1, <1>2, StaysAfforded
<1>4. Unused(r)'
  <2>1. FlightsOf(r)' \subseteq FlightsOf(r)
    BY DEF FlightsOf, TypeOK
  <2>. QED  BY <2>1 DEF Unused, Exists
<1>. QED  BY <1>3, <1>4

\* A new row may be tried MaxAttempts times.
LEMMA EnqueueBudget ==
    ASSUME TypeOK, Budget, NEW q \in Ids, Enqueue(q)
    PROVE  Budget'
<1>. SUFFICES ASSUME NEW r \in Ids PROVE Afforded(r)' /\ Unused(r)'
  BY DEF Budget
<1>1. Afforded(r) /\ Unused(r)
  BY DEF Budget
<1>2. /\ row \in [Ids -> Rows] /\ inflight' = inflight /\ log' = log /\ reopened' = reopened
      /\ inflight \subseteq Ids \X (Nat \ {0})
  BY DEF Enqueue, TypeOK, history
<1>3. CASE r # q
  <2>1. row'[r] = row[r]
    BY <1>2, <1>3 DEF Enqueue
  <2>. QED  BY <1>1, <1>2, <2>1, BudgetFrame
<1>4. CASE r = q
  <2>1. row'[r].state = "queued" /\ row'[r].attempts = 0
    BY <1>2, <1>4 DEF Enqueue
  <2>2. Len(log[r]) = 0 /\ FlightsOf(r) = {} /\ reopened[r] = 0
    BY <1>1, <1>4 DEF Unused, Enqueue
  <2>3. Tickets(r)' = {}
    BY <1>2, <2>2 DEF Tickets, FlightsOf
  <2>4. Credit(r)' = MaxAttempts /\ MaxAttempts \in Nat
    BY <2>1, QueueAssumption DEF Credit, Pending, Greatest
  <2>5. IsFiniteSet(Tickets(r)') /\ Cardinality(Tickets(r)') = 0
    BY <2>3, FS_EmptySet
  <2>6. Unused(r)'
    BY <2>1 DEF Unused, Exists
  <2>. QED  BY <1>2, <2>2, <2>4, <2>5, <2>6 DEF Afforded
<1>. QED  BY <1>3, <1>4

\* A poll pays for the attempt it makes.
LEMMA PollBudget ==
    ASSUME TypeOK, Budget, Poll
    PROVE  Budget'
<1>. SUFFICES ASSUME NEW r \in Ids PROVE Afforded(r)' /\ Unused(r)'
  BY DEF Budget
<1>1. PICK b \in Batches \ {{}} :
        /\ row' = [q \in Ids |-> IF q \in b THEN Taken(row[q]) ELSE row[q]]
        /\ log' = [q \in Ids |->
                      IF q \in b
                      THEN Append(log[q], [number  |-> row[q].attempts + 1,
                                           outcome |-> "open"])
                      ELSE log[q]]
        /\ inflight' = inflight \cup {<<q, Len(log[q]) + 1>> : q \in b}
  BY DEF Poll
<1>2. /\ row[r] \in Rows /\ log[r] \in Seq(Attempts) /\ Len(log[r]) \in Nat
      /\ reopened' = reopened /\ reopened[r] \in Nat
      /\ inflight \subseteq Ids \X (Nat \ {0})
      /\ Afforded(r) /\ Unused(r)
  BY DEF TypeOK, Poll, history, Budget
<1>3. inflight' \subseteq Ids \X (Nat \ {0})
  BY PollTypes DEF TypeOK
<1>4. CASE r \notin b
  <2>1. row'[r] = row[r] /\ log'[r] = log[r]
    BY <1>1, <1>4
  <2>2. \A n \in Nat : <<r, n>> \in inflight' => <<r, n>> \in inflight
    BY <1>1, <1>4
  <2>. QED  BY <1>2, <1>3, <2>1, <2>2, BudgetFrame
<1>5. CASE r \in b
  <2>. DEFINE n == Len(log[r])
              k == row[r].attempts + 1
              new == {n + 1} \X (k + 1 .. MaxAttempts)
  <2>1. Pending(r) /\ row[r].attempts \in Nat /\ k \in Nat /\ n \in Nat
    BY <1>1, <1>2, <1>5 DEF Batches, DueRows, Due, Rows
  <2>2. row'[r] = Taken(row[r]) /\ log'[r] = Append(log[r], [number |-> k, outcome |-> "open"])
    BY <1>1, <1>5
  <2>3. row'[r].state = "dispatching"
    BY <1>2, <2>2 DEF Taken, Rows
  <2>4. /\ Len(log'[r]) = n + 1 /\ log'[r][n + 1].number = k
        /\ \A i \in 1 .. n : log'[r][i] = log[r][i]
    BY <1>2, <2>1, <2>2
  <2>5. \A m \in Nat : <<r, m>> \in inflight' <=> (<<r, m>> \in inflight \/ m = n + 1)
    BY <1>1, <1>5, <2>1
  <2>6. \A m \in Nat : <<r, m>> \in inflight => m \in 1 .. n
    BY <1>2 DEF TypeOK
  <2>. HIDE DEF n, k
  <2>7. Tickets(r)' = Tickets(r) \cup new /\ Tickets(r) \cap new = {}
    <3>1. ASSUME NEW t PROVE t \in Tickets(r)' <=> t \in Tickets(r) \cup new
      <4>1. t \in Tickets(r)' <=>
              t \in Nat \X Nat /\ <<r, t[1]>> \in inflight' /\ t[2] \in log'[r][t[1]].number + 1 .. MaxAttempts
        BY DEF Tickets
      <4>2. t \in new <=> t \in Nat \X Nat /\ t[1] = n + 1 /\ t[2] \in k + 1 .. MaxAttempts
        BY <2>1, QueueAssumption
      <4>3. t \in Tickets(r) <=>
              t \in Nat \X Nat /\ <<r, t[1]>> \in inflight /\ t[2] \in log[r][t[1]].number + 1 .. MaxAttempts
        BY DEF Tickets
      <4>. QED  BY <2>1, <2>4, <2>5, <2>6, <4>1, <4>2, <4>3
    <3>2. Tickets(r) \cap new = {}
      BY <2>1, <2>6 DEF Tickets
    <3>. QED  BY <3>1, <3>2
  <2>8. /\ IsFiniteSet(Tickets(r)') /\ Cardinality(Tickets(r)) \in Nat
        /\ Cardinality(Tickets(r)') = Cardinality(Tickets(r)) + IF k < MaxAttempts THEN MaxAttempts - k ELSE 0
    <3>1. /\ IsFiniteSet(Tickets(r)) /\ IsFiniteSet(new) /\ Cardinality(Tickets(r)) \in Nat
          /\ Cardinality(new) = IF k < MaxAttempts THEN MaxAttempts - k ELSE 0
      BY <1>2, <2>1, TicketsOfAJob, FS_CardinalityType DEF Afforded
    <3>. HIDE DEF new
    <3>2. /\ IsFiniteSet(Tickets(r) \cup new)
          /\ Cardinality(Tickets(r) \cup new)
               = Cardinality(Tickets(r)) + Cardinality(new) - Cardinality(Tickets(r) \cap new)
      BY <3>1, FS_Union
    <3>3. Cardinality(Tickets(r) \cap new) = 0 /\ Cardinality(new) \in Nat
      BY <2>7, <3>1, FS_EmptySet, FS_CardinalityType
    <3>. QED  BY <2>7, <3>1, <3>2, <3>3
  <2>9. /\ Credit(r)' = 0 /\ MaxAttempts \in Nat
        /\ Credit(r) = 1 + IF k < MaxAttempts THEN MaxAttempts - k ELSE 0
    BY <2>1, <2>3, QueueAssumption DEF Credit, Pending, Greatest, k
  <2>10. Afforded(r)'
    BY <1>2, <2>1, <2>4, <2>8, <2>9, SMTT(30) DEF Afforded, n
  <2>11. Unused(r)'
    BY <2>3 DEF Unused, Exists
  <2>. QED  BY <2>10, <2>11
<1>. QED  BY <1>4, <1>5

\* A job that ends closes its attempt and gives its tickets back.
LEMMA EndAttemptBudget ==
    ASSUME TypeOK, Budget, NEW f \in inflight, NEW o \in {"ok", "error"},
           inflight' = inflight \ {f}, EndAttempt(f, o)
    PROVE  LET r == f[1]
               k == log[r][f[2]].number
           IN  /\ r \in Ids /\ f[2] \in Nat /\ k \in Nat \ {0} /\ log' \in [Ids -> Seq(Attempts)]
               /\ \A q \in Ids \ {r} : log'[q] = log[q]
               /\ \A q \in Ids : Tickets(q)' \subseteq Tickets(q)
               /\ Len(log'[r]) = Len(log[r])
               /\ Tickets(r)' = Tickets(r) \ ({f[2]} \X (k + 1 .. MaxAttempts))
               /\ {f[2]} \X (k + 1 .. MaxAttempts) \subseteq Tickets(r)
<1>. DEFINE r == f[1]
            i == f[2]
            k == log[r][i].number
<1>1. /\ r \in Ids /\ i \in Nat /\ i \in DOMAIN log[r] /\ f = <<r, i>>
      /\ log \in [Ids -> Seq(Attempts)] /\ log[r] \in Seq(Attempts)
      /\ inflight \subseteq Ids \X (Nat \ {0})
  BY DEF TypeOK
<1>2. log[r][i] \in Attempts /\ k \in Nat \ {0}
  <2>1. log[r][i] \in Attempts
    BY <1>1
  <2>. QED  BY <2>1 DEF Attempts
<1>3. log' = [log EXCEPT ![r] = [log[r] EXCEPT ![i] = [log[r][i] EXCEPT !.outcome = o]]]
  BY DEF EndAttempt
<1>4. [log[r][i] EXCEPT !.outcome = o] \in Attempts /\ [log[r][i] EXCEPT !.outcome = o].number = k
  BY <1>2 DEF Attempts
<1>5. /\ [log[r] EXCEPT ![i] = [log[r][i] EXCEPT !.outcome = o]] \in Seq(Attempts)
      /\ Len([log[r] EXCEPT ![i] = [log[r][i] EXCEPT !.outcome = o]]) = Len(log[r])
  BY <1>1, <1>4
<1>6. log' \in [Ids -> Seq(Attempts)] /\ Len(log'[r]) = Len(log[r]) /\ \A q \in Ids \ {r} : log'[q] = log[q]
  BY <1>1, <1>3, <1>5
<1>7. \A q \in Ids : \A n \in DOMAIN log[q] : log'[q][n].number = log[q][n].number
  <2>1. ASSUME NEW n \in DOMAIN log[r] PROVE log'[r][n].number = log[r][n].number
    BY <1>1, <1>3, <1>4
  <2>. QED  BY <1>6, <2>1
<1>8. \A q \in Ids : \A n \in Nat : <<q, n>> \in inflight => n \in DOMAIN log[q]
  BY DEF TypeOK
<1>9. ASSUME NEW q \in Ids, NEW t
      PROVE  t \in Tickets(q)' <=> t \in Tickets(q) /\ ~(q = r /\ t[1] = i)
  <2>1. t \in Tickets(q)' <=>
          t \in Nat \X Nat /\ <<q, t[1]>> \in inflight' /\ t[2] \in log'[q][t[1]].number + 1 .. MaxAttempts
    BY DEF Tickets
  <2>2. t \in Tickets(q) <=>
          t \in Nat \X Nat /\ <<q, t[1]>> \in inflight /\ t[2] \in log[q][t[1]].number + 1 .. MaxAttempts
    BY DEF Tickets
  <2>3. t \in Nat \X Nat => (<<q, t[1]>> \in inflight' <=> <<q, t[1]>> \in inflight /\ ~(q = r /\ t[1] = i))
    BY <1>1
  <2>4. t \in Nat \X Nat /\ <<q, t[1]>> \in inflight => log'[q][t[1]].number = log[q][t[1]].number
    BY <1>7, <1>8
  <2>. QED  BY <2>1, <2>2, <2>3, <2>4
<1>. HIDE DEF r, i, k
<1>10. ASSUME NEW t PROVE t \in {i} \X (k + 1 .. MaxAttempts) <=> t \in Tickets(r) /\ t[1] = i
  <2>1. t \in Tickets(r) <=>
          t \in Nat \X Nat /\ <<r, t[1]>> \in inflight /\ t[2] \in log[r][t[1]].number + 1 .. MaxAttempts
    BY DEF Tickets
  <2>2. <<r, i>> \in inflight /\ log[r][i].number = k /\ MaxAttempts \in Nat
    BY <1>1, QueueAssumption DEF r, i, k
  <2>3. t \in {i} \X (k + 1 .. MaxAttempts) <=> t \in Nat \X Nat /\ t[1] = i /\ t[2] \in k + 1 .. MaxAttempts
    BY <1>1, <1>2, <2>2 DEF r
  <2>4. t[1] = i => <<r, t[1]>> \in inflight /\ log[r][t[1]].number = k
    BY <2>2
  <2>. QED  BY <2>1, <2>3, <2>4
<1>11. /\ Tickets(r)' = Tickets(r) \ ({i} \X (k + 1 .. MaxAttempts))
       /\ {i} \X (k + 1 .. MaxAttempts) \subseteq Tickets(r)
       /\ \A q \in Ids : Tickets(q)' \subseteq Tickets(q)
  BY <1>1, <1>9, <1>10
<1>. QED  BY <1>1, <1>2, <1>6, <1>11 DEF r, i, k

\* A success costs nothing more.
LEMMA SucceedBudget ==
    ASSUME TypeOK, Budget, NEW f \in inflight, Succeed(f)
    PROVE  Budget'
<1>. SUFFICES ASSUME NEW r \in Ids PROVE Afforded(r)' /\ Unused(r)'
  BY DEF Budget
<1>1. /\ f[1] \in Ids /\ row \in [Ids -> Rows] /\ reopened' = reopened /\ reopened[r] \in Nat
      /\ inflight' \subseteq Ids \X (Nat \ {0})
      /\ Afforded(r) /\ Unused(r)
  BY DEF TypeOK, Succeed, history, Budget
<1>2. /\ \A q \in Ids \ {f[1]} : log'[q] = log[q]
      /\ \A q \in Ids : Tickets(q)' \subseteq Tickets(q)
      /\ Len(log'[f[1]]) = Len(log[f[1]])
  BY EndAttemptBudget DEF Succeed
<1>3. CASE r # f[1]
  <2>1. row'[r] = row[r] /\ log'[r] = log[r]
    BY <1>1, <1>2, <1>3 DEF Succeed
  <2>2. \A n \in Nat : <<r, n>> \in inflight' => <<r, n>> \in inflight
    BY DEF Succeed
  <2>. QED  BY <1>1, <2>1, <2>2, BudgetFrame
<1>4. CASE r = f[1]
  <2>1. row'[r].state = "sent"
    BY <1>1, <1>4 DEF Succeed, WithState, Rows
  <2>2. Credit(r)' = 0 /\ Credit(r) \in Nat
    BY <1>1, <2>1, QueueAssumption DEF Credit, Pending, Greatest, Rows
  <2>3. Afforded(r)'
    BY <1>1, <1>2, <1>4, <2>2, StaysAfforded
  <2>. QED  BY <2>1, <2>3 DEF Unused, Exists
<1>. QED  BY <1>3, <1>4

\* A failure turns the tickets of its job into those of its row.
LEMMA FailBudget ==
    ASSUME TypeOK, Budget, NEW f \in inflight, Fail(f)
    PROVE  Budget'
<1>. SUFFICES ASSUME NEW r \in Ids PROVE Afforded(r)' /\ Unused(r)'
  BY DEF Budget
<1>. DEFINE i == f[2]
            k == log[f[1]][i].number
            block == {i} \X (k + 1 .. MaxAttempts)
<1>1. /\ f[1] \in Ids /\ row \in [Ids -> Rows] /\ reopened' = reopened /\ reopened[r] \in Nat
      /\ inflight' \subseteq Ids \X (Nat \ {0})
      /\ Afforded(r) /\ Unused(r) /\ log[r] \in Seq(Attempts)
  BY DEF TypeOK, Fail, history, Budget
<1>2. /\ \A q \in Ids \ {f[1]} : log'[q] = log[q]
      /\ \A q \in Ids : Tickets(q)' \subseteq Tickets(q)
      /\ Len(log'[f[1]]) = Len(log[f[1]])
      /\ i \in Nat /\ k \in Nat \ {0}
      /\ Tickets(f[1])' = Tickets(f[1]) \ block /\ block \subseteq Tickets(f[1])
  BY EndAttemptBudget DEF Fail
<1>3. CASE r # f[1]
  <2>1. row'[r] = row[r] /\ log'[r] = log[r]
    BY <1>1, <1>2, <1>3 DEF Fail
  <2>2. \A n \in Nat : <<r, n>> \in inflight' => <<r, n>> \in inflight
    BY DEF Fail
  <2>. QED  BY <1>1, <2>1, <2>2, BudgetFrame
<1>4. CASE r = f[1]
  <2>0. row'[r] = IF k >= MaxAttempts THEN WithState(row[r], "dead_letter", TRUE)
                  ELSE WithState(WithAttempts(row[r], k, IsoAfter(RetryDelay(k))), "failed", FALSE)
    BY <1>1, <1>4 DEF Fail
  <2>. HIDE DEF k
  <2>1. /\ k >= MaxAttempts => row'[r].state = "dead_letter"
        /\ ~(k >= MaxAttempts) => row'[r].state = "failed" /\ row'[r].attempts = k
    BY <1>1, <2>0 DEF WithState, WithAttempts, Rows
  <2>2. CASE k >= MaxAttempts
    <3>1. Credit(r)' = 0 /\ Credit(r) \in Nat
      BY <1>1, <2>1, <2>2, QueueAssumption DEF Credit, Pending, Greatest, Rows
    <3>2. Afforded(r)'
      BY <1>1, <1>2, <1>4, <3>1, StaysAfforded
    <3>. QED  BY <2>1, <2>2, <3>2 DEF Unused, Exists
  <2>3. CASE k < MaxAttempts
    <3>1. Credit(r)' = MaxAttempts - k /\ Credit(r) \in Nat /\ MaxAttempts \in Nat
      BY <1>1, <1>2, <2>1, <2>3, QueueAssumption DEF Credit, Pending, Greatest, Rows
    <3>2. /\ IsFiniteSet(block) /\ Cardinality(block) = MaxAttempts - k
          /\ IsFiniteSet(Tickets(r)) /\ Cardinality(Tickets(r)) \in Nat
      BY <1>1, <1>2, <2>3, TicketsOfAJob, FS_CardinalityType DEF Afforded
    <3>. HIDE DEF block
    <3>3. /\ IsFiniteSet(Tickets(r) \ block)
          /\ Cardinality(Tickets(r) \ block) = Cardinality(Tickets(r)) - Cardinality(Tickets(r) \cap block)
      BY <3>2, FS_Difference
    <3>4. Tickets(r) \cap block = block
      BY <1>2, <1>4
    <3>5. IsFiniteSet(Tickets(r)') /\ Cardinality(Tickets(r)') = Cardinality(Tickets(r)) - (MaxAttempts - k)
      BY <1>2, <1>4, <3>2, <3>3, <3>4
    <3>6. PICK x : x = MaxAttempts * (1 + reopened[r])
      OBVIOUS
    <3>7. x \in Nat /\ Len(log[r]) \in Nat
      BY <1>1, <3>1, <3>6
    <3>8. Len(log[r]) + Cardinality(Tickets(r)) + Credit(r) <= x
      BY <1>1, <3>6 DEF Afforded
    <3>9. Len(log[r]) + Cardinality(Tickets(r)') + Credit(r)' <= x
      BY <1>2, <3>1, <3>2, <3>5, <3>7, <3>8
    <3>10. Afforded(r)'
      BY <1>1, <1>2, <1>4, <3>5, <3>6, <3>9 DEF Afforded
    <3>. QED  BY <2>1, <2>3, <3>10, <1>2, QueueAssumption DEF Unused, Exists
  <2>. QED  BY <1>2, <2>2, <2>3, QueueAssumption
<1>. QED  BY <1>3, <1>4

\* A replay or a callback that writes q.
LEMMA OutsiderBudget ==
    ASSUME TypeOK, Budget, NEW q \in Ids, UNCHANGED <<log, inflight>>,
           NEW c \in Rows, row' = [row EXCEPT ![q] = c], Exists(q), c.state # "absent",
           \/ /\ reopened' = [reopened EXCEPT ![q] = @ + 1]
           \/ /\ reopened' = reopened
              /\ c.attempts = row[q].attempts
              /\ c.state \in {"queued", "failed"} => Pending(q)
    PROVE  Budget'
<1>. SUFFICES ASSUME NEW r \in Ids PROVE Afforded(r)' /\ Unused(r)'
  BY DEF Budget
<1>1. /\ row \in [Ids -> Rows] /\ reopened \in [Ids -> Nat] /\ inflight \subseteq Ids \X (Nat \ {0})
      /\ Afforded(r) /\ Unused(r)
  BY DEF TypeOK, Budget
<1>2. CASE r # q
  <2>1. row'[r] = row[r] /\ reopened'[r] = reopened[r]
    BY <1>1, <1>2
  <2>. QED  BY <1>1, <2>1, BudgetFrame
<1>3. CASE r = q
  <2>1. row'[r] = c
    BY <1>1, <1>3
  <2>2. Tickets(r)' = Tickets(r)
    BY DEF Tickets
  <2>3. c.attempts \in Nat /\ row[r].attempts \in Nat /\ MaxAttempts \in Nat \ {0}
    BY <1>1, QueueAssumption DEF Rows
  <2>4. Credit(r)' \in Nat /\ Credit(r)' <= MaxAttempts /\ Credit(r) \in Nat
    BY <2>1, <2>3 DEF Credit, Pending, Greatest
  <2>5. reopened'[r] \in Nat /\ (reopened'[r] = reopened[r] + 1 \/ (reopened'[r] = reopened[r] /\ Credit(r)' <= Credit(r)))
    <3>1. CASE reopened' = [reopened EXCEPT ![q] = @ + 1]
      BY <1>1, <1>3, <3>1
    <3>2. CASE reopened' = reopened /\ c.attempts = row[q].attempts /\ (c.state \in {"queued", "failed"} => Pending(q))
      BY <1>1, <1>3, <2>1, <2>3, <3>2 DEF Credit, Pending, Greatest
    <3>. QED  BY <3>1, <3>2
  <2>6. reopened[r] \in Nat /\ reopened'[r] >= reopened[r]
    BY <1>1, <2>5
  <2>7. Afforded(r)'
    BY <1>1, <2>2, <2>4, <2>5, <2>6, StaysAfforded
  <2>. QED  BY <2>1, <2>7 DEF Unused, Exists
<1>. QED  BY <1>2, <1>3

\* No step overdraws a row.
LEMMA BudgetStep == TypeOK /\ Budget /\ [Next]_vars => Budget'
<1>. SUFFICES ASSUME TypeOK, Budget, [Next]_vars PROVE Budget'
  OBVIOUS
<1>0. row \in [Ids -> Rows] /\ TypeOK'
  BY NextTypes DEF TypeOK
<1>1. CASE \E r \in Ids : Enqueue(r)
  BY <1>1, EnqueueBudget
<1>2. CASE Poll
  BY <1>2, PollBudget
<1>3. CASE \E r \in Ids : Settle(r)
  BY <1>3, SucceedBudget, FailBudget DEF Settle, FlightsOf
<1>4. ASSUME NEW q \in Ids, RequeueDeadLetter(q) PROVE Budget'
  <2>. DEFINE c == WithState(WithAttempts(row[q], 0, IsoAfter(0)), "queued", FALSE)
  <2>1. /\ UNCHANGED <<log, inflight>> /\ row' = [row EXCEPT ![q] = c] /\ Exists(q)
        /\ reopened' = [reopened EXCEPT ![q] = @ + 1]
    BY <1>0, <1>4 DEF RequeueDeadLetter
  <2>2. row'[q] = c /\ row' \in [Ids -> Rows]
    BY <1>0, <2>1 DEF TypeOK
  <2>3. c \in Rows /\ c.state = "queued"
    <3>1. c.state = "queued"
      BY <1>0 DEF WithState, WithAttempts, Rows
    <3>. QED  BY <2>2, <3>1
  <2>. HIDE DEF c
  <2>. QED  BY <2>1, <2>3, OutsiderBudget
<1>5. ASSUME NEW q \in Ids, NEW status \in CallbackStatuses, Reconcile(q, status) PROVE Budget'
  <2>. DEFINE s == ReconciledState(q, status)
              c == WithState(row[q], s, s = "sent")
  <2>1. /\ UNCHANGED <<log, inflight>> /\ row' = [row EXCEPT ![q] = c] /\ Exists(q)
        /\ reopened' = IF status = "failed" THEN [reopened EXCEPT ![q] = @ + 1] ELSE reopened
    BY <1>0, <1>5 DEF Reconcile
  <2>2. row'[q] = c /\ row' \in [Ids -> Rows]
    BY <1>0, <2>1 DEF TypeOK
  <2>3. c \in Rows /\ c.state = s /\ c.attempts = row[q].attempts
    <3>. HIDE DEF s
    <3>1. c.state = s /\ c.attempts = row[q].attempts
      BY <1>0 DEF WithState, Rows
    <3>. QED  BY <2>2, <3>1
  <2>4. s # "absent" /\ (status # "failed" /\ s \in {"queued", "failed"} => Pending(q))
    BY <2>1 DEF ReconciledState, Exists, Pending
  <2>. HIDE DEF c, s
  <2>. QED  BY <2>1, <2>3, <2>4, OutsiderBudget
<1>6. CASE \/ \E m \in Modes : SetProcessingMode(m)
           \/ \E w \in Multipliers : SetRetryWindowMultiplier(w)
           \/ Restart \/ Tick \/ UNCHANGED vars
  <2>. SUFFICES ASSUME NEW r \in Ids PROVE Afforded(r)' /\ Unused(r)'
    BY DEF Budget
  <2>1. row'[r].state = row[r].state /\ row'[r].attempts = row[r].attempts
    <3>1. row' = row \/ row'[r] = [row[r] EXCEPT !.next = Yesterday(row[r].next)]
      BY <1>6 DEF SetProcessingMode, SetRetryWindowMultiplier, Restart, Tick, vars, tables
    <3>. QED  BY <1>0, <3>1 DEF Rows
  <2>2. log' = log /\ reopened' = reopened /\ inflight' \subseteq inflight
    BY <1>6 DEF SetProcessingMode, SetRetryWindowMultiplier, Restart, Tick, vars, tables, history
  <2>3. inflight' \subseteq Ids \X (Nat \ {0}) /\ Afforded(r) /\ Unused(r)
    BY <1>0 DEF TypeOK, Budget
  <2>. QED  BY <2>1, <2>2, <2>3, BudgetFrame
<1>. QED  BY <1>1, <1>2, <1>3, <1>4, <1>5, <1>6 DEF Next, QueueNext

\* Each enqueue, each replay and each 'failed' callback buys at most MaxAttempts
\* calls of dispatchFn, in whatever order polls, jobs and outsiders write the row
\* and however many of its jobs are in flight.
THEOREM AttemptsAreBounded == Spec => []AttemptsBounded
<1>1. Init => Budget
  <2>. SUFFICES ASSUME Init, NEW r \in Ids PROVE Afforded(r) /\ Unused(r)
    BY DEF Budget
  <2>1. Len(log[r]) = 0 /\ inflight = {} /\ reopened[r] = 0 /\ row[r].state = "absent"
    BY DEF Init
  <2>2. Tickets(r) = {} /\ Credit(r) = 0 /\ FlightsOf(r) = {}
    BY <2>1 DEF Tickets, Credit, Pending, FlightsOf
  <2>3. IsFiniteSet(Tickets(r)) /\ Cardinality(Tickets(r)) = 0
    BY <2>2, FS_EmptySet
  <2>. QED  BY <2>1, <2>2, <2>3, QueueAssumption DEF Afforded, Unused
<1>2. TypeOK /\ Budget /\ [Next]_vars => Budget'
  BY BudgetStep
<1>3. TypeOK /\ Budget => AttemptsBounded
  <2>. SUFFICES ASSUME TypeOK, Budget, NEW r \in Ids
                PROVE  Len(log[r]) <= MaxAttempts * (1 + reopened[r])
    BY DEF AttemptsBounded
  <2>1. PICK x : x = MaxAttempts * (1 + reopened[r])
    OBVIOUS
  <2>2. /\ x \in Nat /\ Len(log[r]) \in Nat /\ Credit(r) \in Nat
        /\ Len(log[r]) + Cardinality(Tickets(r)) + Credit(r) <= x /\ IsFiniteSet(Tickets(r))
    <3>1. row[r] \in Rows /\ reopened[r] \in Nat /\ log[r] \in Seq(Attempts)
      BY DEF TypeOK
    <3>2. Credit(r) \in Nat
      BY <3>1, QueueAssumption DEF Credit, Greatest, Rows
    <3>3. x \in Nat
      BY <2>1, <3>1, QueueAssumption
    <3>. QED  BY <2>1, <3>1, <3>2, <3>3 DEF Budget, Afforded
  <2>3. Cardinality(Tickets(r)) \in Nat
    BY <2>2, FS_CardinalityType
  <2>4. Len(log[r]) <= x
    BY <2>2, <2>3
  <2>. QED  BY <2>1, <2>4
<1>. QED  BY <1>1, <1>2, <1>3, TypeCorrect, PTL DEF Spec

=============================================================================
