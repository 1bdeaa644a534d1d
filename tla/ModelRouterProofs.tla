------------------------- MODULE ModelRouterProofs -------------------------
(***************************************************************************)
(* Proofs about ModelRouter, for any number of completions and any limits, *)
(* delays and cooldowns.                                                   *)
(*                                                                         *)
(* The inductive invariant adds to the types that a call is at a model its *)
(* directive lets through, that what it is barred from is blocked for it,  *)
(* and that a provider cools for as long after a 429 as it should.  A      *)
(* second one bounds how far a provider is over its limit.                 *)
(***************************************************************************)
EXTENDS ModelRouter, FiniteSetTheorems, SequenceTheorems, TLAPS

\* What a call's record r says of the models it has left.
Heeds(r) ==
    /\ r.barred \subseteq r.blocked
    /\ r.phase \notin {"idle", "pacing"} => Head(r.left) \notin r.blocked

Inv ==
    /\ TypeOK
    /\ \A c \in Calls : Heeds(call[c])
    /\ \A m \in Models : limited[m] <= pcool[m]

-----------------------------------------------------------------------------
(* What the operators return.                                              *)

LEMMA UptoLimit ==
    ASSUME NEW n \in Nat, NEW limit \in Nat
    PROVE  Upto(n, limit) \in 0 .. limit
BY DEF Upto

LEMMA ModelsFinite ==
    ASSUME NEW ms \in SUBSET Models
    PROVE  Cardinality(ms) \in Nat
<1>1. Models = {"primary", "fallback_1", "fallback_2"}
  BY DEF Models, Chain
<1>2. IsFiniteSet(Models)
  <2>1. IsFiniteSet({"primary"}) /\ IsFiniteSet({"fallback_1"}) /\ IsFiniteSet({"fallback_2"})
    BY FS_Singleton
  <2>2. IsFiniteSet({"primary"} \cup {"fallback_1"})
    BY <2>1, FS_Union
  <2>3. IsFiniteSet(({"primary"} \cup {"fallback_1"}) \cup {"fallback_2"})
    BY <2>1, <2>2, FS_Union
  <2>4. Models = ({"primary"} \cup {"fallback_1"}) \cup {"fallback_2"}
    BY <1>1
  <2> QED
    BY <2>3, <2>4
<1> QED
  BY <1>2, FS_Subset, FS_CardinalityType

\* Counting requests keeps every count within its limit.
LEMMA RecordedType ==
    ASSUME NEW u \in Usage, NEW s \in Sessions, NEW ms \in SUBSET Models
    PROVE  Recorded(u, s, ms) \in Usage
<1>1. /\ Cardinality(ms) \in Nat /\ DailyLimit \in Nat
      /\ SessionLimit \in Nat /\ ProviderLimit \in Nat
  BY ModelsFinite, RouterAssumption
<1>2. /\ u.day \in Nat /\ u.total \in [Sessions -> 0 .. SessionLimit]
      /\ u.today \in [Models -> 0 .. ProviderLimit]
  BY DEF Usage
<1>3. Upto(u.day + Cardinality(ms), DailyLimit) \in 0 .. DailyLimit
  <2>1. u.day + Cardinality(ms) \in Nat
    BY <1>1, <1>2
  <2> QED
    BY <1>1, <2>1, UptoLimit
<1>4. [u.total EXCEPT ![s] = Upto(@ + Cardinality(ms), SessionLimit)]
        \in [Sessions -> 0 .. SessionLimit]
  <2>1. u.total[s] + Cardinality(ms) \in Nat
    BY <1>1, <1>2
  <2>2. Upto(u.total[s] + Cardinality(ms), SessionLimit) \in 0 .. SessionLimit
    BY <1>1, <2>1, UptoLimit
  <2> QED
    BY <1>2, <2>2
<1>5. ASSUME NEW m \in Models
      PROVE  (IF m \in ms THEN Upto(u.today[m] + 1, ProviderLimit) ELSE u.today[m])
               \in 0 .. ProviderLimit
  <2>1. u.today[m] \in 0 .. ProviderLimit
    BY <1>2
  <2>2. u.today[m] + 1 \in Nat
    BY <2>1
  <2>3. Upto(u.today[m] + 1, ProviderLimit) \in 0 .. ProviderLimit
    BY <1>1, <2>2, UptoLimit
  <2> QED
    BY <2>1, <2>3
<1> QED
  BY <1>3, <1>4, <1>5 DEF Recorded, Usage

LEMMA InFlightType == InFlight \in Nat
BY FS_CardinalityType, RouterAssumption DEF InFlight

LEMMA AskedType ==
    ASSUME TypeOK, NEW m \in Models
    PROVE  Asked(m) \in [Models -> 0 .. ProviderLimit + InFlight]
<1>1. ProviderLimit + InFlight \in Nat
  BY InFlightType, RouterAssumption
<1>2. asked[m] + 1 \in Nat
  BY <1>1 DEF TypeOK
<1>3. Upto(asked[m] + 1, ProviderLimit + InFlight) \in 0 .. ProviderLimit + InFlight
  BY <1>1, <1>2, UptoLimit
<1> QED
  BY <1>3 DEF Asked, TypeOK

LEMMA OrderedType ==
    ASSUME NEW p, preferred \in 0 .. 2
    PROVE  Ordered(p) \in Seq(Models) /\ Len(Ordered(p)) = 3
<1>1. CheapestFirst \in Seq(Models) /\ Len(CheapestFirst) = 3
  BY DEF CheapestFirst, Models, Chain
<1>2. BalancedFirst \in Seq(Models) /\ Len(BalancedFirst) = 3
  BY DEF BalancedFirst, Models, Chain
<1> DEFINE rotated == [i \in 1 .. 3 |-> Chain[((preferred + i - 1) % 3) + 1]]
<1>3. rotated \in [1 .. 3 -> Models]
  <2>1. \A j \in 1 .. 3 : Chain[j] \in Models
    BY DEF Models, Chain
  <2>2. \A i \in 1 .. 3 : ((preferred + i - 1) % 3) + 1 \in 1 .. 3
    OBVIOUS
  <2> QED
    BY <2>1, <2>2
<1>4. rotated \in Seq(Models) /\ Len(rotated) = 3
  BY <1>3
<1> QED
  BY <1>1, <1>2, <1>4 DEF Ordered

NoCallType == NoCall \in CallRecords /\ Shaped(NoCall) /\ Heeds(NoCall)

LEMMA NoCallTyped == NoCallType
BY RouterAssumption DEF NoCallType, NoCall, CallRecords, Shaped, Heeds, Phases, Profiles

\* The walk has a first stop, or goes past the end.
LEMMA FirstStop ==
    ASSUME NEW n \in 0 .. 3, NEW S \in SUBSET (1 .. n)
    PROVE  /\ Min(S \cup {n + 1}) \in S \cup {n + 1}
           /\ S # {} => Min(S \cup {n + 1}) \in S
<1> DEFINE T == S \cup {n + 1}
<1>1. T \subseteq 1 .. 4 /\ n + 1 \in T
  OBVIOUS
<1>2. \E x \in T : \A y \in T : x =< y
  <2>1. CASE 1 \in T  BY <1>1, <2>1
  <2>2. CASE 1 \notin T /\ 2 \in T  BY <1>1, <2>2
  <2>3. CASE 1 \notin T /\ 2 \notin T /\ 3 \in T  BY <1>1, <2>3
  <2>4. CASE 1 \notin T /\ 2 \notin T /\ 3 \notin T  BY <1>1, <2>4
  <2> QED BY <2>1, <2>2, <2>3, <2>4
<1>3. Min(T) \in T /\ \A y \in T : Min(T) =< y
  BY <1>2 DEF Min
<1>4. ASSUME S # {} PROVE Min(T) \in S
  <2>1. PICK x \in S : TRUE
    BY <1>4
  <2>2. Min(T) =< x /\ x < n + 1
    BY <1>3, <2>1
  <2> QED
    BY <1>1, <1>3, <2>1, <2>2
<1> QED
  BY <1>3, <1>4

-----------------------------------------------------------------------------
(* What a completion does in a step.                                       *)

\* c is the only call that changes.  Its record stays sound, and a request it
\* sends goes to a model that does not cool.
Outcome(c, r) ==
    /\ r \in CallRecords /\ Shaped(r) /\ Heeds(r)
    /\ call' = [call EXCEPT ![c] = r]
    /\ usage' \in Usage
    /\ asked' \in [Models -> 0 .. ProviderLimit + InFlight]

\* A record at the model k of the chain left, which r lets through.
LEMMA AtType ==
    ASSUME NEW r \in CallRecords, r.barred \subseteq r.blocked,
           NEW left \in Seq(Models), Len(left) <= 3,
           NEW k \in 1 .. Len(left), left[k] \notin r.blocked,
           NEW phase \in {"waiting", "requesting"}, NEW timer \in Nat,
           phase = "requesting" => timer = 0,
           NEW q, q = At(r, phase, SubSeq(left, k, Len(left)), timer)
    PROVE  /\ q \in CallRecords /\ Shaped(q) /\ Heeds(q)
           /\ q.phase = phase /\ Head(q.left) = left[k]
<1> DEFINE rest == SubSeq(left, k, Len(left))
<1>1. /\ rest \in Seq(Models) /\ Len(rest) = Len(left) - k + 1
      /\ rest # <<>> /\ Head(rest) = left[k]
  <2>1. Len(left) \in Nat /\ k \in Int /\ Len(left) - k + 1 \in Nat \ {0}
    OBVIOUS
  <2>2. rest \in Seq(Models) /\ Len(rest) = Len(left) - k + 1
    BY <2>1, SubSeqProperties
  <2>3. rest[1] = left[k]
    BY <2>1, SubSeqProperties
  <2> HIDE DEF rest
  <2> QED
    BY <2>1, <2>2, <2>3
<1> DEFINE B == r.blocked \cap Range(rest)
           D == r.barred \cap Range(rest)
<1>2. B \in SUBSET Models /\ D \in SUBSET Models /\ D \subseteq B /\ left[k] \notin B
  BY DEF CallRecords
<1>3. q = [phase |-> phase, session |-> r.session, profile |-> "performance",
           blocked |-> B, left |-> rest, timer |-> timer, barred |-> D]
  BY DEF At, NoCall, CallRecords
<1> HIDE DEF rest, B, D
<1>4. q \in CallRecords
  BY <1>1, <1>2, <1>3 DEF CallRecords, Phases, Profiles
<1>5. Shaped(q)
  BY <1>1, <1>3 DEF Shaped
<1>6. Heeds(q)
  BY <1>1, <1>2, <1>3 DEF Heeds
<1> QED
  BY <1>1, <1>3, <1>4, <1>5, <1>6

LEMMA WalkStep ==
    ASSUME TypeOK, NEW c \in Calls, NEW r \in CallRecords, r.barred \subseteq r.blocked,
           NEW left \in Seq(Models), Len(left) <= 3,
           NEW cooling \in [Models -> Nat], NEW u \in Usage,
           Walk(c, r, left, cooling, u)
    PROVE  \E q : /\ Outcome(c, q)
                  /\ q.phase \in {"idle", "waiting", "requesting"}
                  /\ q.phase = "requesting" => cooling[Head(q.left)] = 0
<1> DEFINE stops == {i \in DOMAIN left : Stops(r, left[i], cooling)}
           k     == Min(stops \cup {Len(left) + 1})
           m     == left[k]
           rest  == SubSeq(left, k, Len(left))
           ms    == {left[i] : i \in 1 .. k - 1} \cap r.blocked
           past  == At(r, "waiting", rest, Upto(cooling[m], MaxWait))
           next  == At(r, "requesting", rest, 0)
<1>1. /\ usage' = Recorded(u, r.session, ms)
      /\ IF stops = {} THEN call' = [call EXCEPT ![c] = NoCall] /\ UNCHANGED asked
         ELSE IF cooling[m] > 0
         THEN call' = [call EXCEPT ![c] = past] /\ UNCHANGED asked
         ELSE call' = [call EXCEPT ![c] = next] /\ asked' = Asked(m)
  BY DEF Walk
<1>2. stops \in SUBSET (1 .. Len(left)) /\ Len(left) \in 0 .. 3
  <2>1. DOMAIN left = 1 .. Len(left) /\ Len(left) \in Nat
    OBVIOUS
  <2>2. stops \subseteq DOMAIN left
    BY Zenon
  <2> HIDE DEF stops
  <2> QED
    BY <2>1, <2>2
<1>3. k \in stops \cup {Len(left) + 1} /\ (stops # {} => k \in stops)
  <2> HIDE DEF stops
  <2> QED
    BY <1>2, FirstStop
<1>4. usage' \in Usage
  <2>1. ms \in SUBSET Models
    BY DEF CallRecords
  <2>2. r.session \in Sessions
    BY DEF CallRecords
  <2> HIDE DEF ms
  <2> QED
    BY <1>1, <2>1, <2>2, RecordedType
<1>5. asked \in [Models -> 0 .. ProviderLimit + InFlight]
  BY DEF TypeOK
<1>6. CASE stops = {}
  <2>1. Outcome(c, NoCall)
    BY <1>1, <1>4, <1>5, <1>6, NoCallTyped DEF Outcome, NoCallType
  <2>2. NoCall.phase = "idle"
    BY DEF NoCall
  <2> QED
    BY <2>1, <2>2
<1>7. CASE stops # {}
  <2>1. /\ k \in 1 .. Len(left) /\ m \in Models /\ m \notin r.blocked
    <3>1. k \in stops
      BY <1>3, <1>7
    <3>2. k \in 1 .. Len(left) /\ Stops(r, left[k], cooling)
      BY <3>1
    <3> HIDE DEF k
    <3> QED
      BY <3>2 DEF Stops
  <2> HIDE DEF stops, k
  <2>2. CASE cooling[m] > 0
    <3>1. Upto(cooling[m], MaxWait) \in Nat
      <4>1. cooling[m] \in Nat /\ MaxWait \in Nat
        BY <2>1, RouterAssumption
      <4>2. Upto(cooling[m], MaxWait) \in 0 .. MaxWait
        BY <4>1, UptoLimit
      <4> QED
        BY <4>1, <4>2
    <3>2. past \in CallRecords /\ Shaped(past) /\ Heeds(past) /\ past.phase = "waiting"
      BY <2>1, <3>1, AtType
    <3> HIDE DEF past
    <3>3. Outcome(c, past)
      BY <1>1, <1>4, <1>5, <1>7, <2>2, <3>2 DEF Outcome
    <3> QED
      BY <3>2, <3>3
  <2>3. CASE ~(cooling[m] > 0)
    <3>1. cooling[m] = 0
      BY <2>1, <2>3
    <3>2. /\ next \in CallRecords /\ Shaped(next) /\ Heeds(next) /\ next.phase = "requesting"
          /\ Head(next.left) = m
      <4>1. PICK t \in Nat : t = 0
        OBVIOUS
      <4>2. next = At(r, "requesting", rest, t)
        BY <4>1
      <4> HIDE DEF next
      <4> QED
        BY <2>1, <4>1, <4>2, AtType
    <3> HIDE DEF next
    <3>3. asked' \in [Models -> 0 .. ProviderLimit + InFlight]
      BY <1>1, <1>7, <2>1, <2>3, AskedType
    <3>4. Outcome(c, next)
      BY <1>1, <1>4, <1>7, <2>3, <3>2, <3>3 DEF Outcome
    <3> QED
      BY <3>1, <3>2, <3>4
  <2> QED
    BY <2>2, <2>3
<1> QED
  BY <1>6, <1>7

\* A request is sent to a model that does not cool.
Spares(r) == r.phase \in {"requesting", "retrying"} => cool'[Head(r.left)] = 0

LEMMA CurrentType ==
    ASSUME Inv, NEW c \in Calls, call[c].phase \notin {"idle", "pacing"}
    PROVE  /\ call[c] \in CallRecords /\ call[c].barred \subseteq call[c].blocked
           /\ Current(c) \in Models /\ Current(c) \notin call[c].blocked
           /\ Tail(call[c].left) \in Seq(Models) /\ Len(Tail(call[c].left)) <= 3
           /\ Counted(c) \in Usage
<1>1. call[c] \in CallRecords /\ Shaped(call[c]) /\ Heeds(call[c]) /\ usage \in Usage
  BY DEF Inv, TypeOK
<1>2. /\ call[c].left \in Seq(Models) /\ call[c].left # <<>> /\ Len(call[c].left) <= 3
      /\ call[c].session \in Sessions
  BY <1>1 DEF CallRecords, Shaped
<1>3. Head(call[c].left) \in Models /\ Tail(call[c].left) \in Seq(Models)
  BY <1>2
<1>4. Len(Tail(call[c].left)) <= 3
  <2>1. Len(Tail(call[c].left)) = Len(call[c].left) - 1 /\ Len(call[c].left) \in Nat
    BY <1>2
  <2> QED
    BY <1>2, <2>1
<1>5. Counted(c) \in Usage
  <2>1. {Current(c)} \in SUBSET Models
    BY <1>3 DEF Current
  <2> QED
    BY <1>1, <1>2, <2>1, RecordedType DEF Counted
<1> QED
  BY <1>1, <1>3, <1>4, <1>5 DEF Heeds, Current

LEMMA PassOnStep ==
    ASSUME Inv, NEW c \in Calls, call[c].phase \notin {"idle", "pacing"},
           cool' \in [Models -> Nat], NEW u \in Usage, PassOn(c, cool', u)
    PROVE  \E q : Outcome(c, q) /\ Spares(q)
<1>1. Walk(c, call[c], Tail(call[c].left), cool', u)
  BY DEF PassOn
<1>2. PICK q : /\ Outcome(c, q) /\ q.phase \in {"idle", "waiting", "requesting"}
               /\ q.phase = "requesting" => cool'[Head(q.left)] = 0
  BY <1>1, CurrentType, WalkStep, ZenonT(60) DEF Inv
<1> QED
  BY <1>2 DEF Spares

LEMMA SendStep ==
    ASSUME Inv, NEW c \in Calls, call[c].phase \in {"waiting", "backoff"}, call[c].timer = 0,
           NEW phase \in {"requesting", "retrying"}, cool[Current(c)] = 0, cool' = cool,
           Send(c, phase)
    PROVE  \E q : Outcome(c, q) /\ Spares(q)
<1> DEFINE q == [call[c] EXCEPT !.phase = phase]
<1>1. /\ call[c] \in CallRecords /\ Shaped(call[c]) /\ Heeds(call[c])
      /\ usage \in Usage /\ Current(c) \in Models
  BY CurrentType DEF Inv, TypeOK
<1>2. q \in CallRecords /\ q.left = call[c].left /\ q.phase = phase
  BY <1>1 DEF CallRecords, Phases
<1>3. Shaped(q) /\ Heeds(q)
  BY <1>1, <1>2 DEF Shaped, Heeds, CallRecords
<1>4. call' = [call EXCEPT ![c] = q] /\ usage' = usage /\ asked' = Asked(Current(c))
  BY DEF Send, Inv, TypeOK
<1>5. asked' \in [Models -> 0 .. ProviderLimit + InFlight]
  BY <1>1, <1>4, AskedType DEF Inv
<1>6. Outcome(c, q)
  BY <1>1, <1>2, <1>3, <1>4, <1>5 DEF Outcome
<1>7. Spares(q)
  BY <1>2 DEF Spares, Current
<1> QED
  BY <1>6, <1>7

\* A provider the governor's evaluation leaves cooling cools no less than before.
LEMMA ArmedType ==
    ASSUME Inv
    PROVE  /\ Armed \in [Models -> 0 .. ProviderCooldown]
           /\ \A m \in Models : limited[m] <= Armed[m]
BY RouterAssumption DEF Inv, TypeOK, Armed

LEMMA StartStep ==
    ASSUME Inv, NEW c \in Calls, NEW s \in Sessions, Start(c, s)
    PROVE  \E q : Outcome(c, q) /\ Spares(q)
<1> DEFINE r == [NoCall EXCEPT !.session = s, !.profile = Profile(s),
                               !.blocked = BlockedProviders \cup BlockedModels(s),
                               !.barred  = AtLimit \cup {m \in Models : limited[m] > 0}]
           paced == [r EXCEPT !.phase = "pacing", !.timer = Pacing(s)]
<1>1. NoCall \in CallRecords /\ NoCall.left = <<>> /\ NoCall.timer = 0
  BY NoCallTyped DEF NoCallType, NoCall
<1>2. Profile(s) \in Profiles
  BY DEF Profile, Profiles, Inv, TypeOK, NoProfile
<1>3. BlockedProviders \cup BlockedModels(s) \in SUBSET Models
  BY DEF BlockedProviders, BlockedModels, AtLimit, Models, Chain
<1>4. AtLimit \cup {m \in Models : limited[m] > 0} \subseteq BlockedProviders
  <2>1. ASSUME NEW m \in Models, limited[m] > 0 PROVE pcool[m] > 0
    BY <2>1 DEF Inv, TypeOK
  <2> QED
    BY <2>1 DEF BlockedProviders
<1>5. Pacing(s) \in Nat
  BY RouterAssumption DEF Pacing
<1>6. /\ r \in CallRecords /\ r.barred \subseteq r.blocked
      /\ r.left = <<>> /\ r.phase = "idle"
  BY <1>1, <1>2, <1>3, <1>4 DEF CallRecords, NoCall
<1>7. cool' = cool /\ cool \in [Models -> Nat]
  BY DEF Start, Inv, TypeOK
<1>8. CASE Pacing(s) > 0
  <2>1. call' = [call EXCEPT ![c] = paced] /\ usage' = usage /\ asked' = asked
    BY <1>8 DEF Start
  <2> HIDE DEF r
  <2>2. paced \in CallRecords /\ Shaped(paced) /\ Heeds(paced) /\ paced.phase = "pacing"
    <3>1. paced \in CallRecords
      BY <1>5, <1>6 DEF CallRecords, Phases
    <3>2. /\ paced.phase = "pacing" /\ paced.left = <<>>
          /\ paced.barred = r.barred /\ paced.blocked = r.blocked
      BY <1>6 DEF CallRecords
    <3> HIDE DEF paced
    <3>3. Shaped(paced)
      <4>1. Len(paced.left) = 0
        BY <3>2
      <4> QED
        BY <3>2, <4>1 DEF Shaped
    <3> QED
      BY <1>6, <3>1, <3>2, <3>3 DEF Heeds
  <2> HIDE DEF paced
  <2>3. Outcome(c, paced) /\ Spares(paced)
    BY <2>1, <2>2 DEF Outcome, Spares, Inv, TypeOK
  <2> QED
    BY <2>3
<1>9. CASE ~(Pacing(s) > 0)
  <2>1. Walk(c, r, Ordered(Profile(s)), cool, usage)
    BY <1>9 DEF Start
  <2> HIDE DEF r
  <2>2. Ordered(Profile(s)) \in Seq(Models) /\ Len(Ordered(Profile(s))) <= 3
    <3>1. preferred \in 0 .. 2
      BY DEF Inv, TypeOK
    <3>2. Ordered(Profile(s)) \in Seq(Models) /\ Len(Ordered(Profile(s))) = 3
      BY <3>1, OrderedType
    <3> QED
      BY <3>2
  <2>3. PICK q : /\ Outcome(c, q) /\ q.phase \in {"idle", "waiting", "requesting"}
                 /\ q.phase = "requesting" => cool[Head(q.left)] = 0
    BY <1>6, <1>7, <2>1, <2>2, WalkStep DEF Inv, TypeOK
  <2> QED
    BY <1>7, <2>3 DEF Spares
<1> QED
  BY <1>8, <1>9

LEMMA PacedStep ==
    ASSUME Inv, NEW c \in Calls, Paced(c)
    PROVE  \E q : Outcome(c, q) /\ Spares(q)
<1>1. /\ Walk(c, call[c], Ordered(call[c].profile), cool, usage)
      /\ cool' = cool /\ cool \in [Models -> Nat] /\ usage \in Usage
  BY DEF Paced, Inv, TypeOK
<1>2. call[c] \in CallRecords /\ call[c].barred \subseteq call[c].blocked
  BY DEF Inv, TypeOK, Heeds
<1>3. Ordered(call[c].profile) \in Seq(Models) /\ Len(Ordered(call[c].profile)) <= 3
  <2>1. preferred \in 0 .. 2
    BY DEF Inv, TypeOK
  <2>2. Ordered(call[c].profile) \in Seq(Models) /\ Len(Ordered(call[c].profile)) = 3
    BY <2>1, OrderedType
  <2> QED
    BY <2>2
<1>4. PICK q : /\ Outcome(c, q) /\ q.phase \in {"idle", "waiting", "requesting"}
               /\ q.phase = "requesting" => cool[Head(q.left)] = 0
  BY <1>1, <1>2, <1>3, WalkStep DEF Inv
<1> QED
  BY <1>1, <1>4 DEF Spares

LEMMA WaitedStep ==
    ASSUME Inv, NEW c \in Calls, Waited(c)
    PROVE  \E q : Outcome(c, q) /\ Spares(q)
<1>1. /\ call[c].phase = "waiting" /\ call[c].timer = 0 /\ cool' = cool
      /\ cool \in [Models -> Nat] /\ usage \in Usage
  BY DEF Waited, Inv, TypeOK
<1>2. CASE cool[Current(c)] = 0 /\ Keyed(Current(c))
  <2>1. Send(c, "requesting")
    BY <1>2 DEF Waited
  <2> QED
    BY <1>1, <1>2, <2>1, SendStep
<1>3. CASE ~(cool[Current(c)] = 0 /\ Keyed(Current(c)))
  <2>1. PassOn(c, cool, usage)
    BY <1>3 DEF Waited
  <2>2. PassOn(c, cool', usage)
    BY <1>1, <2>1 DEF PassOn, Walk, Stops
  <2> QED
    BY <1>1, <2>2, PassOnStep
<1> QED
  BY <1>2, <1>3

LEMMA RetryStep ==
    ASSUME Inv, NEW c \in Calls, Retry(c)
    PROVE  \E q : Outcome(c, q) /\ Spares(q)
<1>1. /\ call[c].phase = "backoff" /\ call[c].timer = 0 /\ cool' = cool
      /\ cool \in [Models -> Nat] /\ usage \in Usage
  BY DEF Retry, Inv, TypeOK
<1>2. CASE cool[Current(c)] = 0
  <2>1. Send(c, "retrying")
    BY <1>2 DEF Retry
  <2> QED
    BY <1>1, <1>2, <2>1, SendStep
<1>3. CASE cool[Current(c)] # 0
  <2>1. PassOn(c, cool, usage)
    <3>1. ~(cool[Current(c)] = 0)
      BY <1>3
    <3> QED
      BY <3>1 DEF Retry
  <2>2. PassOn(c, cool', usage)
    BY <1>1, <2>1 DEF PassOn, Walk, Stops
  <2> QED
    BY <1>1, <2>2, PassOnStep
<1> QED
  BY <1>2, <1>3

LEMMA AnswerStep ==
    ASSUME Inv, NEW c \in Calls, Answer(c)
    PROVE  \E q : Outcome(c, q) /\ Spares(q)
<1>1. call[c].phase \notin {"idle", "pacing"}
  BY DEF Answer, Requesting
<1>2. /\ call' = [call EXCEPT ![c] = NoCall] /\ usage' = Counted(c) /\ asked' = asked
      /\ asked \in [Models -> 0 .. ProviderLimit + InFlight]
  BY DEF Answer, Inv, TypeOK
<1>3. Outcome(c, NoCall)
  BY <1>1, <1>2, NoCallTyped, CurrentType DEF NoCallType, Outcome
<1>4. Spares(NoCall)
  BY DEF NoCall, Spares
<1> QED
  BY <1>3, <1>4

LEMMA ErrorStep ==
    ASSUME Inv, NEW c \in Calls, Error(c)
    PROVE  \E q : Outcome(c, q) /\ Spares(q)
<1>1. /\ call[c].phase \notin {"idle", "pacing"} /\ cool' = cool /\ cool \in [Models -> Nat]
      /\ PassOn(c, cool, Counted(c))
  BY DEF Error, Requesting, Inv, TypeOK
<1>2. PassOn(c, cool', Counted(c))
  BY <1>1 DEF PassOn, Walk, Stops
<1>3. Counted(c) \in Usage
  BY <1>1, CurrentType
<1> QED
  BY <1>1, <1>2, <1>3, PassOnStep

LEMMA RateLimitedStep ==
    ASSUME Inv, NEW c \in Calls, RateLimited(c)
    PROVE  /\ \E q : Outcome(c, q) /\ Spares(q)
           /\ cool' \in [Models -> Nat]
<1>1. PICK d \in Cooldowns :
        /\ cool' = [cool EXCEPT ![Current(c)] = d]
        /\ IF call[c].phase = "requesting" /\ mode = "intelligent_pacing"
           THEN /\ call' = [call EXCEPT ![c].phase = "backoff", ![c].timer = Upto(d, MaxWait)]
                /\ usage' = Counted(c)
                /\ UNCHANGED asked
           ELSE PassOn(c, cool', Counted(c))
  BY DEF RateLimited
<1>2. /\ call[c].phase \notin {"idle", "pacing"}
      /\ call \in [Calls -> CallRecords] /\ Shaped(call[c]) /\ Heeds(call[c])
      /\ asked \in [Models -> 0 .. ProviderLimit + InFlight]
  BY DEF RateLimited, Requesting, Inv, TypeOK
<1>3. d \in Nat /\ MaxWait \in Nat
  BY RouterAssumption
<1>4. Counted(c) \in Usage /\ call[c] \in CallRecords
  BY <1>2, CurrentType
<1>5. cool' \in [Models -> Nat]
  BY <1>1, <1>3 DEF Inv, TypeOK
<1>6. CASE call[c].phase = "requesting" /\ mode = "intelligent_pacing"
  <2> DEFINE t == Upto(d, MaxWait)
             q == [call[c] EXCEPT !.phase = "backoff", !.timer = t]
  <2>1. t \in Nat
    <3>1. t \in 0 .. MaxWait
      BY <1>3, UptoLimit
    <3> QED
      BY <1>3, <3>1
  <2>2. call' = [call EXCEPT ![c] = q] /\ usage' = Counted(c) /\ asked' = asked
    BY <1>1, <1>2, <1>6
  <2> HIDE DEF t
  <2>3. /\ q \in CallRecords /\ q.phase = "backoff" /\ q.left = call[c].left
        /\ q.barred = call[c].barred /\ q.blocked = call[c].blocked
    BY <1>4, <2>1 DEF CallRecords, Phases
  <2> HIDE DEF q
  <2>4. Shaped(q) /\ Heeds(q)
    BY <1>2, <2>3 DEF Shaped, Heeds
  <2>5. Outcome(c, q)
    BY <1>2, <1>4, <2>2, <2>3, <2>4 DEF Outcome
  <2>6. Spares(q)
    BY <2>3 DEF Spares
  <2> QED
    BY <1>5, <2>5, <2>6
<1>7. CASE ~(call[c].phase = "requesting" /\ mode = "intelligent_pacing")
  <2>1. PassOn(c, cool', Counted(c))
    BY <1>1, <1>7
  <2> QED
    BY <1>2, <1>4, <1>5, <2>1, PassOnStep
<1> QED
  BY <1>6, <1>7

-----------------------------------------------------------------------------
(* The invariant.                                                          *)

\* What the invariant says of the state that calls share.
Ground ==
    /\ config \in Configs /\ mode \in Modes /\ manual \in Profiles \cup {NoProfile}
    /\ preferred \in 0 .. 2
    /\ cool \in [Models -> Nat] /\ pcool \in [Models -> 0 .. ProviderCooldown]
    /\ limited \in [Models -> 0 .. ProviderCooldown]
    /\ events \in 0 .. MaxEvents
    /\ \A m \in Models : limited[m] <= pcool[m]

LEMMA GroundOfInv == Inv => Ground
BY DEF Inv, TypeOK, Ground

LEMMA OutcomeKeepsInv ==
    ASSUME Inv, NEW c \in Calls, NEW q, Outcome(c, q), Ground'
    PROVE  Inv'
<1>1. call' \in [Calls -> CallRecords] /\ \A d \in Calls : Shaped(call'[d]) /\ Heeds(call'[d])
  BY DEF Outcome, Inv, TypeOK
<1>2. (\A d \in Calls : Shaped(call[d]) /\ Heeds(call[d]))'
  BY <1>1 DEF Shaped, Heeds
<1> QED
  BY <1>1, <1>2 DEF Outcome, Inv, TypeOK, Ground, InFlight

LEMMA CallStepGround ==
    ASSUME Inv, NEW c \in Calls, CallStep(c)
    PROVE  Ground'
<1> USE GroundOfInv
<1>1. CASE Paced(c)    BY <1>1 DEF Paced, Ground, setting
<1>2. CASE Waited(c)   BY <1>2 DEF Waited, Ground, setting
<1>3. CASE Answer(c)   BY <1>3 DEF Answer, Ground, setting
<1>4. CASE Error(c)    BY <1>4 DEF Error, Ground, setting
<1>5. CASE Retry(c)    BY <1>5 DEF Retry, Ground, setting
<1>6. CASE RateLimited(c)
  <2>1. cool' \in [Models -> Nat]
    BY <1>6, RateLimitedStep
  <2>2. /\ pcool' = [pcool EXCEPT ![Current(c)] = ProviderCooldown]
        /\ limited' = [limited EXCEPT ![Current(c)] = ProviderCooldown]
        /\ UNCHANGED <<config, mode, manual, preferred, events>>
    BY <1>6 DEF RateLimited, ProviderCooled, setting
  <2>3. ProviderCooldown \in 0 .. ProviderCooldown
    BY RouterAssumption
  <2>4. pcool \in [Models -> 0 .. ProviderCooldown] /\ limited \in [Models -> 0 .. ProviderCooldown]
    BY DEF Ground
  <2>5. /\ pcool' \in [Models -> 0 .. ProviderCooldown]
        /\ limited' \in [Models -> 0 .. ProviderCooldown]
    BY <2>2, <2>3, <2>4
  <2>6. ASSUME NEW m \in Models PROVE limited'[m] <= pcool'[m]
    <3>1. CASE m = Current(c)
      BY <2>2, <2>3, <2>4, <3>1
    <3>2. CASE m # Current(c)
      <4>1. limited'[m] = limited[m] /\ pcool'[m] = pcool[m]
        BY <2>2, <2>4, <3>2
      <4> QED
        BY <4>1 DEF Ground
    <3> QED
      BY <3>1, <3>2
  <2> QED
    BY <2>1, <2>2, <2>5, <2>6 DEF Ground
<1> QED
  BY <1>1, <1>2, <1>3, <1>4, <1>5, <1>6 DEF CallStep

LEMMA CallStepOutcome ==
    ASSUME Inv, NEW c \in Calls, CallStep(c)
    PROVE  \E q : Outcome(c, q) /\ Spares(q)
BY PacedStep, WaitedStep, AnswerStep, ErrorStep, RateLimitedStep, RetryStep DEF CallStep

LEMMA EventCount ==
    ASSUME Inv, Event
    PROVE  events' \in 0 .. MaxEvents
BY RouterAssumption DEF Event, Inv, TypeOK

LEMMA StartGround ==
    ASSUME Inv, NEW c \in Calls, NEW s \in Sessions, Start(c, s)
    PROVE  Ground'
<1>1. /\ pcool' = Armed /\ Event
      /\ UNCHANGED <<config, mode, manual, preferred, cool, limited>>
  BY DEF Start, setting
<1> QED
  BY <1>1, ArmedType, EventCount, GroundOfInv DEF Ground

\* The acts of the operators, the incident manager and the clock.
Outside ==
    \/ \E new \in Modes : SetFallbackMode(new)
    \/ \E new \in 0 .. 2 : SetPreferred(new)
    \/ \E new \in Profiles \cup {NoProfile} : SetManualProfile(new)
    \/ ResetPolicyState \/ Snapshot \/ Midnight \/ Restart \/ Tick

LEMMA OutsideKeepsInv ==
    ASSUME Inv, Outside
    PROVE  Inv' /\ \A c \in Calls : ~Sends(c)
<1> USE GroundOfInv
<1> DEFINE CallsKept == UNCHANGED <<call, usage, asked>>
<1>1. ASSUME CallsKept, Ground'
      PROVE  Inv' /\ \A c \in Calls : ~Sends(c)
  BY <1>1 DEF Inv, TypeOK, Ground, Shaped, Heeds, Usage, InFlight, Sends
<1>2. ASSUME NEW new \in Modes, SetFallbackMode(new)
      PROVE  CallsKept /\ Ground'
  BY <1>2, EventCount DEF SetFallbackMode, Ground
<1>3. ASSUME NEW new \in 0 .. 2, SetPreferred(new)
      PROVE  CallsKept /\ Ground'
  BY <1>3, EventCount DEF SetPreferred, Ground
<1>4. ASSUME NEW new \in Profiles \cup {NoProfile}, SetManualProfile(new)
      PROVE  CallsKept /\ Ground'
  BY <1>4, EventCount, ArmedType DEF SetManualProfile, Ground
<1>5. ASSUME ResetPolicyState
      PROVE  CallsKept /\ Ground'
  <2>1. ProviderCooldown \in Nat
    BY RouterAssumption
  <2> QED
    BY <1>5, <2>1, EventCount DEF ResetPolicyState, Ground
<1>6. ASSUME Snapshot
      PROVE  CallsKept /\ Ground'
  BY <1>6, EventCount, ArmedType DEF Snapshot, Ground, setting
<1>7. ASSUME Midnight
      PROVE  Inv' /\ \A c \in Calls : ~Sends(c)
  <2>1. Ground' /\ UNCHANGED call
    BY <1>7, EventCount DEF Midnight, Ground, setting
  <2>2. ProviderLimit \in Nat /\ DailyLimit \in Nat /\ ProviderLimit + InFlight \in Nat
    BY RouterAssumption, InFlightType
  <2>3. usage' = [usage EXCEPT !.today = [m \in Models |-> 0], !.day = 0]
    BY <1>7 DEF Midnight
  <2>4. usage' \in Usage
    <3>1. usage \in [today : [Models -> 0 .. ProviderLimit], day : 0 .. DailyLimit,
                     total : [Sessions -> 0 .. SessionLimit]]
      BY DEF Usage, Inv, TypeOK
    <3>2. /\ [m \in Models |-> 0] \in [Models -> 0 .. ProviderLimit]
          /\ 0 \in 0 .. DailyLimit
      BY <2>2
    <3> QED
      BY <2>3, <3>1, <3>2 DEF Usage
  <2>5. asked' \in [Models -> 0 .. ProviderLimit + InFlight]
    BY <1>7, <2>2 DEF Midnight
  <2> QED
    BY <2>1, <2>4, <2>5 DEF Inv, TypeOK, Ground, Shaped, Heeds, Usage, InFlight, Sends
<1>8. ASSUME Restart
      PROVE  Inv' /\ \A c \in Calls : ~Sends(c)
  <2>1. Ground'
    <3>1. 0 \in 0 .. ProviderCooldown
      BY RouterAssumption
    <3> QED
      BY <1>8, <3>1, EventCount DEF Restart, Ground
  <2>2. call' = [c \in Calls |-> NoCall] /\ usage' = usage /\ asked' = [m \in Models |-> 0]
    BY <1>8 DEF Restart
  <2>3. ProviderLimit + InFlight \in Nat
    BY RouterAssumption, InFlightType
  <2>4. asked' \in [Models -> 0 .. ProviderLimit + InFlight]
    BY <2>2, <2>3
  <2>5. call' \in [Calls -> CallRecords] /\ \A c \in Calls : Shaped(call'[c]) /\ Heeds(call'[c])
    BY <2>2, NoCallTyped DEF NoCallType
  <2>6. (\A c \in Calls : Shaped(call[c]) /\ Heeds(call[c]))'
    BY <2>5 DEF Shaped, Heeds
  <2>7. \A c \in Calls : ~Sends(c)
    BY <2>2 DEF Sends, NoCall
  <2> QED
    BY <2>1, <2>2, <2>4, <2>5, <2>6, <2>7 DEF Inv, TypeOK, Ground, Usage, InFlight
<1>9. ASSUME Tick
      PROVE  Inv' /\ \A c \in Calls : ~Sends(c)
  <2>1. Ground'
    BY <1>9, RouterAssumption DEF Tick, Less, Ground, setting
  <2>2. /\ call' = [c \in Calls |-> [call[c] EXCEPT !.timer = Less(@)]]
        /\ usage' = usage /\ asked' = asked
    BY <1>9 DEF Tick
  <2>3. ASSUME NEW c \in Calls
        PROVE  /\ call'[c] \in CallRecords /\ Shaped(call'[c]) /\ Heeds(call'[c])
               /\ call'[c].phase = call[c].phase /\ call'[c].left = call[c].left
    <3> DEFINE t == Less(call[c].timer)
    <3>1. call[c] \in CallRecords /\ Shaped(call[c]) /\ Heeds(call[c])
      BY DEF Inv, TypeOK
    <3>2. t \in Nat /\ (t > 0 => call[c].timer > 0)
      BY <3>1 DEF Less, CallRecords
    <3>3. call'[c] = [call[c] EXCEPT !.timer = t]
      BY <2>2
    <3> HIDE DEF t
    <3> DEFINE q == call'[c]
    <3>4. /\ q \in CallRecords /\ q.phase = call[c].phase /\ q.left = call[c].left
          /\ q.barred = call[c].barred /\ q.blocked = call[c].blocked /\ q.timer = t
      BY <3>1, <3>2, <3>3 DEF CallRecords
    <3> HIDE DEF q
    <3>5. Shaped(q) /\ Heeds(q)
      BY <3>1, <3>2, <3>4 DEF Shaped, Heeds
    <3> QED
      BY <3>4, <3>5 DEF q
  <2>4. call' \in [Calls -> CallRecords]
    BY <2>2, <2>3
  <2>5. (\A c \in Calls : Shaped(call[c]) /\ Heeds(call[c]))'
    BY <2>3 DEF Shaped, Heeds
  <2>6. \A c \in Calls : ~Sends(c)
    BY <2>3 DEF Sends
  <2> QED
    BY <2>1, <2>2, <2>4, <2>5, <2>6 DEF Inv, TypeOK, Ground, Usage, InFlight
<1> QED
  BY <1>1, <1>2, <1>3, <1>4, <1>5, <1>6, <1>7, <1>8, <1>9 DEF Outside

\* A step keeps the invariant, and what it sends goes to a model that does not
\* cool and that the call is not barred from.
LEMMA Step ==
    ASSUME Inv, [Next]_vars
    PROVE  /\ Inv'
           /\ \A c \in Calls : Sends(c) => /\ cool'[Head(call'[c].left)] = 0
                                           /\ Head(call'[c].left) \notin call'[c].barred
<1>1. ASSUME NEW d \in Calls, NEW q, Outcome(d, q), Spares(q), Ground'
      PROVE  /\ Inv'
             /\ \A c \in Calls : Sends(c) => /\ cool'[Head(call'[c].left)] = 0
                                             /\ Head(call'[c].left) \notin call'[c].barred
  <2>1. Inv'
    BY <1>1, OutcomeKeepsInv
  <2>2. ASSUME NEW c \in Calls, Sends(c)
        PROVE  /\ cool'[Head(call'[c].left)] = 0
               /\ Head(call'[c].left) \notin call'[c].barred
    <3>1. c = d
      BY <1>1, <2>2 DEF Outcome, Sends, Inv, TypeOK
    <3>2. call'[c] = q
      BY <1>1, <3>1 DEF Outcome, Inv, TypeOK
    <3>3. q.phase \in {"requesting", "retrying"}
      BY <2>2, <3>2 DEF Sends
    <3>4. cool'[Head(q.left)] = 0
      BY <1>1, <3>3 DEF Spares
    <3>5. Head(q.left) \notin q.barred
      BY <1>1, <3>3 DEF Outcome, Heeds
    <3> QED
      BY <3>2, <3>4, <3>5
  <2> QED
    BY <2>1, <2>2
<1>2. CASE \E d \in Calls : CallStep(d)
  BY <1>1, <1>2, CallStepOutcome, CallStepGround
<1>3. CASE \E d \in Calls : \E s \in Sessions : Start(d, s)
  BY <1>1, <1>3, StartStep, StartGround
<1>4. CASE Outside
  BY <1>4, OutsideKeepsInv
<1>5. CASE UNCHANGED vars
  <2>1. UNCHANGED <<config, mode, manual, preferred, cool, pcool, usage, call, limited,
                    asked, events>>
    BY <1>5 DEF vars, setting
  <2>2. Inv'
    BY <2>1 DEF Inv, TypeOK, Shaped, Heeds, Usage, InFlight
  <2>3. \A c \in Calls : ~Sends(c)
    BY <2>1 DEF Sends
  <2> QED
    BY <2>2, <2>3
<1> QED
  BY <1>2, <1>3, <1>4, <1>5 DEF Next, Outside

LEMMA Initially == Init => Inv
<1> SUFFICES ASSUME Init PROVE Inv
  OBVIOUS
<1>1. /\ ProviderCooldown \in Nat /\ ProviderLimit + InFlight \in Nat /\ MaxEvents \in Nat
      /\ ProviderLimit \in Nat /\ DailyLimit \in Nat /\ SessionLimit \in Nat
  BY RouterAssumption, InFlightType
<1>2. call \in [Calls -> CallRecords] /\ \A c \in Calls : Shaped(call[c]) /\ Heeds(call[c])
  BY NoCallTyped DEF Init, NoCallType
<1>3. usage \in Usage
  BY <1>1 DEF Init, Usage
<1>4. /\ cool \in [Models -> Nat] /\ pcool \in [Models -> 0 .. ProviderCooldown]
      /\ limited \in [Models -> 0 .. ProviderCooldown]
      /\ asked \in [Models -> 0 .. ProviderLimit + InFlight]
      /\ events \in 0 .. MaxEvents /\ \A m \in Models : limited[m] <= pcool[m]
  BY <1>1 DEF Init
<1> QED
  BY <1>2, <1>3, <1>4 DEF Init, Inv, TypeOK

\* However completions interleave, a call keeps to its directive and to what it was barred from,
\* and a provider cools down at least as long as its last 429 asks.
THEOREM Invariance == Spec => []Inv
BY Initially, Step, PTL DEF Spec

\* The state has its shape.
THEOREM TypeCorrect == Spec => []TypeOK
<1>1. Inv => TypeOK
  BY DEF Inv
<1> QED
  BY Invariance, <1>1, PTL

\* No request goes to a model whose cooldown runs.
THEOREM CoolingModelIsSpared == Spec => CoolingModelSpared
<1>1. Inv /\ [Next]_vars => [\A c \in Calls : Sends(c) => cool'[Head(call'[c].left)] = 0]_vars
  BY Step
<1> QED
  BY Invariance, <1>1, PTL DEF Spec, CoolingModelSpared

\* A call never asks a provider that was over its limit, or limited less than a
\* cooldown before, when the call started.
THEOREM BarredProviderIsSpared == Spec => BarredProviderSpared
<1>1. Inv /\ [Next]_vars =>
        [\A c \in Calls : Sends(c) => Head(call'[c].left) \notin call'[c].barred]_vars
  BY Step
<1> QED
  BY Invariance, <1>1, PTL DEF Spec, BarredProviderSpared

-----------------------------------------------------------------------------
(* By how much a provider can be over its limit.                           *)
(*                                                                         *)
(* While its count is below the limit, the requests that were sent and are *)
(* not counted are under way, one a call.  From then on no call starts that*)
(* may ask it, and each call under way has at most two requests left: what *)
(* was asked and what can still be asked stay below the bound together.    *)

Distinct(s) == \A i, j \in DOMAIN s : s[i] = s[j] => i = j

\* A call with the record r has m, unblocked, before it: two requests.
Twice(r, m) ==
    /\ m \notin r.blocked
    /\ \/ r.phase = "pacing"
       \/ \E i \in DOMAIN r.left : r.left[i] = m /\ (i > 1 \/ r.phase = "waiting")

\* It can still send one.
OnceMore(r, m) ==
    Twice(r, m) \/ (r.phase \in {"requesting", "backoff"} /\ Head(r.left) = m)

Asking(r, m) == r.phase \in {"requesting", "retrying"} /\ Head(r.left) = m

Askers(m) == {c \in Calls : Asking(call[c], m)}
WithOne(m) == {c \in Calls : OnceMore(call[c], m)}
WithTwo(m) == {c \in Calls : Twice(call[c], m)}

Within(m) ==
    /\ usage.today[m] < ProviderLimit =>
         asked[m] <= usage.today[m] + Cardinality(Askers(m))
    /\ usage.today[m] = ProviderLimit =>
         asked[m] + Cardinality(WithOne(m)) + Cardinality(WithTwo(m))
           <= ProviderLimit - 1 + InFlight

\* The models a call has before it differ, and every provider keeps its bound.
Bounded ==
    /\ \A c \in Calls : Distinct(call[c].left)
    /\ \A m \in Models : Within(m)

\* A walk along left with the record r may stop at m.
Eligible(r, left, m) == m \notin r.blocked /\ \E i \in DOMAIN left : left[i] = m

CountUpto(n) == Upto(n + 1, ProviderLimit)

\* What a walk of the record r that ends in the record q does to m, u[m] being
\* its count when it begins: it sends m nothing, or counts m without asking it, or
\* sends it a request.
Walked(r, left, q, m, u) ==
    /\ OnceMore(q, m) => Eligible(r, left, m)
    /\ \/ asked'[m] = asked[m] /\ usage'.today[m] = u.today[m] /\ ~Asking(q, m)
       \/ /\ asked'[m] = asked[m] /\ usage'.today[m] = CountUpto(u.today[m])
          /\ ~OnceMore(q, m) /\ ~Asking(q, m) /\ \E i \in DOMAIN left : left[i] = m
       \/ /\ asked'[m] = Upto(asked[m] + 1, ProviderLimit + InFlight)
          /\ usage'.today[m] = u.today[m]
          /\ Asking(q, m) /\ ~Twice(q, m) /\ Eligible(r, left, m)

LEMMA NoCallAsksNothing ==
    ASSUME NEW m
    PROVE  ~Twice(NoCall, m) /\ ~OnceMore(NoCall, m) /\ ~Asking(NoCall, m) /\ Distinct(NoCall.left)
<1>1. NoCall.left = <<>> /\ NoCall.phase = "idle"
  BY DEF NoCall
<1>2. DOMAIN NoCall.left = {}
  BY <1>1
<1> QED
  BY <1>1, <1>2 DEF Twice, OnceMore, Asking, Distinct

\* What is left of a walk from its stop k on.
FromStop(rest, left, k) ==
    /\ Head(rest) = left[k] /\ Distinct(rest) /\ 1 \in DOMAIN rest
    /\ \A i \in DOMAIN rest : k + i - 1 \in DOMAIN left /\ rest[i] = left[k + i - 1]
    /\ rest[1] = left[k]

LEMMA RestOfChain ==
    ASSUME NEW left \in Seq(Models), Distinct(left), NEW k \in 1 .. Len(left),
           NEW rest, rest = SubSeq(left, k, Len(left))
    PROVE  FromStop(rest, left, k)
<1>1. Len(left) \in Nat /\ k \in Nat /\ DOMAIN left = 1 .. Len(left)
  OBVIOUS
<1>2. /\ rest \in Seq(Models) /\ Len(rest) = Len(left) - k + 1
      /\ \A i \in 1 .. Len(left) - k + 1 : rest[i] = left[k + i - 1]
  BY <1>1, SubSeqProperties
<1>3. DOMAIN rest = 1 .. Len(left) - k + 1
  BY <1>1, <1>2
<1>4. 1 \in DOMAIN rest /\ rest[1] = left[k] /\ Head(rest) = left[k]
  <2>1. 1 \in 1 .. Len(left) - k + 1 /\ k + 1 - 1 = k
    BY <1>1
  <2>2. Len(rest) # 0
    BY <1>1, <1>2
  <2>3. rest # <<>>
    BY <2>2
  <2>4. Head(rest) = rest[1]
    BY <1>2, <2>3
  <2> QED
    BY <1>2, <1>3, <2>1, <2>4
<1>5. \A i \in DOMAIN rest : k + i - 1 \in DOMAIN left /\ rest[i] = left[k + i - 1]
  BY <1>1, <1>2, <1>3
<1>6. Distinct(rest)
  <2> SUFFICES ASSUME NEW i \in DOMAIN rest, NEW j \in DOMAIN rest, rest[i] = rest[j]
               PROVE  i = j
    BY DEF Distinct
  <2>1. k + i - 1 = k + j - 1
    BY <1>5 DEF Distinct
  <2> QED
    BY <1>1, <1>3, <2>1
<1> QED
  BY <1>4, <1>5, <1>6 DEF FromStop

\* At its stop, a call has before it what the walk may still stop at.
LEMMA AtStop ==
    ASSUME NEW r \in CallRecords, NEW left \in Seq(Models), Distinct(left),
           NEW k \in 1 .. Len(left), left[k] \notin r.blocked,
           NEW phase \in {"waiting", "requesting"}, NEW timer, NEW m \in Models,
           NEW q, q = At(r, phase, SubSeq(left, k, Len(left)), timer)
    PROVE  /\ Distinct(q.left)
           /\ OnceMore(q, m) => Eligible(r, left, m)
           /\ m = left[k] /\ phase = "requesting" =>
                Asking(q, m) /\ ~Twice(q, m) /\ Eligible(r, left, m)
           /\ phase = "waiting" \/ m # left[k] => ~Asking(q, m)
           /\ m \in r.blocked => ~OnceMore(q, m) /\ ~Asking(q, m)
<1>0. PICK rest : rest = SubSeq(left, k, Len(left))
  OBVIOUS
<1>1. /\ q.phase = phase /\ q.left = rest /\ q.blocked = r.blocked \cap Range(rest)
  BY <1>0 DEF At, CallRecords
<1>2. /\ Head(rest) = left[k] /\ Distinct(rest) /\ 1 \in DOMAIN rest
      /\ \A i \in DOMAIN rest : k + i - 1 \in DOMAIN left /\ rest[i] = left[k + i - 1]
      /\ rest[1] = left[k]
  <2>1. FromStop(rest, left, k)
    BY <1>0, RestOfChain
  <2> QED
    BY <2>1 DEF FromStop
<1>3. \A i \in DOMAIN rest : rest[i] \in Range(rest)
  BY DEF Range
<1>4. Twice(q, m) => Eligible(r, left, m)
  <2> SUFFICES ASSUME Twice(q, m) PROVE Eligible(r, left, m)
    OBVIOUS
  <2>1. PICK i \in DOMAIN rest : rest[i] = m
    BY <1>1 DEF Twice
  <2> QED
    BY <1>1, <1>2, <1>3, <2>1 DEF Twice, Eligible
<1>5. k \in DOMAIN left
  OBVIOUS
<1>6. Eligible(r, left, left[k])
  BY <1>5 DEF Eligible
<1>7. OnceMore(q, m) => Eligible(r, left, m)
  BY <1>1, <1>2, <1>4, <1>6 DEF OnceMore
<1>8. ~(m = left[k] /\ phase = "requesting" /\ Twice(q, m))
  <2> SUFFICES ASSUME m = left[k], phase = "requesting", Twice(q, m) PROVE FALSE
    OBVIOUS
  <2>1. PICK i \in DOMAIN rest : rest[i] = m /\ i > 1
    BY <1>1 DEF Twice
  <2>2. i = 1
    BY <1>2, <2>1 DEF Distinct
  <2> QED
    BY <2>1, <2>2
<1>9. Asking(q, m) <=> (phase = "requesting" /\ m = left[k])
  BY <1>1, <1>2 DEF Asking
<1> QED
  BY <1>1, <1>2, <1>6, <1>7, <1>8, <1>9 DEF Eligible

LEMMA RecordedToday ==
    ASSUME NEW u, NEW s, NEW ms, NEW m \in Models
    PROVE  Recorded(u, s, ms).today[m] = IF m \in ms THEN CountUpto(u.today[m]) ELSE u.today[m]
BY DEF Recorded, CountUpto

LEMMA AskedOnce ==
    ASSUME TypeOK, NEW n \in Models, NEW m \in Models
    PROVE  Asked(n)[m] = IF m = n THEN Upto(asked[m] + 1, ProviderLimit + InFlight) ELSE asked[m]
BY DEF Asked, TypeOK

LEMMA WalkWalks ==
    ASSUME TypeOK, NEW c \in Calls, NEW r \in CallRecords,
           NEW left \in Seq(Models), Len(left) <= 3, Distinct(left),
           NEW cooling \in [Models -> Nat], NEW u,
           Walk(c, r, left, cooling, u), NEW m \in Models
    PROVE  /\ call' = [call EXCEPT ![c] = call'[c]] /\ Distinct(call'[c].left)
           /\ Walked(r, left, call'[c], m, u)
<1> DEFINE stops == {i \in DOMAIN left : Stops(r, left[i], cooling)}
           k     == Min(stops \cup {Len(left) + 1})
           n     == left[k]
           rest  == SubSeq(left, k, Len(left))
           ms    == {left[i] : i \in 1 .. k - 1} \cap r.blocked
           wait  == At(r, "waiting", rest, Upto(cooling[n], MaxWait))
           next  == At(r, "requesting", rest, 0)
<1>1. /\ usage' = Recorded(u, r.session, ms)
      /\ IF stops = {} THEN call' = [call EXCEPT ![c] = NoCall] /\ UNCHANGED asked
         ELSE IF cooling[n] > 0
         THEN call' = [call EXCEPT ![c] = wait] /\ UNCHANGED asked
         ELSE call' = [call EXCEPT ![c] = next] /\ asked' = Asked(n)
  BY DEF Walk
<1>2. call \in [Calls -> CallRecords]
  BY DEF TypeOK
<1>3. stops \in SUBSET (1 .. Len(left)) /\ Len(left) \in 0 .. 3 /\ DOMAIN left = 1 .. Len(left)
  <2>1. DOMAIN left = 1 .. Len(left) /\ Len(left) \in Nat
    OBVIOUS
  <2> QED
    BY <2>1
<1>4. k \in stops \cup {Len(left) + 1} /\ (stops # {} => k \in stops)
  <2> HIDE DEF stops
  <2> QED
    BY <1>3, FirstStop
<1>5. k \in 1 .. Len(left) + 1
  <2> HIDE DEF k, stops
  <2> QED
    BY <1>3, <1>4
<1>6. usage'.today[m] = IF m \in ms THEN CountUpto(u.today[m]) ELSE u.today[m]
  <2> HIDE DEF ms
  <2> QED
    BY <1>1, RecordedToday
<1>7. m \in ms => m \in r.blocked /\ \E i \in DOMAIN left : left[i] = m
  <2> HIDE DEF k
  <2>1. 1 .. k - 1 \subseteq DOMAIN left
    BY <1>3, <1>5
  <2> QED
    BY <2>1
<1> HIDE DEF ms
<1>8. CASE stops = {}
  <2>1. call' = [call EXCEPT ![c] = NoCall] /\ asked' = asked
    BY <1>1, <1>8
  <2>2. call'[c] = NoCall
    BY <1>2, <2>1
  <2>3. Walked(r, left, NoCall, m, u)
    <3>1. asked'[m] = asked[m]
      BY <2>1
    <3> QED
      BY <1>6, <1>7, <3>1, NoCallAsksNothing DEF Walked
  <2> QED
    BY <2>1, <2>2, <2>3, NoCallAsksNothing
<1>9. CASE stops # {}
  <2>1. k \in 1 .. Len(left) /\ n \in Models /\ n \notin r.blocked
    <3>1. k \in stops
      BY <1>4, <1>9
    <3>2. k \in 1 .. Len(left) /\ Stops(r, left[k], cooling)
      BY <3>1
    <3> HIDE DEF k
    <3> QED
      BY <3>2 DEF Stops
  <2> HIDE DEF stops, k
  <2>2. CASE cooling[n] > 0
    <3>6. call' = [call EXCEPT ![c] = wait] /\ asked' = asked
      BY <1>1, <1>9, <2>2
    <3>1. PICK t : t = Upto(cooling[n], MaxWait)
      OBVIOUS
    <3>2. wait = At(r, "waiting", rest, t)
      BY <3>1
    <3> HIDE DEF wait
    <3>3. /\ Distinct(wait.left) /\ (OnceMore(wait, m) => Eligible(r, left, m))
          /\ ~Asking(wait, m) /\ (m \in r.blocked => ~OnceMore(wait, m))
      BY <2>1, <3>2, AtStop
    <3>4. call'[c] = wait
      BY <1>2, <3>6
    <3>5. Walked(r, left, wait, m, u)
      BY <1>6, <1>7, <3>3, <3>6 DEF Walked
    <3> QED
      BY <3>3, <3>4, <3>5, <3>6
  <2>3. CASE ~(cooling[n] > 0)
    <3>1. call' = [call EXCEPT ![c] = next] /\ asked' = Asked(n)
      BY <1>1, <1>9, <2>3
    <3>2. PICK t \in Nat : t = 0
      OBVIOUS
    <3>3. next = At(r, "requesting", rest, t)
      BY <3>2
    <3> HIDE DEF next
    <3>4. /\ Distinct(next.left) /\ (OnceMore(next, m) => Eligible(r, left, m))
          /\ m = n => Asking(next, m) /\ ~Twice(next, m) /\ Eligible(r, left, m)
          /\ m # n => ~Asking(next, m)
          /\ m \in r.blocked => ~OnceMore(next, m) /\ ~Asking(next, m)
      BY <2>1, <3>3, AtStop
    <3>5. call'[c] = next
      BY <1>2, <3>1
    <3>6. asked'[m] = IF m = n THEN Upto(asked[m] + 1, ProviderLimit + InFlight) ELSE asked[m]
      BY <2>1, <3>1, AskedOnce
    <3>7. Walked(r, left, next, m, u)
      <4>1. CASE m = n
        <5>1. m \notin ms
          BY <1>7, <2>1, <4>1
        <5> QED
          BY <1>6, <3>4, <3>6, <4>1, <5>1 DEF Walked
      <4>2. CASE m # n
        BY <1>6, <1>7, <3>4, <3>6, <4>2 DEF Walked
      <4> QED
        BY <4>1, <4>2
    <3> QED
      BY <3>1, <3>4, <3>5, <3>7
  <2> QED
    BY <2>2, <2>3
<1> QED
  BY <1>8, <1>9

\* What a step of the call c does to m: it leaves m's count and requests alone, or
\* counts a request, or sends one.  Nothing gives c more requests to m than it had
\* when m is at its limit.
Turn(c, m) ==
    /\ call' = [call EXCEPT ![c] = call'[c]] /\ Distinct(call'[c].left)
    /\ usage.today[m] = ProviderLimit =>
         /\ OnceMore(call'[c], m) => OnceMore(call[c], m)
         /\ Twice(call'[c], m) => Twice(call[c], m)
    /\ \/ /\ asked'[m] = asked[m] /\ usage'.today[m] = usage.today[m]
          /\ Asking(call[c], m) => Asking(call'[c], m)
       \/ /\ asked'[m] = asked[m] /\ usage'.today[m] = CountUpto(usage.today[m])
          /\ ~Twice(call'[c], m)
       \/ /\ asked'[m] = Upto(asked[m] + 1, ProviderLimit + InFlight)
          /\ usage'.today[m] = usage.today[m]
          /\ ~Asking(call[c], m) /\ Asking(call'[c], m) /\ ~Twice(call'[c], m)
          /\ usage.today[m] = ProviderLimit =>
               Twice(call[c], m) \/ (OnceMore(call[c], m) /\ ~OnceMore(call'[c], m))

\* A set that differs from S in c at most.
LEMMA SizesNearby ==
    ASSUME NEW S \in SUBSET Calls, NEW T \in SUBSET Calls, NEW c \in Calls,
           S \ {c} = T \ {c}
    PROVE  /\ Cardinality(S) \in Nat /\ Cardinality(T) \in Nat
           /\ Cardinality(T) >= Cardinality(S) - 1
           /\ (c \in T => c \in S) => Cardinality(T) <= Cardinality(S)
           /\ c \in S /\ c \notin T => Cardinality(T) = Cardinality(S) - 1
           /\ c \notin S /\ c \in T => Cardinality(T) = Cardinality(S) + 1
<1>1. IsFiniteSet(S) /\ IsFiniteSet(T)
  BY FS_Subset, RouterAssumption
<1>2. Cardinality(S) \in Nat /\ Cardinality(T) \in Nat
  BY <1>1, FS_CardinalityType
<1>3. CASE c \in S /\ c \notin T
  <2>1. T = S \ {c}
    BY <1>3
  <2>2. Cardinality(T) = Cardinality(S) - 1
    BY <1>1, <1>3, <2>1, FS_RemoveElement
  <2> QED
    BY <1>2, <1>3, <2>2
<1>4. CASE c \notin S /\ c \in T
  <2>1. T = S \cup {c}
    BY <1>4
  <2>2. Cardinality(T) = Cardinality(S) + 1
    BY <1>1, <1>4, <2>1, FS_AddElement
  <2> QED
    BY <1>2, <1>4, <2>2
<1>5. CASE (c \in S) <=> (c \in T)
  <2>1. S = T
    BY <1>5
  <2> QED
    BY <1>2, <1>5, <2>1
<1> QED
  BY <1>3, <1>4, <1>5

\* A call asks a provider or has two requests left for it, not both.
LEMMA AskingHasOne ==
    ASSUME NEW r, r.left \in Seq(Models), r.left # <<>>, Distinct(r.left), NEW m, Asking(r, m)
    PROVE  ~Twice(r, m)
<1>1. r.phase \in {"requesting", "retrying"}
  BY DEF Asking
<1>2. 1 \in DOMAIN r.left /\ r.left[1] = m
  BY <1>1 DEF Asking
<1> SUFFICES ASSUME Twice(r, m) PROVE FALSE
  OBVIOUS
<1>3. PICK i \in DOMAIN r.left : r.left[i] = m /\ i > 1
  BY <1>1 DEF Twice
<1>4. i = 1
  BY <1>2, <1>3 DEF Distinct
<1> QED
  BY <1>3, <1>4

LEMMA TurnWithin ==
    ASSUME Inv, Bounded, NEW c \in Calls, NEW m \in Models, Turn(c, m)
    PROVE  Within(m)'
<1> DEFINE R == Askers(m)    A == WithOne(m)    B == WithTwo(m)
           T == usage.today[m]  L == ProviderLimit
<1>1. /\ R \in SUBSET Calls /\ A \in SUBSET Calls /\ B \in SUBSET Calls
      /\ R' \in SUBSET Calls /\ A' \in SUBSET Calls /\ B' \in SUBSET Calls
  BY DEF Askers, WithOne, WithTwo
<1>2. \A d \in Calls : d # c => call'[d] = call[d]
  BY DEF Turn, Inv, TypeOK
<1>3. /\ c \in R <=> Asking(call[c], m)
      /\ c \in R' <=> Asking(call'[c], m)
      /\ c \in A <=> OnceMore(call[c], m)
      /\ c \in A' <=> OnceMore(call'[c], m)
      /\ c \in B <=> Twice(call[c], m)
      /\ c \in B' <=> Twice(call'[c], m)
  BY DEF Askers, WithOne, WithTwo
<1>4. R \ {c} = R' \ {c} /\ A \ {c} = A' \ {c} /\ B \ {c} = B' \ {c}
  BY <1>2 DEF Askers, WithOne, WithTwo
<1>5. \A d \in R : d \notin B
  <2> SUFFICES ASSUME NEW d \in R PROVE d \notin B
    OBVIOUS
  <2>1. d \in Calls /\ Asking(call[d], m)
    BY DEF Askers
  <2>2. call[d].left \in Seq(Models) /\ call[d].left # <<>> /\ Distinct(call[d].left)
    BY <2>1 DEF Inv, TypeOK, CallRecords, Shaped, Asking, Bounded
  <2> QED
    BY <2>1, <2>2, AskingHasOne DEF WithTwo
<1>6. T \in 0 .. L /\ L \in Nat \ {0} /\ asked[m] \in Nat
  <2>1. usage \in Usage /\ asked \in [Models -> 0 .. ProviderLimit + InFlight]
    BY DEF Inv, TypeOK
  <2>2. ProviderLimit + InFlight \in Nat /\ ProviderLimit \in Nat \ {0}
    BY RouterAssumption, InFlightType
  <2> QED
    BY <2>1, <2>2 DEF Usage
<1>7. /\ T < L => asked[m] <= T + Cardinality(R)
      /\ T = L => asked[m] + Cardinality(A) + Cardinality(B) <= L - 1 + InFlight
  BY DEF Bounded, Within
<1>8. /\ Cardinality(Calls) \in Nat /\ InFlight = 2 * Cardinality(Calls)
      /\ Cardinality(A') <= Cardinality(Calls)
  BY <1>1, FS_Subset, FS_CardinalityType, RouterAssumption DEF InFlight
<1>9. /\ Cardinality(R) \in Nat /\ Cardinality(R') \in Nat
      /\ Cardinality(A) \in Nat /\ Cardinality(A') \in Nat
      /\ Cardinality(B) \in Nat /\ Cardinality(B') \in Nat
  BY <1>1, <1>4, SizesNearby
<1>10. Within(m)' <=> /\ T' < L => asked'[m] <= T' + Cardinality(R')
                      /\ T' = L => asked'[m] + Cardinality(A') + Cardinality(B') <= L - 1 + InFlight
  BY DEF Within, InFlight
<1>11. CASE asked'[m] = asked[m] /\ T' = T /\ (c \in R => c \in R')
  <2>1. Cardinality(R) <= Cardinality(R')
    BY <1>1, <1>4, <1>11, SizesNearby
  <2>2. T = L => Cardinality(A') <= Cardinality(A) /\ Cardinality(B') <= Cardinality(B)
    <3>1. T = L => (c \in A' => c \in A) /\ (c \in B' => c \in B)
      BY <1>3 DEF Turn
    <3> QED
      BY <1>1, <1>4, <3>1, SizesNearby
  <2> HIDE DEF R, A, B, T, L
  <2> QED
    BY <1>6, <1>7, <1>8, <1>9, <1>10, <1>11, <2>1, <2>2
<1>12. CASE asked'[m] = asked[m] /\ T' = CountUpto(T) /\ c \notin B'
  <2>1. Cardinality(R') >= Cardinality(R) - 1
    BY <1>1, <1>4, SizesNearby
  <2>2. T' = IF T + 1 < L THEN T + 1 ELSE L
    BY <1>12 DEF CountUpto, Upto
  <2>3. T = L => Cardinality(A') <= Cardinality(A) /\ Cardinality(B') <= Cardinality(B)
    <3>1. T = L => (c \in A' => c \in A) /\ (c \in B' => c \in B)
      BY <1>3 DEF Turn
    <3> QED
      BY <1>1, <1>4, <3>1, SizesNearby
  <2>4. Cardinality(R) + Cardinality(B') <= Cardinality(Calls)
    <3>1. R \cap B' = {}
      BY <1>4, <1>5, <1>12
    <3>2. IsFiniteSet(R) /\ IsFiniteSet(B')
      BY <1>1, FS_Subset, RouterAssumption
    <3>3. Cardinality(R \cup B') = Cardinality(R) + Cardinality(B') - Cardinality(R \cap B')
      BY <3>2, FS_Union
    <3>4. Cardinality(R \cap B') = 0
      BY <3>1, FS_EmptySet
    <3>5. R \cup B' \in SUBSET Calls
      BY <1>1
    <3>6. Cardinality(R \cup B') <= Cardinality(Calls)
      BY <3>5, FS_Subset, RouterAssumption
    <3> QED
      BY <1>9, <3>3, <3>4, <3>6
  <2> HIDE DEF R, A, B, T, L
  <2>5. CASE T = L
    BY <1>6, <1>7, <1>8, <1>9, <1>10, <1>12, <2>2, <2>3, <2>5
  <2>6. CASE T + 1 = L
    BY <1>6, <1>7, <1>8, <1>9, <1>10, <1>12, <2>2, <2>4, <2>6
  <2>7. CASE T + 1 < L
    BY <1>6, <1>7, <1>8, <1>9, <1>10, <1>12, <2>1, <2>2, <2>7
  <2> QED
    BY <1>6, <2>5, <2>6, <2>7
<1>13. CASE /\ asked'[m] = Upto(asked[m] + 1, ProviderLimit + InFlight) /\ T' = T
            /\ c \notin R /\ c \in R' /\ c \notin B'
            /\ T = L => c \in B \/ (c \in A /\ c \notin A')
  <2>1. asked'[m] <= asked[m] + 1 /\ asked'[m] \in Nat
    <3>1. ProviderLimit + InFlight \in Nat
      BY RouterAssumption, InFlightType
    <3> QED
      BY <1>6, <1>13, <3>1 DEF Upto
  <2>2. Cardinality(R') = Cardinality(R) + 1
    BY <1>1, <1>4, <1>13, SizesNearby
  <2>3. T = L => Cardinality(A') + Cardinality(B') <= Cardinality(A) + Cardinality(B) - 1
    <3> SUFFICES ASSUME T = L
                 PROVE  Cardinality(A') + Cardinality(B') <= Cardinality(A) + Cardinality(B) - 1
      OBVIOUS
    <3>1. c \in A' => c \in A
      BY <1>3 DEF Turn
    <3>2. Cardinality(A') <= Cardinality(A) /\ Cardinality(B') <= Cardinality(B)
      BY <1>1, <1>4, <1>13, <3>1, SizesNearby
    <3>3. CASE c \in B
      <4>1. Cardinality(B') = Cardinality(B) - 1
        BY <1>1, <1>4, <1>13, <3>3, SizesNearby
      <4> HIDE DEF A, B
      <4> QED
        BY <1>9, <3>2, <4>1
    <3>4. CASE c \in A /\ c \notin A'
      <4>1. Cardinality(A') = Cardinality(A) - 1
        BY <1>1, <1>4, <3>4, SizesNearby
      <4> HIDE DEF A, B
      <4> QED
        BY <1>9, <3>2, <4>1
    <3> QED
      BY <1>13, <3>3, <3>4
  <2> HIDE DEF R, A, B, T, L
  <2> QED
    BY <1>6, <1>7, <1>8, <1>9, <1>10, <1>13, <2>1, <2>2, <2>3
<1> QED
  BY <1>3, <1>11, <1>12, <1>13 DEF Turn

-----------------------------------------------------------------------------
(* Each step of a call is a turn for every model.                          *)

\* A call's current model, and the ones it passes on to.
LEMMA CallChain ==
    ASSUME Inv, Bounded, NEW c \in Calls, call[c].phase \notin {"idle", "pacing"},
           NEW m \in Models
    PROVE  /\ Current(c) = call[c].left[1] /\ 1 \in DOMAIN call[c].left
           /\ Distinct(Tail(call[c].left))
           /\ Eligible(call[c], Tail(call[c].left), m) => Twice(call[c], m)
           /\ m = Current(c) => ~\E i \in DOMAIN Tail(call[c].left) : Tail(call[c].left)[i] = m
<1> DEFINE s == call[c].left
<1>1. s \in Seq(Models) /\ s # <<>> /\ Distinct(s)
  BY DEF Inv, TypeOK, CallRecords, Shaped, Bounded
<1>2. /\ Current(c) = s[1] /\ 1 \in DOMAIN s
      /\ \A i \in DOMAIN Tail(s) : i + 1 \in DOMAIN s /\ Tail(s)[i] = s[i + 1] /\ i + 1 > 1
  <2> HIDE DEF s
  <2>1. Head(s) = s[1] /\ 1 \in DOMAIN s
    BY <1>1
  <2>2. /\ Len(Tail(s)) = Len(s) - 1 /\ Tail(s) \in Seq(Models)
        /\ Len(s) \in Nat /\ DOMAIN s = 1 .. Len(s)
    BY <1>1
  <2>3. DOMAIN Tail(s) = 1 .. Len(s) - 1
    BY <2>2
  <2>4. \A i \in 1 .. Len(s) - 1 : Tail(s)[i] = s[i + 1]
    BY <1>1, <2>2
  <2> QED
    BY <2>1, <2>2, <2>3, <2>4 DEF Current, s
<1> HIDE DEF s
<1>3. DOMAIN Tail(s) \subseteq Int
  <2>1. Tail(s) \in Seq(Models)
    BY <1>1
  <2>2. DOMAIN Tail(s) = 1 .. Len(Tail(s))
    BY <2>1
  <2> QED
    BY <2>2
<1>4. \A i, j \in DOMAIN Tail(s) : i + 1 = j + 1 => i = j
  BY <1>3
<1>5. Distinct(Tail(s))
  BY <1>1, <1>2, <1>4 DEF Distinct
<1>6. m = s[1] => ~\E i \in DOMAIN Tail(s) : Tail(s)[i] = m
  <2> SUFFICES ASSUME m = s[1], NEW i \in DOMAIN Tail(s), Tail(s)[i] = m PROVE FALSE
    OBVIOUS
  <2>1. i + 1 = 1
    BY <1>1, <1>2 DEF Distinct
  <2> QED
    BY <1>2, <2>1
<1>7. Eligible(call[c], Tail(s), m) => Twice(call[c], m)
  <2> SUFFICES ASSUME Eligible(call[c], Tail(s), m) PROVE Twice(call[c], m)
    OBVIOUS
  <2>1. PICK i \in DOMAIN Tail(s) : Tail(s)[i] = m
    BY DEF Eligible
  <2>2. i + 1 \in DOMAIN s /\ s[i + 1] = m /\ i + 1 > 1
    BY <1>2, <2>1
  <2>3. \E j \in DOMAIN s : s[j] = m /\ (j > 1 \/ call[c].phase = "waiting")
    BY <2>2
  <2> QED
    BY <2>3 DEF Eligible, Twice, s
<1> QED
  BY <1>2, <1>5, <1>6, <1>7 DEF s

LEMMA CountedToday ==
    ASSUME NEW c \in Calls, NEW m \in Models
    PROVE  Counted(c).today[m] = IF m = Current(c) THEN CountUpto(usage.today[m])
                                 ELSE usage.today[m]
BY RecordedToday DEF Counted

LEMMA PassOnTurn ==
    ASSUME Inv, Bounded, NEW c \in Calls, NEW cooling \in [Models -> Nat], NEW u,
           PassOn(c, cooling, u), NEW m \in Models,
           \/ u = usage /\ call[c].phase \in {"waiting", "backoff"}
           \/ u = Counted(c) /\ Requesting(c)
    PROVE  Turn(c, m)
<1> DEFINE p == call[c]  q == call'[c]  rest == Tail(call[c].left)
<1>1. p.phase \in {"waiting", "backoff", "requesting", "retrying"}
  BY DEF Requesting
<1>2. /\ p \in CallRecords /\ rest \in Seq(Models) /\ Len(rest) <= 3
  BY <1>1, CurrentType
<1>3. /\ Distinct(rest) /\ (Eligible(p, rest, m) => Twice(p, m))
      /\ m = Current(c) => ~Eligible(p, rest, m) /\ ~\E i \in DOMAIN rest : rest[i] = m
  BY <1>1, CallChain DEF Eligible
<1>4. /\ call' = [call EXCEPT ![c] = q] /\ Distinct(q.left) /\ Walked(p, rest, q, m, u)
  BY <1>2, <1>3, WalkWalks DEF PassOn, Inv
<1>5. OnceMore(q, m) => Eligible(p, rest, m) /\ Twice(p, m) /\ OnceMore(p, m)
  BY <1>3, <1>4 DEF Walked, OnceMore
<1>6. Twice(q, m) => OnceMore(q, m)
  BY DEF OnceMore
<1>7. Asking(p, m) => m = Current(c) /\ u = Counted(c)
  BY DEF Asking, Current
<1>8. CASE u = Counted(c) /\ m = Current(c)
  <2>1. asked'[m] = asked[m] /\ usage'.today[m] = CountUpto(usage.today[m])
    <3>1. u.today[m] = CountUpto(usage.today[m])
      BY <1>8, CountedToday
    <3> QED
      BY <1>3, <1>4, <1>8, <3>1 DEF Walked
  <2>2. ~OnceMore(q, m)
    BY <1>3, <1>5, <1>8
  <2> HIDE DEF p, q, rest
  <2> QED
    BY <1>4, <1>6, <2>1, <2>2 DEF Turn, p, q
<1>9. CASE ~(u = Counted(c) /\ m = Current(c))
  <2>1. u.today[m] = usage.today[m] /\ ~Asking(p, m)
    BY <1>7, <1>9, CountedToday
  <2> HIDE DEF p, q, rest
  <2> QED
    BY <1>3, <1>4, <1>5, <1>6, <2>1 DEF Turn, Walked, p, q
<1> QED
  BY <1>8, <1>9

LEMMA SendTurn ==
    ASSUME Inv, Bounded, NEW c \in Calls, NEW phase, Send(c, phase), NEW m \in Models,
           \/ phase = "requesting" /\ call[c].phase = "waiting"
           \/ phase = "retrying" /\ call[c].phase = "backoff"
    PROVE  Turn(c, m)
<1> DEFINE p == call[c]  q == call'[c]
<1>1. /\ call' = [call EXCEPT ![c] = q] /\ q = [p EXCEPT !.phase = phase]
      /\ asked' = Asked(Current(c)) /\ usage' = usage
  BY DEF Send, Inv, TypeOK
<1>2. p \in CallRecords /\ Distinct(p.left) /\ Shaped(p)
  BY DEF Inv, TypeOK, Bounded
<1>3. q.phase = phase /\ q.left = p.left /\ q.blocked = p.blocked
  BY <1>1, <1>2 DEF CallRecords
<1>4. Current(c) = p.left[1] /\ 1 \in DOMAIN p.left /\ Current(c) = Head(p.left)
  BY CallChain DEF Current
<1>5. Current(c) \in Models /\ Current(c) \notin p.blocked
  BY CurrentType
<1>6. asked'[m] = IF m = Current(c) THEN Upto(asked[m] + 1, ProviderLimit + InFlight) ELSE asked[m]
  BY <1>1, <1>5, AskedOnce DEF Inv
<1> HIDE DEF p, q
<1>7. Twice(q, m) => Twice(p, m)
  <2>1. q.phase \notin {"pacing", "waiting"}
    BY <1>3
  <2> QED
    BY <1>3, <2>1 DEF Twice
<1>8. ~Asking(p, m)
  BY DEF Asking, p
<1>9. CASE m = Current(c)
  <2>1. Asking(q, m)
    BY <1>3, <1>4, <1>9 DEF Asking
  <2>2. ~Twice(q, m)
    <3>1. q.left \in Seq(Models) /\ q.left # <<>>
      BY <1>2, <1>3 DEF CallRecords, Shaped, p
    <3> QED
      BY <1>2, <1>3, <2>1, <3>1, AskingHasOne
  <2>3. CASE phase = "requesting"
    <3>1. Twice(p, m)
      BY <1>4, <1>5, <1>9, <2>3 DEF Twice, p
    <3>2. OnceMore(p, m)
      BY <3>1 DEF OnceMore
    <3> QED
      BY <1>1, <1>2, <1>3, <1>6, <1>7, <1>8, <1>9, <2>1, <2>2, <3>1, <3>2 DEF Turn, p, q
  <2>4. CASE phase = "retrying"
    <3>1. OnceMore(p, m)
      BY <1>4, <1>9, <2>4 DEF OnceMore, p
    <3>2. ~OnceMore(q, m)
      BY <1>3, <2>2, <2>4 DEF OnceMore
    <3> QED
      BY <1>1, <1>2, <1>3, <1>6, <1>7, <1>8, <1>9, <2>1, <2>2, <3>1, <3>2 DEF Turn, p, q
  <2> QED
    BY <2>3, <2>4
<1>10. CASE m # Current(c)
  <2>1. OnceMore(q, m) => OnceMore(p, m)
    BY <1>3, <1>4, <1>7, <1>10 DEF OnceMore
  <2>2. asked'[m] = asked[m] /\ usage'.today[m] = usage.today[m]
    BY <1>1, <1>6, <1>10
  <2> QED
    BY <1>1, <1>2, <1>3, <1>7, <1>8, <2>1, <2>2 DEF Turn, p, q
<1> QED
  BY <1>9, <1>10

\* The chain that getOrderedModels returns is a permutation.
LEMMA OrderedDistinct ==
    ASSUME NEW p, preferred \in 0 .. 2
    PROVE  Distinct(Ordered(p))
<1>1. DOMAIN CheapestFirst = 1 .. 3 /\ Distinct(CheapestFirst)
  BY DEF CheapestFirst, Distinct
<1>2. DOMAIN BalancedFirst = 1 .. 3 /\ Distinct(BalancedFirst)
  BY DEF BalancedFirst, Distinct
<1> DEFINE at(i) == ((preferred + i - 1) % 3) + 1
           rotated == [i \in 1 .. 3 |-> Chain[at(i)]]
<1>3. \A i, j \in 1 .. 3 : at(i) = at(j) => i = j
  OBVIOUS
<1>4. \A i \in 1 .. 3 : at(i) \in 1 .. 3
  OBVIOUS
<1> HIDE DEF at
<1>5. \A a, b \in 1 .. 3 : Chain[a] = Chain[b] => a = b
  BY DEF Chain
<1>6. Distinct(rotated)
  BY <1>3, <1>4, <1>5 DEF Distinct
<1> QED
  BY <1>1, <1>2, <1>6 DEF Ordered, at

\* A call that starts has no request left for a provider that is at its limit.
LEMMA StartTurn ==
    ASSUME Inv, Bounded, NEW c \in Calls, NEW s \in Sessions, Start(c, s), NEW m \in Models
    PROVE  Turn(c, m)
<1> DEFINE r == [NoCall EXCEPT !.session = s, !.profile = Profile(s),
                               !.blocked = BlockedProviders \cup BlockedModels(s),
                               !.barred  = AtLimit \cup {n \in Models : limited[n] > 0}]
           delayed == [r EXCEPT !.phase = "pacing", !.timer = Pacing(s)]
           p == call[c]  q == call'[c]
<1>1. NoCall \in CallRecords /\ NoCall.left = <<>> /\ NoCall.phase = "idle"
  BY NoCallTyped DEF NoCallType, NoCall
<1>2. r \in CallRecords
  <2>1. Profile(s) \in Profiles
    BY DEF Profile, Profiles, Inv, TypeOK, NoProfile
  <2>2. /\ BlockedProviders \cup BlockedModels(s) \in SUBSET Models
        /\ AtLimit \cup {n \in Models : limited[n] > 0} \in SUBSET Models
    BY DEF BlockedProviders, BlockedModels, AtLimit, Models, Chain
  <2> QED
    BY <1>1, <2>1, <2>2 DEF CallRecords
<1>3. /\ r.blocked = BlockedProviders \cup BlockedModels(s)
      /\ r.left = <<>>
  BY <1>1 DEF CallRecords
<1>4. usage.today[m] = ProviderLimit => m \in r.blocked
  <2>1. ProviderLimit \in Nat
    BY RouterAssumption
  <2>2. usage.today[m] = ProviderLimit => m \in AtLimit
    BY <2>1 DEF AtLimit
  <2> QED
    BY <1>3, <2>2 DEF BlockedProviders
<1>5. p.phase = "idle" /\ ~Asking(p, m)
  BY DEF Start, Asking
<1>6. CASE Pacing(s) > 0
  <2>1. call' = [call EXCEPT ![c] = delayed] /\ usage' = usage /\ asked' = asked
    BY <1>6 DEF Start
  <2>2. q = delayed
    BY <2>1 DEF Inv, TypeOK
  <2> HIDE DEF r
  <2>3. /\ delayed.phase = "pacing" /\ delayed.left = <<>> /\ delayed.blocked = r.blocked
    BY <1>2, <1>3 DEF CallRecords
  <2> HIDE DEF delayed
  <2>4. DOMAIN delayed.left = {}
    BY <2>3
  <2>5. Distinct(delayed.left) /\ ~Asking(delayed, m)
    BY <2>3, <2>4 DEF Distinct, Asking
  <2>6. usage.today[m] = ProviderLimit => ~Twice(delayed, m) /\ ~OnceMore(delayed, m)
    BY <1>4, <2>3 DEF Twice, OnceMore
  <2> HIDE DEF p, q
  <2> QED
    BY <1>5, <2>1, <2>2, <2>5, <2>6 DEF Turn, p, q
<1>7. CASE ~(Pacing(s) > 0)
  <2>1. Walk(c, r, Ordered(Profile(s)), cool, usage)
    BY <1>7 DEF Start
  <2> HIDE DEF r
  <2>2. /\ Ordered(Profile(s)) \in Seq(Models) /\ Len(Ordered(Profile(s))) <= 3
        /\ Distinct(Ordered(Profile(s)))
    <3>1. preferred \in 0 .. 2
      BY DEF Inv, TypeOK
    <3>2. Ordered(Profile(s)) \in Seq(Models) /\ Len(Ordered(Profile(s))) = 3
      BY <3>1, OrderedType
    <3> QED
      BY <3>1, <3>2, OrderedDistinct
  <2>3. cool \in [Models -> Nat]
    BY DEF Inv, TypeOK
  <2>4. /\ call' = [call EXCEPT ![c] = q] /\ Distinct(q.left)
        /\ Walked(r, Ordered(Profile(s)), q, m, usage)
    BY <1>2, <2>1, <2>2, <2>3, WalkWalks DEF Inv
  <2>5. usage.today[m] = ProviderLimit =>
          ~Eligible(r, Ordered(Profile(s)), m) /\ ~OnceMore(q, m) /\ ~Twice(q, m)
    BY <1>4, <2>4 DEF Eligible, Walked, OnceMore
  <2>6. ~OnceMore(q, m) => ~Twice(q, m)
    BY DEF OnceMore
  <2> HIDE DEF p, q
  <2> QED
    BY <1>5, <2>4, <2>5, <2>6 DEF Turn, Walked, p, q
<1> QED
  BY <1>6, <1>7

LEMMA PacedTurn ==
    ASSUME Inv, Bounded, NEW c \in Calls, Paced(c), NEW m \in Models
    PROVE  Turn(c, m)
<1> DEFINE p == call[c]  q == call'[c]  left == Ordered(call[c].profile)
<1>1. /\ p \in CallRecords /\ p.phase = "pacing" /\ Walk(c, p, left, cool, usage)
      /\ cool \in [Models -> Nat]
  BY DEF Paced, Inv, TypeOK
<1>2. left \in Seq(Models) /\ Len(left) <= 3 /\ Distinct(left)
  <2>1. preferred \in 0 .. 2
    BY DEF Inv, TypeOK
  <2>2. left \in Seq(Models) /\ Len(left) = 3
    BY <2>1, OrderedType
  <2> QED
    BY <2>1, <2>2, OrderedDistinct
<1>3. call' = [call EXCEPT ![c] = q] /\ Distinct(q.left) /\ Walked(p, left, q, m, usage)
  BY <1>1, <1>2, WalkWalks DEF Inv
<1> HIDE DEF p, q, left
<1>4. Eligible(p, left, m) => Twice(p, m)
  BY <1>1 DEF Eligible, Twice
<1>5. OnceMore(q, m) => Twice(p, m) /\ OnceMore(p, m)
  BY <1>3, <1>4 DEF Walked, OnceMore
<1>6. Twice(q, m) => OnceMore(q, m)
  BY DEF OnceMore
<1>7. ~Asking(p, m)
  BY <1>1 DEF Asking
<1> QED
  BY <1>3, <1>4, <1>5, <1>6, <1>7 DEF Turn, Walked, p, q

LEMMA AnswerTurn ==
    ASSUME Inv, Bounded, NEW c \in Calls, Answer(c), NEW m \in Models
    PROVE  Turn(c, m)
<1>1. /\ Requesting(c) /\ usage' = Counted(c) /\ asked' = asked
      /\ call' = [call EXCEPT ![c] = NoCall] /\ call'[c] = NoCall
  BY DEF Answer, Inv, TypeOK
<1>2. usage'.today[m] = IF m = Current(c) THEN CountUpto(usage.today[m]) ELSE usage.today[m]
  BY <1>1, CountedToday
<1>3. Asking(call[c], m) => m = Current(c)
  BY DEF Asking, Current
<1> QED
  BY <1>1, <1>2, <1>3, NoCallAsksNothing DEF Turn

LEMMA RateLimitedTurn ==
    ASSUME Inv, Bounded, NEW c \in Calls, RateLimited(c), NEW m \in Models
    PROVE  Turn(c, m)
<1> DEFINE p == call[c]  q == call'[c]
<1>1. PICK d \in Cooldowns :
        IF call[c].phase = "requesting" /\ mode = "intelligent_pacing"
        THEN /\ call' = [call EXCEPT ![c].phase = "backoff", ![c].timer = Upto(d, MaxWait)]
             /\ usage' = Counted(c)
             /\ UNCHANGED asked
        ELSE PassOn(c, cool', Counted(c))
  BY DEF RateLimited
<1>2. Requesting(c) /\ cool' \in [Models -> Nat]
  BY RateLimitedStep DEF RateLimited
<1>3. CASE ~(call[c].phase = "requesting" /\ mode = "intelligent_pacing")
  BY <1>1, <1>2, <1>3, PassOnTurn
<1>4. CASE call[c].phase = "requesting" /\ mode = "intelligent_pacing"
  <2>1. p \in CallRecords /\ p.phase = "requesting" /\ Distinct(p.left)
    BY <1>4 DEF Inv, TypeOK, Bounded
  <2>2. PICK t : t = Upto(d, MaxWait)
    OBVIOUS
  <2>3. q = [p EXCEPT !.phase = "backoff", !.timer = t] /\ call' = [call EXCEPT ![c] = q]
    BY <1>1, <1>4, <2>2 DEF Inv, TypeOK
  <2>4. q.phase = "backoff" /\ q.left = p.left /\ q.blocked = p.blocked
    BY <2>1, <2>3 DEF CallRecords
  <2>5. asked'[m] = asked[m] /\ usage' = Counted(c)
    BY <1>1, <1>4
  <2>6. usage'.today[m] = IF m = Current(c) THEN CountUpto(usage.today[m]) ELSE usage.today[m]
    BY <2>5, CountedToday
  <2>7. Asking(p, m) <=> m = Current(c)
    BY <2>1 DEF Asking, Current
  <2> HIDE DEF p, q
  <2>8. (Twice(q, m) => Twice(p, m)) /\ (OnceMore(q, m) => OnceMore(p, m))
    BY <2>1, <2>4 DEF Twice, OnceMore
  <2>9. m = Current(c) => ~Twice(p, m)
    <3> SUFFICES ASSUME m = Current(c) PROVE ~Twice(p, m)
      OBVIOUS
    <3>1. p.left \in Seq(Models) /\ p.left # <<>>
      BY <2>1 DEF Inv, TypeOK, CallRecords, Shaped, p
    <3> QED
      BY <2>1, <2>7, <3>1, AskingHasOne
  <2> QED
    BY <2>1, <2>3, <2>4, <2>5, <2>6, <2>7, <2>8, <2>9 DEF Turn, p, q
<1> QED
  BY <1>3, <1>4

LEMMA CallTurn ==
    ASSUME Inv, Bounded, NEW c \in Calls, CallStep(c), NEW m \in Models
    PROVE  Turn(c, m)
<1>1. cool \in [Models -> Nat]
  BY DEF Inv, TypeOK
<1>2. CASE Paced(c)
  BY <1>2, PacedTurn
<1>3. CASE Waited(c)
  <2>1. CASE cool[Current(c)] = 0 /\ Keyed(Current(c))
    BY <1>3, <2>1, SendTurn DEF Waited
  <2>2. CASE ~(cool[Current(c)] = 0 /\ Keyed(Current(c)))
    <3>1. PassOn(c, cool, usage) /\ call[c].phase = "waiting"
      BY <1>3, <2>2 DEF Waited
    <3> QED
      BY <1>1, <3>1, PassOnTurn
  <2> QED
    BY <2>1, <2>2
<1>4. CASE Retry(c)
  <2>1. CASE cool[Current(c)] = 0
    BY <1>4, <2>1, SendTurn DEF Retry
  <2>2. CASE ~(cool[Current(c)] = 0)
    <3>1. PassOn(c, cool, usage) /\ call[c].phase = "backoff"
      BY <1>4, <2>2 DEF Retry
    <3> QED
      BY <1>1, <3>1, PassOnTurn
  <2> QED
    BY <2>1, <2>2
<1>5. CASE Answer(c)
  BY <1>5, AnswerTurn
<1>6. CASE Error(c)
  BY <1>1, <1>6, PassOnTurn DEF Error
<1>7. CASE RateLimited(c)
  BY <1>7, RateLimitedTurn
<1> QED
  BY <1>2, <1>3, <1>4, <1>5, <1>6, <1>7 DEF CallStep

LEMMA TurnsBounded ==
    ASSUME Inv, Bounded, NEW c \in Calls, \A m \in Models : Turn(c, m)
    PROVE  Bounded'
<1>1. (\A m \in Models : Within(m))'
  <2>1. \A m \in Models : Within(m)'
    BY TurnWithin
  <2> QED
    BY <2>1, Zenon DEF Models, Chain
<1>2. call' = [call EXCEPT ![c] = call'[c]] /\ Distinct(call'[c].left)
  <2>1. "primary" \in Models
    BY DEF Models, Chain
  <2> QED
    BY <2>1 DEF Turn
<1>3. \A d \in Calls : d # c => call'[d] = call[d]
  BY <1>2 DEF Inv, TypeOK
<1>4. \A d \in Calls : Distinct(call'[d].left)
  BY <1>2, <1>3 DEF Bounded
<1> QED
  BY <1>1, <1>4 DEF Bounded, Distinct

LEMMA OutsideBounded ==
    ASSUME Inv, Bounded, Outside
    PROVE  Bounded'
<1>1. ProviderLimit \in Nat \ {0} /\ InFlight \in Nat /\ IsFiniteSet(Calls)
  BY RouterAssumption, InFlightType
<1>2. CASE UNCHANGED <<call, usage, asked>>
  BY <1>2 DEF Bounded, Distinct, Within, Askers, WithOne, WithTwo, InFlight,
              Twice, OnceMore, Asking
<1>3. CASE Midnight
  <2>1. /\ call' = call /\ asked' = [m \in Models |-> 0]
        /\ usage' = [usage EXCEPT !.today = [m \in Models |-> 0], !.day = 0]
    BY <1>3 DEF Midnight
  <2>2. usage \in Usage
    BY DEF Inv, TypeOK
  <2>3. \A m \in Models : usage'.today[m] = 0 /\ asked'[m] = 0
    BY <2>1, <2>2 DEF Usage
  <2>4. ASSUME NEW m \in Models PROVE Within(m)'
    <3>1. Askers(m) \in SUBSET Calls /\ Askers(m)' = Askers(m)
      BY <2>1 DEF Askers
    <3>2. Cardinality(Askers(m)) \in Nat
      BY <1>1, <3>1, FS_Subset, FS_CardinalityType
    <3> QED
      BY <1>1, <2>3, <3>1, <3>2 DEF Within
  <2>5. \A c \in Calls : Distinct(call'[c].left)
    BY <2>1 DEF Bounded
  <2>6. (\A m \in Models : Within(m))'
    BY <2>4, Zenon DEF Models, Chain
  <2> QED
    BY <2>5, <2>6 DEF Bounded, Distinct
<1>4. CASE Restart
  <2>1. /\ call' = [c \in Calls |-> NoCall] /\ asked' = [m \in Models |-> 0] /\ usage' = usage
    BY <1>4 DEF Restart
  <2>2. \A c \in Calls : call'[c] = NoCall
    BY <2>1
  <2>3. ASSUME NEW m \in Models PROVE Within(m)'
    <3>1. Askers(m)' = {} /\ WithOne(m)' = {} /\ WithTwo(m)' = {}
      BY <2>2, NoCallAsksNothing DEF Askers, WithOne, WithTwo
    <3>2. Cardinality({}) = 0
      BY FS_EmptySet
    <3>3. asked'[m] = 0 /\ usage'.today[m] \in 0 .. ProviderLimit
      BY <2>1 DEF Inv, TypeOK, Usage
    <3>4. InFlight' = InFlight
      BY DEF InFlight
    <3> QED
      BY <1>1, <3>1, <3>2, <3>3, <3>4 DEF Within
  <2>4. \A c \in Calls : Distinct(call'[c].left)
    BY <2>2, NoCallAsksNothing
  <2>5. (\A m \in Models : Within(m))'
    BY <2>3, Zenon DEF Models, Chain
  <2> QED
    BY <2>4, <2>5 DEF Bounded, Distinct
<1>5. CASE Tick
  <2>1. /\ call' = [c \in Calls |-> [call[c] EXCEPT !.timer = Less(@)]]
        /\ usage' = usage /\ asked' = asked
    BY <1>5 DEF Tick
  <2>2. ASSUME NEW c \in Calls
        PROVE  /\ call'[c].phase = call[c].phase /\ call'[c].left = call[c].left
               /\ call'[c].blocked = call[c].blocked
    BY <2>1 DEF Inv, TypeOK, CallRecords
  <2>3. ASSUME NEW m \in Models PROVE Within(m)'
    <3>1. Askers(m)' = Askers(m)
      BY <2>2 DEF Askers, Asking
    <3>2. WithTwo(m)' = WithTwo(m)
      BY <2>2 DEF WithTwo, Twice
    <3>3. WithOne(m)' = WithOne(m)
      BY <2>2 DEF WithOne, OnceMore, Twice
    <3>4. InFlight' = InFlight
      BY DEF InFlight
    <3>5. Within(m)
      BY DEF Bounded
    <3> QED
      BY <2>1, <3>1, <3>2, <3>3, <3>4, <3>5 DEF Within
  <2>4. \A c \in Calls : Distinct(call'[c].left)
    BY <2>2 DEF Bounded
  <2>5. (\A m \in Models : Within(m))'
    BY <2>3, Zenon DEF Models, Chain
  <2> QED
    BY <2>4, <2>5 DEF Bounded, Distinct
<1> QED
  BY <1>2, <1>3, <1>4, <1>5
  DEF Outside, SetFallbackMode, SetPreferred, SetManualProfile, ResetPolicyState, Snapshot

LEMMA InitiallyBounded == Init => Bounded
<1> SUFFICES ASSUME Init PROVE Bounded
  OBVIOUS
<1>1. ProviderLimit \in Nat \ {0}
  BY RouterAssumption
<1>2. \A c \in Calls : call[c] = NoCall
  BY DEF Init
<1>3. ASSUME NEW m \in Models PROVE Within(m)
  <2>1. Askers(m) = {}
    BY <1>2, NoCallAsksNothing DEF Askers
  <2>2. usage.today[m] = 0 /\ asked[m] = 0 /\ Cardinality({}) = 0
    BY FS_EmptySet DEF Init
  <2> QED
    BY <1>1, <2>1, <2>2 DEF Within
<1> QED
  BY <1>2, <1>3, NoCallAsksNothing DEF Bounded

LEMMA BoundedInBounds == Inv /\ Bounded => OvershootBounded
<1> SUFFICES ASSUME Inv, Bounded, NEW m \in Models
             PROVE  asked[m] <= ProviderLimit - 1 + InFlight
  BY DEF OvershootBounded
<1>1. /\ usage.today[m] \in 0 .. ProviderLimit /\ asked[m] \in Nat
      /\ ProviderLimit \in Nat \ {0}
  <2>1. ProviderLimit + InFlight \in Nat /\ ProviderLimit \in Nat \ {0}
    BY RouterAssumption, InFlightType
  <2> QED
    BY <2>1 DEF Inv, TypeOK, Usage
<1>2. Within(m)
  BY DEF Bounded
<1>3. /\ Askers(m) \in SUBSET Calls /\ WithOne(m) \in SUBSET Calls /\ WithTwo(m) \in SUBSET Calls
  BY DEF Askers, WithOne, WithTwo
<1>4. /\ Cardinality(WithOne(m)) \in Nat /\ Cardinality(WithTwo(m)) \in Nat
      /\ Cardinality(Askers(m)) \in Nat /\ Cardinality(Askers(m)) <= Cardinality(Calls)
      /\ Cardinality(Calls) \in Nat
  BY <1>3, FS_Subset, FS_CardinalityType, RouterAssumption
<1>5. CASE usage.today[m] < ProviderLimit
  <2>1. asked[m] <= usage.today[m] + Cardinality(Askers(m))
    BY <1>2, <1>5 DEF Within
  <2> QED
    BY <1>1, <1>4, <1>5, <2>1 DEF InFlight
<1>6. CASE usage.today[m] = ProviderLimit
  <2>1. asked[m] + Cardinality(WithOne(m)) + Cardinality(WithTwo(m)) <= ProviderLimit - 1 + InFlight
    BY <1>2, <1>6 DEF Within
  <2>2. InFlight \in Nat
    BY InFlightType
  <2> QED
    BY <1>1, <1>4, <2>1, <2>2
<1> QED
  BY <1>1, <1>5, <1>6

\* A provider is over its daily limit by the requests of the calls under way when
\* it was reached, two each, at most.
THEOREM OvershootIsBounded == Spec => []OvershootBounded
<1>1. Init => Inv /\ Bounded
  BY Initially, InitiallyBounded
<1>2. Inv /\ Bounded /\ [Next]_vars => Inv' /\ Bounded'
  <2> SUFFICES ASSUME Inv, Bounded, [Next]_vars PROVE Inv' /\ Bounded'
    OBVIOUS
  <2>1. Inv'
    BY Step
  <2>2. ASSUME NEW c \in Calls, CallStep(c) PROVE Bounded'
    BY <2>2, CallTurn, TurnsBounded
  <2>3. ASSUME NEW c \in Calls, NEW s \in Sessions, Start(c, s) PROVE Bounded'
    BY <2>3, StartTurn, TurnsBounded
  <2>4. CASE Outside
    BY <2>1, <2>4, OutsideBounded
  <2>5. CASE UNCHANGED vars
    <3>1. UNCHANGED <<call, usage, asked>>
      BY <2>5 DEF vars
    <3> QED
      BY <2>1, <3>1 DEF Bounded, Distinct, Within, Askers, WithOne, WithTwo, InFlight,
                  Twice, OnceMore, Asking
  <2> QED
    BY <2>1, <2>2, <2>3, <2>4, <2>5 DEF Next, Outside
<1> QED
  BY <1>1, <1>2, BoundedInBounds, PTL DEF Spec

=============================================================================
