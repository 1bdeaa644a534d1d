----------------------- MODULE IncidentManagerProofs -----------------------
(***************************************************************************)
(* Proofs about IncidentManager, for any of the incident types and any     *)
(* limits, cooldowns and numbers of models and restarts.                   *)
(*                                                                         *)
(* What a rollback restores is what its remediation found, however many    *)
(* remediations of other incidents came before.  The inductive invariant   *)
(* therefore tells, for each control a rollback restores, its value before *)
(* each remediation in force, and which entry of which stack that is.      *)
(***************************************************************************)
EXTENDS IncidentManager, SequenceTheorems, FiniteSetTheorems, WellFoundedInduction, TLAPS

Stack(t) == incident[t].stack

\* The controls that rollbacks restore, and the actions that turn them.
Restored == {"mode", "window", "safe"}
Turns(c) ==
    CASE c = "mode"   -> {"throttle", "drain"} \cup (IF hasQueue THEN {"halt_safe_mode"} ELSE {})
      [] c = "window" -> {"retry_window_adjustment"}
      [] OTHER        -> {"halt_safe_mode"}

\* The i-th remediation in force is the place[i]-th entry of its incident's stack, every entry of
\* a stack is in force, and the stacks grow as remediations come.
Placed(place) ==
    /\ \A i \in DOMAIN undo : place[i] \in DOMAIN Stack(undo[i])
    /\ \A t \in Types : \A k \in DOMAIN Stack(t) : \E i \in DOMAIN undo : undo[i] = t /\ place[i] = k
    /\ \A i, j \in DOMAIN undo : i < j /\ undo[i] = undo[j] => place[i] < place[j]

\* val[i] was the value of control c before the i-th remediation in force: who turns it found it,
\* and between two remediations that do it stays.
Explained(c, val, place) ==
    /\ val[1] = Untouched[c]
    /\ val[Len(undo) + 1] = controls[c]
    /\ \A i \in DOMAIN undo :
          Stack(undo[i])[place[i]].action \in Turns(c) => Stack(undo[i])[place[i]].before[c] = val[i]
    /\ \A i, j \in 1 .. Len(undo) + 1 :
          i <= j /\ (\A k \in i .. j - 1 : Stack(undo[k])[place[k]].action \notin Turns(c)) => val[j] = val[i]

Trailed == \E place : /\ Placed(place)
                      /\ \A c \in Restored : \E val : Explained(c, val, place)

Once(s) == \A i, j \in DOMAIN s : s[i] = s[j] => i = j
OrderOnce == Once(order)

\* Only one type of incident fails over, and the preferred model is its doing.
FailoversKept ==
    /\ \A t \in Types : \A k \in DOMAIN Stack(t) : Stack(t)[k].action = "failover" => t = Instability
    /\ controls.preferred # 0 =>
          Instability \in Types /\ \E k \in DOMAIN Stack(Instability) : Stack(Instability)[k].action = "failover"

Inv ==
    /\ TypeOK
    /\ OrderOnce
    /\ \A t \in Types : ~Active(t) => incident[t] = NoIncident
    /\ RecordsAgree
    /\ order = <<>> => ~controls.safe
    /\ FailoversKept
    /\ tangled => undo = <<>>
    /\ ~tangled => Trailed

-----------------------------------------------------------------------------
(* What the operators return.                                              *)

\* Among positions there is a least one.
LEMMA MinIsLeast ==
    ASSUME NEW n \in Nat, NEW S \in SUBSET (1 .. n), S # {}
    PROVE  Min(S) \in S /\ \A y \in S : Min(S) <= y
<1> DEFINE Below(x) == 0 .. x
           T == {Below(x) : x \in S}
<1>1. T \subseteq SUBSET (0 .. n) /\ T # {}
  <2>1. \A x \in S : Below(x) \subseteq 0 .. n
    OBVIOUS
  <2> HIDE DEF Below
  <2> QED
    BY <2>1, Zenon
<1>2. IsWellFoundedOn(StrictSubsetOrdering(0 .. n), SUBSET (0 .. n))
  <2>1. IsFiniteSet(0 .. n)
    BY FS_Interval
  <2> QED
    BY <2>1, FS_FiniteSubsetsOfFinite, FS_StrictSubsetOrderingWellFounded, Zenon
<1>3. PICK B \in T : \A C \in T : ~(<<C, B>> \in StrictSubsetOrdering(0 .. n))
  <2> HIDE DEF T
  <2> QED
    BY <1>1, <1>2, WFMin
<1>4. PICK x \in S : B = Below(x)
  OBVIOUS
<1>5. \A y \in S : x <= y
  <2> SUFFICES ASSUME NEW y \in S, y < x PROVE FALSE
    OBVIOUS
  <2>1. Below(y) \subseteq Below(x) /\ Below(y) # Below(x)
    OBVIOUS
  <2>2. Below(x) \in SUBSET (0 .. n) /\ Below(y) \in SUBSET (0 .. n)
    OBVIOUS
  <2>3. <<Below(y), Below(x)>> \in StrictSubsetOrdering(0 .. n)
    BY <2>1, <2>2 DEF StrictSubsetOrdering
  <2> QED
    BY <1>3, <1>4, <2>3
<1> QED
  BY <1>5 DEF Min

LEMMA SelectActionType ==
    ASSUME NEW t, NEW attempt
    PROVE  /\ SelectAction(t, attempt) \in Actions
           /\ SelectAction(t, attempt) = "failover" => t = Instability
BY DEF SelectAction, Actions, QueueActions

LEMMA AppliedType ==
    ASSUME NEW c \in Controls, NEW action \in Actions
    PROVE  Applied(c, action) \in Controls
<1>1. Models \in Nat \ {0} /\ c.preferred \in 0 .. Models - 1
  BY IncidentAssumption DEF Controls
<1>2. (c.preferred + 1) % Models \in 0 .. Models - 1
  BY <1>1
<1>3. CASE action = "failover"
  BY <1>2, <1>3 DEF Applied, Controls
<1>4. CASE action = "retry_window_adjustment"
  BY <1>4 DEF Applied, Controls, WindowSteps
<1>5. CASE action \notin {"failover", "retry_window_adjustment"}
  BY <1>5 DEF Applied, Controls
<1> QED
  BY <1>3, <1>4, <1>5

\* An action leaves alone what it does not turn, and finds what it does.
LEMMA AppliedTurns ==
    ASSUME NEW r \in Controls, NEW action \in Actions, NEW c \in Restored
    PROVE  /\ action \notin Turns(c) => Applied(r, action)[c] = r[c]
           /\ action \in Turns(c) => Found(r, action)[c] = r[c]
           /\ action # "failover" => Applied(r, action).preferred = r.preferred
BY DEF Restored, Turns, Applied, Found, Controls, Actions, QueueActions, Untouched

LEMMA FoundType ==
    ASSUME NEW c \in Controls, NEW action
    PROVE  Found(c, action) \in Controls
<1>1. Untouched \in Controls
  BY IncidentAssumption DEF Untouched, Controls, WindowSteps
<1> QED
  BY <1>1 DEF Found, Controls, Untouched

\* The rollbacks of a stack, control by control.
LEMMA UndoneFields ==
    ASSUME NEW r \in Controls, NEW stack \in Seq(Entries)
    PROVE  /\ Undone(r, stack) \in Controls
           /\ \A c \in Restored :
                 Undone(r, stack)[c] = IF Turning(stack, Turns(c)) = {} THEN r[c]
                                       ELSE stack[Min(Turning(stack, Turns(c)))].before[c]
           /\ Undone(r, stack).preferred = IF Turning(stack, {"failover"}) = {} THEN r.preferred ELSE 0
<1>1. \A c \in Restored : Turning(stack, Turns(c)) # {} =>
         Min(Turning(stack, Turns(c))) \in DOMAIN stack
  <2> TAKE c \in Restored
  <2>1. Turning(stack, Turns(c)) \in SUBSET (1 .. Len(stack)) /\ Len(stack) \in Nat
    BY DEF Turning
  <2>2. DOMAIN stack = 1 .. Len(stack)
    OBVIOUS
  <2>3. ASSUME Turning(stack, Turns(c)) # {}
        PROVE  Min(Turning(stack, Turns(c))) \in Turning(stack, Turns(c))
    BY <2>1, <2>3, MinIsLeast
  <2> QED
    BY <2>1, <2>2, <2>3
<1>2. \A i \in DOMAIN stack : stack[i].before \in Controls
  <2>1. \A i \in DOMAIN stack : stack[i] \in Entries
    OBVIOUS
  <2> QED
    BY <2>1 DEF Entries
<1>3. \A c \in Restored :
         Undone(r, stack)[c] = IF Turning(stack, Turns(c)) = {} THEN r[c]
                               ELSE stack[Min(Turning(stack, Turns(c)))].before[c]
  <2> TAKE c \in Restored
  <2>1. CASE c = "mode"
    BY <2>1, Zenon DEF Undone, Turns
  <2>2. CASE c = "window"
    BY <2>2, Zenon DEF Undone, Turns
  <2>3. CASE c = "safe"
    BY <2>3, Zenon DEF Undone, Turns
  <2> QED
    BY <2>1, <2>2, <2>3 DEF Restored
<1>4. Undone(r, stack) \in Controls
  <2> DEFINE back(c) == IF Turning(stack, Turns(c)) = {} THEN r[c]
                        ELSE stack[Min(Turning(stack, Turns(c)))].before[c]
  <2>1. \A c \in Restored : \E q \in Controls : back(c) = q[c]
    BY <1>1, <1>2
  <2>2. back("mode") \in {"normal", "throttled", "drain"} /\ back("window") \in 0 .. WindowSteps
        /\ back("safe") \in BOOLEAN
    <3> HIDE DEF back
    <3> QED
      BY <2>1 DEF Restored, Controls
  <2>3. (IF Turning(stack, {"failover"}) = {} THEN r.preferred ELSE 0) \in 0 .. Models - 1
    BY IncidentAssumption DEF Controls
  <2>4. Undone(r, stack) = [mode |-> back("mode"), window |-> back("window"),
                            preferred |-> IF Turning(stack, {"failover"}) = {} THEN r.preferred ELSE 0,
                            safe |-> back("safe")]
    BY DEF Undone, Turns
  <2> HIDE DEF back
  <2> QED
    BY <2>2, <2>3, <2>4 DEF Controls
<1> QED
  BY <1>3, <1>4 DEF Undone

\* r is s without its k-th element.
Without(r, s, k) ==
    /\ Len(r) = Len(s) - 1
    /\ \A i \in 1 .. Len(s) - 1 : r[i] = IF i < k THEN s[i] ELSE s[i + 1]

LEMMA WithoutIndex ==
    ASSUME NEW S, NEW s \in Seq(S), NEW k \in DOMAIN s
    PROVE  LET r == SubSeq(s, 1, k - 1) \o SubSeq(s, k + 1, Len(s))
           IN  r \in Seq(S) /\ Without(r, s, k)
<1> DEFINE s1 == SubSeq(s, 1, k - 1)
           s2 == SubSeq(s, k + 1, Len(s))
           r  == s1 \o s2
<1>1. Len(s) \in Nat /\ k \in 1 .. Len(s) /\ DOMAIN s = 1 .. Len(s) /\ \A i \in 1 .. Len(s) : s[i] \in S
  OBVIOUS
<1>2. /\ s1 \in Seq(S) /\ Len(s1) = k - 1
      /\ \A i \in 1 .. k - 1 : s1[i] = s[i]
  BY <1>1, SubSeqProperties
<1>3. /\ s2 \in Seq(S) /\ Len(s2) = Len(s) - k
      /\ \A i \in 1 .. Len(s) - k : s2[i] = s[k + i]
  <2>1. /\ s2 \in Seq(S) /\ Len(s2) = IF k + 1 <= Len(s) THEN Len(s) - (k + 1) + 1 ELSE 0
        /\ \A i \in 1 .. Len(s) - (k + 1) + 1 : s2[i] = s[(k + 1) + i - 1]
    BY <1>1, SubSeqProperties
  <2> QED
    BY <1>1, <2>1, SMTT(30)
<1> HIDE DEF s1, s2
<1>4. /\ r \in Seq(S) /\ Len(r) = Len(s1) + Len(s2)
      /\ \A i \in 1 .. Len(s1) + Len(s2) : r[i] = IF i <= Len(s1) THEN s1[i] ELSE s2[i - Len(s1)]
  BY <1>2, <1>3, ConcatProperties, Zenon
<1> HIDE DEF r
<1>5. Len(s1) + Len(s2) = Len(s) - 1
  BY <1>1, <1>2, <1>3
<1>6. Len(r) = Len(s) - 1
  BY <1>4, <1>5
<1>7. ASSUME NEW i \in 1 .. Len(s) - 1 PROVE r[i] = IF i < k THEN s[i] ELSE s[i + 1]
  <2>1. i \in 1 .. Len(s1) + Len(s2)
    BY <1>5
  <2>2. r[i] = IF i <= Len(s1) THEN s1[i] ELSE s2[i - Len(s1)]
    BY <1>4, <2>1
  <2>3. CASE i < k
    <3>1. i <= Len(s1) /\ i \in 1 .. k - 1
      BY <1>1, <1>2, <2>3
    <3> QED
      BY <1>2, <2>2, <2>3, <3>1
  <2>4. CASE i >= k
    <3>1. ~(i <= Len(s1)) /\ i - (k - 1) \in 1 .. Len(s) - k /\ k + (i - (k - 1)) = i + 1 /\ ~(i < k)
      BY <1>1, <1>2, <2>4
    <3> QED
      BY <1>2, <1>3, <2>2, <3>1
  <2> QED
    BY <1>1, <2>3, <2>4
<1> QED
  BY <1>4, <1>6, <1>7 DEF s1, s2, r, Without

LEMMA Removed ==
    ASSUME NEW S, NEW s \in Seq(S), NEW k \in DOMAIN s, Once(s),
           NEW r \in Seq(S), Without(r, s, k)
    PROVE  Keys(r) = Keys(s) \ {s[k]} /\ Once(r)
<1> USE DEF Once, Without
<1>1. Len(s) \in Nat /\ k \in 1 .. Len(s) /\ DOMAIN s = 1 .. Len(s) /\ DOMAIN r = 1 .. Len(s) - 1
  OBVIOUS
<1>2. Keys(r) \subseteq Keys(s) \ {s[k]}
  BY <1>1 DEF Keys
<1>3. ASSUME NEW i \in DOMAIN s, i # k PROVE s[i] \in Keys(r)
  <2>1. CASE i < k
    <3>1. i \in DOMAIN r /\ r[i] = s[i]
      BY <1>1, <2>1
    <3> QED
      BY <3>1 DEF Keys
  <2>2. CASE i > k
    <3>1. i - 1 \in DOMAIN r /\ r[i - 1] = s[i]
      BY <1>1, <2>2
    <3> QED
      BY <3>1 DEF Keys
  <2> QED
    BY <1>1, <1>3, <2>1, <2>2
<1>4. Keys(s) \ {s[k]} \subseteq Keys(r)
  BY <1>3, Zenon DEF Keys
<1>5. Once(r)
  BY <1>1, SMTT(30)
<1> QED
  BY <1>2, <1>4, <1>5

\* The remediations m to n are the entries of a stack, and val is what they made of control c.
Unwinds(stack, m, n, place, val, acts, c) ==
    /\ \A i \in m .. n : place[i] \in DOMAIN stack
    /\ \A k \in DOMAIN stack : \E i \in m .. n : place[i] = k
    /\ \A i, j \in m .. n : i < j => place[i] < place[j]
    /\ \A i \in m .. n : stack[place[i]].action \in acts => stack[place[i]].before[c] = val[i]
    /\ \A i, j \in m .. n + 1 :
          i <= j /\ (\A k \in i .. j - 1 : stack[place[k]].action \notin acts) => val[j] = val[i]

\* A control that the entries of a stack turned, and nothing else since its first, is put back.
LEMMA RolledBack ==
    ASSUME NEW stack \in Seq(Entries), NEW n \in Nat, NEW m \in 1 .. n + 1,
           NEW place, NEW val, NEW acts, NEW c,
           Unwinds(stack, m, n, place, val, acts, c)
    PROVE  (IF Turning(stack, acts) = {} THEN val[n + 1]
            ELSE stack[Min(Turning(stack, acts))].before[c]) = val[m]
<1>1. DOMAIN stack = 1 .. Len(stack) /\ Len(stack) \in Nat
  OBVIOUS
<1>2. CASE Turning(stack, acts) = {}
  <2>1. \A k \in m .. n : stack[place[k]].action \notin acts
    BY <1>2 DEF Turning, Unwinds
  <2>2. m <= n + 1 /\ m \in m .. n + 1 /\ n + 1 \in m .. n + 1 /\ (n + 1) - 1 = n
    OBVIOUS
  <2>3. val[n + 1] = val[m]
    BY <2>1, <2>2 DEF Unwinds
  <2> QED
    BY <1>2, <2>3
<1>3. CASE Turning(stack, acts) # {}
  <2> DEFINE k0 == Min(Turning(stack, acts))
  <2>1. k0 \in Turning(stack, acts) /\ \A k \in Turning(stack, acts) : k0 <= k
    <3>1. Turning(stack, acts) \in SUBSET (1 .. Len(stack))
      BY <1>1 DEF Turning
    <3> QED
      BY <1>1, <1>3, <3>1, MinIsLeast
  <2> HIDE DEF k0
  <2>2. k0 \in DOMAIN stack /\ stack[k0].action \in acts
    BY <2>1 DEF Turning
  <2>3. PICK i0 \in m .. n : place[i0] = k0
    BY <2>2 DEF Unwinds
  <2>4. \A k \in m .. i0 - 1 : stack[place[k]].action \notin acts
    <3> SUFFICES ASSUME NEW k \in m .. i0 - 1, stack[place[k]].action \in acts PROVE FALSE
      OBVIOUS
    <3>1. k \in m .. n /\ k < i0
      OBVIOUS
    <3>2. place[k] < k0 /\ place[k] \in Turning(stack, acts)
      BY <2>3, <3>1 DEF Turning, Unwinds
    <3>3. k0 <= place[k] /\ place[k] \in Nat /\ k0 \in Nat
      BY <1>1, <2>1, <2>2, <3>1, <3>2 DEF Unwinds
    <3> QED
      BY <3>2, <3>3
  <2>5. val[i0] = val[m]
    <3>1. m <= i0 /\ m \in m .. n + 1 /\ i0 \in m .. n + 1
      OBVIOUS
    <3> QED
      BY <2>4, <3>1 DEF Unwinds
  <2>6. stack[k0].before[c] = val[i0]
    BY <2>2, <2>3 DEF Unwinds
  <2> QED
    BY <1>3, <2>5, <2>6 DEF k0
<1> QED
  BY <1>2, <1>3

-----------------------------------------------------------------------------
(* One lemma per kind of step.                                             *)

\* A handled detection: its incident is open, in the table too, and first in line no more.
LEMMA PutShape ==
    ASSUME Inv, NEW t \in Types, NEW i \in Incidents, i.status # "none", Put(t, i), crashes' = crashes
    PROVE  /\ incident' \in [Types -> Incidents] /\ order' \in Seq(Types) /\ order' # <<>>
           /\ \A u \in Types : incident'[u] = IF u = t THEN i ELSE incident[u]
           /\ \A u \in Types : Active(u)' <=> u \in Keys(order)'
           /\ OrderOnce'
           /\ \A u \in Types : ~Active(u)' => (incident[u] = NoIncident)'
           /\ record' \in [Types -> Open \cup {"none", "resolved"}]
           /\ RecordsAgree'
           /\ todo' \subseteq todo
<1> USE DEF Inv, TypeOK
<1>1. incident' \in [Types -> Incidents] /\ \A u \in Types : incident'[u] = IF u = t THEN i ELSE incident[u]
  BY DEF Put
<1>2. \A u \in Types : Active(u)' <=> (u = t \/ Active(u))
  BY <1>1 DEF Active
<1>3. /\ order' \in Seq(Types) /\ order' # <<>> /\ OrderOnce'
      /\ \A u \in Types : u \in Keys(order)' <=> (u = t \/ u \in Keys(order))
  <2>1. CASE Active(t)
    <3>1. order' = order /\ t \in Keys(order)
      BY <2>1 DEF Put
    <3> QED
      BY <3>1 DEF Keys, OrderOnce, Once
  <2>2. CASE ~Active(t)
    <3>1. order' = Append(order, t) /\ t \notin Keys(order)
      BY <2>2 DEF Put
    <3>2. /\ order' \in Seq(Types) /\ order' # <<>> /\ Len(order') = Len(order) + 1 /\ Len(order) \in Nat
          /\ \A k \in 1 .. Len(order) : order'[k] = order[k]
          /\ order'[Len(order) + 1] = t
          /\ DOMAIN order = 1 .. Len(order) /\ DOMAIN order' = 1 .. Len(order) + 1
      BY <3>1, AppendProperties
    <3>3. \A k \in 1 .. Len(order) : order[k] # t
      BY <3>1, <3>2 DEF Keys
    <3>4. OrderOnce'
      BY <3>2, <3>3 DEF OrderOnce, Once
    <3>5. ASSUME NEW u \in Types PROVE u \in Keys(order)' <=> (u = t \/ u \in Keys(order))
      <4>1. u \in Keys(order)' <=> \E k \in 1 .. Len(order) + 1 : u = order'[k]
        BY <3>2 DEF Keys
      <4>2. u \in Keys(order) <=> \E k \in 1 .. Len(order) : u = order[k]
        BY <3>2 DEF Keys
      <4> QED
        BY <3>2, <4>1, <4>2, SMTT(30)
    <3> QED
      BY <3>2, <3>4, <3>5
  <2> QED
    BY <2>1, <2>2
<1>4. i.status \in Open
  BY DEF Incidents
<1>5. record' \in [Types -> Open \cup {"none", "resolved"}] /\ RecordsAgree'
  BY <1>1, <1>2, <1>4 DEF Put, Persist, RecordsAgree, Active
<1> QED
  BY <1>1, <1>2, <1>3, <1>5 DEF Put, Active

\* While nothing of the remediations in force changes, what explains them still does.
LEMMA TrailStays ==
    ASSUME Inv, \A u \in Types : Stack(u)' = Stack(u), UNCHANGED <<undo, tangled, controls, hasQueue>>
    PROVE  ~tangled' => Trailed'
<1> SUFFICES ASSUME ~tangled PROVE Trailed'
  OBVIOUS
<1>1. PICK place : Placed(place) /\ \A c \in Restored : \E val : Explained(c, val, place)
  BY DEF Inv, Trailed
<1>2. \A i \in DOMAIN undo : undo[i] \in Types
  BY DEF Inv, TypeOK
<1>3. Placed(place)'
  BY <1>1, <1>2 DEF Placed
<1>4. ASSUME NEW c \in Restored PROVE (\E val : Explained(c, val, place))'
  <2>1. PICK val : Explained(c, val, place)
    BY <1>1
  <2>2. Turns(c)' = Turns(c)
    BY DEF Turns
  <2>3. DOMAIN undo = 1 .. Len(undo) /\ Len(undo) \in Nat
    BY DEF Inv, TypeOK
  <2>4. \A i \in DOMAIN undo : Stack(undo[i])'[place[i]] = Stack(undo[i])[place[i]]
    BY <1>2 DEF Stack
  <2>5. \A i, j \in 1 .. Len(undo) + 1 : i .. j - 1 \subseteq DOMAIN undo
    BY <2>3
  <2>6. Explained(c, val, place)'
    <3>1. (val[1] = Untouched[c] /\ val[Len(undo) + 1] = controls[c])'
      BY <2>1 DEF Explained
    <3>2. (\A i \in DOMAIN undo :
             Stack(undo[i])[place[i]].action \in Turns(c) => Stack(undo[i])[place[i]].before[c] = val[i])'
      BY <2>1, <2>2, <2>4 DEF Explained
    <3>3. (\A i, j \in 1 .. Len(undo) + 1 :
             i <= j /\ (\A k \in i .. j - 1 : Stack(undo[k])[place[k]].action \notin Turns(c)) => val[j] = val[i])'
      BY <2>1, <2>2, <2>4, <2>5 DEF Explained
    <3> QED
      BY <3>1, <3>2, <3>3 DEF Explained
  <2> QED
    BY <2>6
<1> QED
  BY <1>3, <1>4 DEF Trailed

\* A detection that is only noted: nothing is tried.
LEMMA NotedKeepsInv ==
    ASSUME Inv, NEW t \in Types, t \in todo, NEW i \in Incidents, i.status # "none",
           i.stack = Current(t).stack, Put(t, i),
           UNCHANGED <<hasQueue, controls, baseline, detected, history, crashes>>
    PROVE  Inv'
<1>1. /\ incident' \in [Types -> Incidents] /\ order' \in Seq(Types) /\ order' # <<>>
      /\ \A u \in Types : incident'[u] = IF u = t THEN i ELSE incident[u]
      /\ \A u \in Types : Active(u)' <=> u \in Keys(order)'
      /\ OrderOnce'
      /\ \A u \in Types : ~Active(u)' => (incident[u] = NoIncident)'
      /\ record' \in [Types -> Open \cup {"none", "resolved"}]
      /\ RecordsAgree'
      /\ todo' \subseteq todo
  BY PutShape
<1>2. \A u \in Types : Stack(u)' = Stack(u)
  <2>1. Current(t).stack = Stack(t)
    BY DEF Inv, Current, Stack, NoIncident
  <2> QED
    BY <1>1, <2>1 DEF Stack
<1>3. TypeOK'
  BY <1>1 DEF Inv, TypeOK, history
<1>4. FailoversKept'
  <2>1. FailoversKept
    BY DEF Inv
  <2> QED
    BY <1>2, <2>1 DEF FailoversKept
<1>5. ~tangled' => Trailed'
  BY <1>2, TrailStays DEF history
<1> QED
  BY <1>1, <1>3, <1>4, <1>5 DEF Inv, history

\* The trail with one more remediation, of t by action.
LEMMA TrailGrows ==
    ASSUME Inv, NEW t \in Types, NEW action \in Actions, ~tangled,
           Stack(t)' = Append(Stack(t), [action |-> action, before |-> Found(controls, action)]),
           \A u \in Types \ {t} : Stack(u)' = Stack(u),
           undo' = Append(undo, t), controls' = Applied(controls, action), hasQueue' = hasQueue
    PROVE  Trailed'
<1> DEFINE n == Len(undo)
           s == Stack(t)
           e == [action |-> action, before |-> Found(controls, action)]
<1>1. PICK place : Placed(place) /\ \A c \in Restored : \E val : Explained(c, val, place)
  BY DEF Inv, Trailed
<1>2. /\ n \in Nat /\ DOMAIN undo = 1 .. n /\ \A i \in 1 .. n : undo[i] \in Types
      /\ controls \in Controls
  BY DEF Inv, TypeOK
<1>3. \A u \in Types : Stack(u) \in Seq(Entries) /\ DOMAIN Stack(u) = 1 .. Len(Stack(u)) /\ Len(Stack(u)) \in Nat
  BY SMTT(30) DEF Inv, TypeOK, Incidents, Stack
<1>4. e \in Entries
  BY <1>2, FoundType DEF Entries
<1>5. /\ Len(undo') = n + 1 /\ DOMAIN undo' = 1 .. n + 1
      /\ \A i \in 1 .. n : undo'[i] = undo[i]
      /\ undo'[n + 1] = t
  BY <1>2, AppendProperties DEF Inv, TypeOK
<1>6. /\ DOMAIN Stack(t)' = 1 .. Len(s) + 1
      /\ \A k \in 1 .. Len(s) : Stack(t)'[k] = s[k]
      /\ Stack(t)'[Len(s) + 1] = e
  BY <1>3, <1>4, AppendProperties
<1>14. PICK place2 : place2 = [i \in 1 .. n + 1 |-> IF i = n + 1 THEN Len(s) + 1 ELSE place[i]]
  OBVIOUS
<1> HIDE DEF s, e
<1>7. \A i \in 1 .. n : undo[i] \in Types /\ place[i] \in 1 .. Len(Stack(undo[i]))
  BY <1>1, <1>2, <1>3 DEF Placed
<1>8. /\ \A i \in 1 .. n : place2[i] = place[i]
      /\ place2[n + 1] = Len(s) + 1
  BY <1>2, <1>14
<1>9. /\ \A i \in 1 .. n : incident'[undo[i]].stack[place2[i]] = incident[undo[i]].stack[place[i]]
      /\ incident'[t].stack[place2[n + 1]] = e
  <2>1. ASSUME NEW i \in 1 .. n
        PROVE  incident'[undo[i]].stack[place2[i]] = incident[undo[i]].stack[place[i]]
    <3>1. CASE undo[i] = t
      BY <1>6, <1>7, <1>8, <3>1 DEF Stack, s
    <3>2. CASE undo[i] # t
      BY <1>7, <1>8, <3>2 DEF Stack
    <3> QED
      BY <3>1, <3>2
  <2>2. incident'[t].stack[place2[n + 1]] = e
    BY <1>6, <1>8 DEF Stack, s
  <2> QED
    BY <2>1, <2>2
<1>10. Placed(place2)'
  <2>1. (\A i \in DOMAIN undo : place2[i] \in DOMAIN Stack(undo[i]))'
    <3> SUFFICES ASSUME NEW i \in 1 .. n + 1 PROVE place2[i] \in DOMAIN incident'[undo'[i]].stack
      BY <1>5 DEF Stack
    <3>1. CASE i = n + 1
      BY <1>3, <1>5, <1>6, <1>8, <3>1 DEF Stack, s
    <3>2. CASE i # n + 1 /\ undo[i] = t
      BY <1>2, <1>3, <1>5, <1>6, <1>7, <1>8, <3>2 DEF Stack, s
    <3>3. CASE i # n + 1 /\ undo[i] # t
      BY <1>2, <1>3, <1>5, <1>7, <1>8, <3>3 DEF Stack
    <3> QED
      BY <3>1, <3>2, <3>3
  <2>2. (\A u \in Types : \A k \in DOMAIN Stack(u) : \E i \in DOMAIN undo : undo[i] = u /\ place2[i] = k)'
    <3> SUFFICES ASSUME NEW u \in Types, NEW k \in DOMAIN incident'[u].stack
                 PROVE  \E i \in 1 .. n + 1 : undo'[i] = u /\ place2[i] = k
      BY <1>5 DEF Stack
    <3>1. CASE u = t /\ k = Len(s) + 1
      BY <1>2, <1>5, <1>8, <3>1
    <3>2. CASE ~(u = t /\ k = Len(s) + 1)
      <4>1. k \in DOMAIN Stack(u)
        BY <1>3, <1>6, <3>2 DEF Stack, s
      <4>2. PICK i \in 1 .. n : undo[i] = u /\ place[i] = k
        BY <1>1, <1>2, <4>1 DEF Placed
      <4> QED
        BY <1>2, <1>5, <1>8, <4>2
    <3> QED
      BY <3>1, <3>2
  <2>3. (\A i, j \in DOMAIN undo : i < j /\ undo[i] = undo[j] => place2[i] < place2[j])'
    <3> SUFFICES ASSUME NEW i \in 1 .. n + 1, NEW j \in 1 .. n + 1, i < j, undo'[i] = undo'[j]
                 PROVE  place2[i] < place2[j]
      BY <1>5
    <3>1. i \in 1 .. n
      BY <1>2
    <3>2. CASE j = n + 1
      <4>1. undo[i] = t /\ place2[i] = place[i] /\ place[i] \in 1 .. Len(s) /\ place2[j] = Len(s) + 1
        BY <1>5, <1>7, <1>8, <3>1, <3>2 DEF s
      <4>2. Len(s) \in Nat
        BY <1>3 DEF s
      <4> QED
        BY <4>1, <4>2
    <3>3. CASE j # n + 1
      <4>1. j \in 1 .. n
        BY <1>2, <3>3
      <4> QED
        BY <1>1, <1>2, <1>5, <1>8, <3>1, <4>1 DEF Placed
    <3> QED
      BY <3>2, <3>3
  <2> QED
    BY <2>1, <2>2, <2>3 DEF Placed
<1>11. ASSUME NEW c \in Restored PROVE (\E val : Explained(c, val, place2))'
  <2>1. PICK val : Explained(c, val, place)
    BY <1>1
  <2>9. PICK val2 : val2 = [i \in 1 .. n + 2 |-> IF i = n + 2 THEN controls'[c] ELSE val[i]]
    OBVIOUS
  <2>2. val2[n + 2] = controls'[c] /\ \A i \in 1 .. n + 1 : val2[i] = val[i]
    BY <1>2, <2>9
  <2>3. Turns(c)' = Turns(c)
    BY DEF Turns
  <2>4. /\ action \notin Turns(c) => controls'[c] = controls[c]
        /\ action \in Turns(c) => e.before[c] = controls[c]
    BY <1>2, AppliedTurns DEF e
  <2>5. val[n + 1] = controls[c] /\ val[1] = Untouched[c]
    BY <2>1 DEF Explained
  <2>6. (val2[1] = Untouched[c] /\ val2[Len(undo) + 1] = controls[c])'
    <3>1. Len(undo') + 1 = n + 2 /\ 1 \in 1 .. n + 1
      BY <1>2, <1>5
    <3> QED
      BY <2>2, <2>5, <3>1
  <2>7. (\A i \in DOMAIN undo :
           Stack(undo[i])[place2[i]].action \in Turns(c) => Stack(undo[i])[place2[i]].before[c] = val2[i])'
    <3> SUFFICES ASSUME NEW i \in 1 .. n + 1, incident'[undo'[i]].stack[place2[i]].action \in Turns(c)
                 PROVE  incident'[undo'[i]].stack[place2[i]].before[c] = val2[i]
      BY <1>5, <2>3 DEF Stack
    <3>1. CASE i = n + 1
      <4>1. incident'[undo'[i]].stack[place2[i]] = e /\ e.action = action
        BY <1>5, <1>9, <3>1 DEF e
      <4> QED
        BY <2>2, <2>4, <2>5, <3>1, <4>1
    <3>2. CASE i # n + 1
      <4>1. i \in 1 .. n /\ incident'[undo'[i]].stack[place2[i]] = incident[undo[i]].stack[place[i]]
        BY <1>2, <1>5, <1>9, <3>2
      <4> QED
        BY <1>2, <2>1, <2>2, <4>1 DEF Explained, Stack
    <3> QED
      BY <3>1, <3>2
  <2>8. (\A i, j \in 1 .. Len(undo) + 1 :
           i <= j /\ (\A k \in i .. j - 1 : Stack(undo[k])[place2[k]].action \notin Turns(c)) => val2[j] = val2[i])'
    <3> SUFFICES ASSUME NEW i \in 1 .. Len(undo') + 1, NEW j \in 1 .. Len(undo') + 1, i <= j,
                        \A k \in i .. j - 1 : incident'[undo'[k]].stack[place2[k]].action \notin Turns(c)'
                 PROVE  val2[j] = val2[i]
      BY Zenon DEF Stack
    <3>4. /\ i \in 1 .. n + 2 /\ j \in 1 .. n + 2
          /\ \A k \in i .. j - 1 : incident'[undo'[k]].stack[place2[k]].action \notin Turns(c)
      BY <1>2, <1>5, <2>3
    <3>1. ASSUME NEW l \in 1 .. n + 1, i <= l, l <= j PROVE val[l] = val[i]
      <4>1. i \in 1 .. n + 1
        BY <1>2, <3>1, <3>4
      <4>2. \A k \in i .. l - 1 : k \in i .. j - 1 /\ k \in 1 .. n
        BY <1>2, <3>1, <3>4, <4>1
      <4>3. \A k \in i .. l - 1 : Stack(undo[k])[place[k]].action \notin Turns(c)
        BY <1>5, <1>9, <3>4, <4>2 DEF Stack
      <4> QED
        BY <2>1, <3>1, <4>1, <4>3 DEF Explained
    <3>2. CASE j # n + 2
      <4>1. j \in 1 .. n + 1 /\ i \in 1 .. n + 1
        BY <1>2, <3>2, <3>4, SMTT(30)
      <4>2. val[j] = val[i]
        BY <3>1, <4>1
      <4> QED
        BY <2>2, <4>1, <4>2
    <3>3. CASE j = n + 2 /\ i # n + 2
      <4>1. i \in 1 .. n + 1 /\ n + 1 \in i .. j - 1 /\ n + 1 \in 1 .. n + 1 /\ i <= n + 1 /\ n + 1 <= j
        BY <1>2, <3>3, <3>4
      <4>2. val[n + 1] = val[i]
        BY <3>1, <4>1
      <4>3. action \notin Turns(c)
        <5>1. incident'[undo'[n + 1]].stack[place2[n + 1]] = e /\ e.action = action
          BY <1>5, <1>9 DEF e
        <5> QED
          BY <3>4, <4>1, <5>1
      <4> QED
        BY <2>2, <2>4, <2>5, <3>3, <4>1, <4>2, <4>3
    <3> QED
      BY <1>2, <3>2, <3>3, <3>4
  <2> QED
    BY <2>6, <2>7, <2>8 DEF Explained
<1> QED
  BY <1>10, <1>11 DEF Trailed

LEMMA CurrentType ==
    ASSUME Inv, NEW t \in Types
    PROVE  /\ Current(t) \in Incidents /\ Current(t).status # "none"
           /\ Current(t).stack = Stack(t)
<1>1. NoIncident \in Incidents
  BY IncidentAssumption DEF NoIncident, Incidents, Open
<1> QED
  BY <1>1 DEF Inv, TypeOK, Current, Active, Stack, NoIncident, Incidents, Open

LEMMA TriedType ==
    ASSUME NEW i \in Incidents, i.attempts < MaxRemediations, NEW status \in Open, NEW stack \in Seq(Entries)
    PROVE  /\ Tried(i, status, stack) \in Incidents
           /\ Tried(i, status, stack).status = status /\ Tried(i, status, stack).stack = stack
<1>1. i.attempts + 1 \in 0 .. MaxRemediations /\ Cooldown \in 0 .. Cooldown
  BY IncidentAssumption DEF Incidents
<1>2. Tried(i, status, stack) \in Incidents
  BY <1>1 DEF Tried, Incidents
<1>3. Tried(i, status, stack).status = status /\ Tried(i, status, stack).stack = stack
  BY DEF Tried, Incidents
<1> QED
  BY <1>2, <1>3

\* A playbook that ran.
LEMMA RemediationKeepsInv ==
    ASSUME Inv, NEW t \in Types, t \in todo, NEW action \in Actions, action = "failover" => t = Instability,
           Current(t).attempts < MaxRemediations,
           Put(t, Tried(Current(t), "remediating",
                  Append(Current(t).stack, [action |-> action, before |-> Found(controls, action)]))),
           controls' = Applied(controls, action),
           undo' = IF tangled THEN undo ELSE Append(undo, t),
           UNCHANGED <<hasQueue, baseline, detected, tangled, crashes>>
    PROVE  Inv'
<1> DEFINE e == [action |-> action, before |-> Found(controls, action)]
           s == Append(Stack(t), e)
           i == Tried(Current(t), "remediating", s)
<1>1. controls \in Controls /\ Stack(t) \in Seq(Entries)
  BY DEF Inv, TypeOK, Incidents, Stack
<1>2. e \in Entries
  BY <1>1, FoundType DEF Entries
<1>3. s \in Seq(Entries)
  BY <1>1, <1>2, AppendProperties
<1>4. Current(t) \in Incidents /\ Current(t).stack = Stack(t)
  BY CurrentType
<1>5. i \in Incidents /\ i.status = "remediating" /\ i.stack = s
  BY <1>3, <1>4, TriedType, ZenonT(60) DEF Open
<1>6. Put(t, i)
  BY <1>4
<1> HIDE DEF s, i
<1>7. /\ incident' \in [Types -> Incidents] /\ order' \in Seq(Types) /\ order' # <<>>
      /\ \A u \in Types : incident'[u] = IF u = t THEN i ELSE incident[u]
      /\ \A u \in Types : Active(u)' <=> u \in Keys(order)'
      /\ OrderOnce'
      /\ \A u \in Types : ~Active(u)' => (incident[u] = NoIncident)'
      /\ record' \in [Types -> Open \cup {"none", "resolved"}]
      /\ RecordsAgree'
      /\ todo' \subseteq todo
  BY <1>5, <1>6, PutShape
<1>8. Stack(t)' = s /\ \A u \in Types \ {t} : Stack(u)' = Stack(u)
  BY <1>5, <1>7 DEF Stack
<1>9. controls' \in Controls
  BY <1>1, AppliedType
<1>10. TypeOK'
  <2>1. undo' \in Seq(Types)
    BY AppendProperties DEF Inv, TypeOK
  <2> QED
    BY <1>7, <1>9, <2>1 DEF Inv, TypeOK
<1>11. FailoversKept'
  <2>1. /\ DOMAIN s = 1 .. Len(Stack(t)) + 1 /\ DOMAIN Stack(t) = 1 .. Len(Stack(t)) /\ Len(Stack(t)) \in Nat
        /\ \A k \in 1 .. Len(Stack(t)) : s[k] = Stack(t)[k]
        /\ s[Len(Stack(t)) + 1] = e
    BY <1>1, <1>2, AppendProperties DEF s
  <2>2. FailoversKept
    BY DEF Inv
  <2>3. (\A u \in Types : \A k \in DOMAIN Stack(u) : Stack(u)[k].action = "failover" => u = Instability)'
    <3> SUFFICES ASSUME NEW u \in Types, NEW k \in DOMAIN Stack(u)', Stack(u)'[k].action = "failover"
                 PROVE  u = Instability
      OBVIOUS
    <3>1. CASE u # t
      BY <1>8, <2>2, <3>1 DEF FailoversKept
    <3>2. CASE u = t /\ k \in DOMAIN Stack(t)
      BY <1>8, <2>1, <2>2, <3>2 DEF FailoversKept
    <3>3. CASE u = t /\ k = Len(Stack(t)) + 1
      BY <1>8, <2>1, <3>3
    <3> QED
      BY <1>8, <2>1, <3>1, <3>2, <3>3
  <2>4. ASSUME controls'.preferred # 0
        PROVE  Instability \in Types /\ \E k \in DOMAIN Stack(Instability)' : Stack(Instability)'[k].action = "failover"
    <3>1. CASE action = "failover"
      <4>1. t = Instability /\ Len(Stack(t)) + 1 \in DOMAIN Stack(t)'
            /\ Stack(t)'[Len(Stack(t)) + 1].action = "failover"
        BY <1>8, <2>1, <3>1
      <4> QED
        BY <4>1
    <3>2. CASE action # "failover"
      <4>1. controls.preferred # 0
        BY <1>1, <2>4, <3>2, AppliedTurns DEF Restored
      <4>2. PICK k \in DOMAIN Stack(Instability) : Stack(Instability)[k].action = "failover"
        BY <2>2, <4>1 DEF FailoversKept
      <4>3. Instability \in Types
        BY <2>2, <4>1 DEF FailoversKept
      <4>4. k \in DOMAIN Stack(Instability)' /\ Stack(Instability)'[k] = Stack(Instability)[k]
        <5>1. CASE Instability = t
          BY <1>8, <2>1, <4>2, <5>1
        <5>2. CASE Instability # t
          BY <1>8, <4>2, <4>3, <5>2
        <5> QED
          BY <5>1, <5>2
      <4> QED
        BY <4>2, <4>3, <4>4
    <3> QED
      BY <3>1, <3>2
  <2> QED
    BY <2>3, <2>4 DEF FailoversKept
<1>12. tangled' => undo' = <<>>
  BY DEF Inv
<1>13. ~tangled' => Trailed'
  BY <1>8, TrailGrows DEF s
<1> QED
  BY <1>7, <1>10, <1>11, <1>12, <1>13 DEF Inv

LEMMA RemediateKeepsInv ==
    ASSUME Inv, NEW t \in Types, Remediate(t)
    PROVE  Inv'
<1> DEFINE now    == Current(t)
           action == SelectAction(t, now.attempts + 1)
<1>1. /\ now \in Incidents /\ now.status # "none" /\ now.stack = Stack(t) /\ now.stack \in Seq(Entries)
  BY CurrentType DEF Incidents
<1>2. now.attempts < MaxRemediations /\ t \in todo
  <2>1. now.attempts \in Nat /\ MaxRemediations \in Nat
    BY <1>1, IncidentAssumption DEF Incidents
  <2> QED
    BY <2>1 DEF Remediate, Exhausted, First
<1>3. action \in Actions /\ (action = "failover" => t = Instability)
  BY SelectActionType
<1>4. CASE action \in QueueActions /\ ~hasQueue
  <2>1. Put(t, Tried(now, "escalated", now.stack)) /\ UNCHANGED <<controls, undo>>
        /\ UNCHANGED <<hasQueue, baseline, detected, tangled, crashes>>
    BY <1>4 DEF Remediate
  <2>2. /\ Tried(now, "escalated", now.stack) \in Incidents
        /\ Tried(now, "escalated", now.stack).status = "escalated"
        /\ Tried(now, "escalated", now.stack).stack = now.stack
    BY <1>1, <1>2, TriedType DEF Open
  <2> QED
    BY <1>2, <2>1, <2>2, NotedKeepsInv DEF history
<1>5. CASE ~(action \in QueueActions /\ ~hasQueue)
  <2>1. /\ Put(t, Tried(now, "remediating",
                Append(now.stack, [action |-> action, before |-> Found(controls, action)])))
        /\ controls' = Applied(controls, action)
        /\ undo' = IF tangled THEN undo ELSE Append(undo, t)
        /\ UNCHANGED <<hasQueue, baseline, detected, tangled, crashes>>
    BY <1>5 DEF Remediate
  <2> HIDE DEF action
  <2> QED
    BY <1>2, <1>3, <2>1, RemediationKeepsInv
<1> QED
  BY <1>4, <1>5

LEMMA HandleDetectionKeepsInv ==
    ASSUME Inv, NEW t \in Types, HandleDetection(t)
    PROVE  Inv'
<1>1. Current(t) \in Incidents /\ Current(t).status # "none"
  BY CurrentType
<1>2. CASE KeepEscalated(t)
  BY <1>1, <1>2, NotedKeepsInv DEF KeepEscalated, First
<1>3. CASE CoolDown(t)
  <2> DEFINE i == [Current(t) EXCEPT !.status = "remediating"]
  <2>1. i \in Incidents /\ i.status # "none" /\ i.stack = Current(t).stack
    BY <1>1 DEF Incidents, Open
  <2>2. t \in todo /\ Put(t, i) /\ UNCHANGED <<hasQueue, controls, baseline, detected, history, crashes>>
    BY <1>3 DEF CoolDown, First
  <2> HIDE DEF i
  <2> QED
    BY <2>1, <2>2, NotedKeepsInv
<1>4. CASE Escalate(t)
  <2> DEFINE i == [Current(t) EXCEPT !.status = "escalated"]
  <2>1. i \in Incidents /\ i.status # "none" /\ i.stack = Current(t).stack
    BY <1>1 DEF Incidents, Open
  <2>2. t \in todo /\ Put(t, i) /\ UNCHANGED <<hasQueue, controls, baseline, detected, history, crashes>>
    BY <1>4 DEF Escalate, First
  <2> HIDE DEF i
  <2> QED
    BY <2>1, <2>2, NotedKeepsInv
<1>5. CASE Remediate(t)
  BY <1>5, RemediateKeepsInv
<1> QED
  BY <1>2, <1>3, <1>4, <1>5 DEF HandleDetection

\* From the m-th on, the remediations in force are all those of t.
NewestFrom(t, m) ==
    /\ m \in 1 .. Len(undo) + 1
    /\ \A i \in 1 .. m - 1 : undo[i] # t
    /\ \A i \in m .. Len(undo) : undo[i] = t

\* The trail without the remediations of t, which were the newest.
LEMMA TrailShrinks ==
    ASSUME Inv, NEW t \in Types, ~tangled, NEW m, NewestFrom(t, m),
           \A u \in Types \ {t} : Stack(u)' = Stack(u), Stack(t)' = <<>>,
           undo' = SubSeq(undo, 1, m - 1), hasQueue' = hasQueue,
           m # 1 => order' # <<>>,
           controls' = AfterResolution(Undone(controls, Stack(t)), order')
    PROVE  Trailed'
<1> USE DEF NewestFrom
<1> DEFINE n == Len(undo)
           s == Stack(t)
<1>1. PICK place : Placed(place) /\ \A c \in Restored : \E val : Explained(c, val, place)
  BY DEF Inv, Trailed
<1>2. /\ n \in Nat /\ DOMAIN undo = 1 .. n /\ \A i \in 1 .. n : undo[i] \in Types
      /\ controls \in Controls
  BY DEF Inv, TypeOK
<1>3. /\ Len(undo') = m - 1 /\ DOMAIN undo' = 1 .. m - 1
      /\ \A i \in 1 .. m - 1 : undo'[i] = undo[i] /\ i \in 1 .. n
  BY <1>2, SubSeqProperties
<1>4. s \in Seq(Entries)
  BY DEF Inv, TypeOK, Incidents, Stack
<1>5. \A i \in 1 .. m - 1 : incident'[undo[i]].stack = incident[undo[i]].stack
  BY <1>2, <1>3 DEF Stack
<1>6. \A i \in m .. n : i \in 1 .. n
  BY <1>2
<1>7. Placed(place)'
  <2>1. (\A i \in DOMAIN undo : place[i] \in DOMAIN Stack(undo[i]))'
    <3> SUFFICES ASSUME NEW i \in 1 .. m - 1 PROVE place[i] \in DOMAIN incident'[undo'[i]].stack
      BY <1>3 DEF Stack
    <3> QED
      BY <1>1, <1>2, <1>3, <1>5 DEF Placed, Stack
  <2>2. (\A u \in Types : \A k \in DOMAIN Stack(u) : \E i \in DOMAIN undo : undo[i] = u /\ place[i] = k)'
    <3> SUFFICES ASSUME NEW u \in Types, NEW k \in DOMAIN Stack(u)'
                 PROVE  \E i \in 1 .. m - 1 : undo'[i] = u /\ place[i] = k
      BY <1>3 DEF Stack
    <3>1. u # t /\ k \in DOMAIN Stack(u)
      OBVIOUS
    <3>2. PICK i \in 1 .. n : undo[i] = u /\ place[i] = k
      BY <1>1, <1>2, <3>1 DEF Placed
    <3>3. i \in 1 .. m - 1
      BY <1>2, <3>1, <3>2
    <3> QED
      BY <1>3, <3>2, <3>3
  <2>3. (\A i, j \in DOMAIN undo : i < j /\ undo[i] = undo[j] => place[i] < place[j])'
    BY <1>1, <1>2, <1>3 DEF Placed
  <2> QED
    BY <2>1, <2>2, <2>3 DEF Placed
<1>8. ASSUME NEW c \in Restored PROVE (\E val : Explained(c, val, place))'
  <2>1. PICK val : Explained(c, val, place)
    BY <1>1
  <2>2. Turns(c)' = Turns(c)
    BY DEF Turns
  <2>3. Undone(controls, s)[c] = val[m]
    <3>1. \A i \in m .. n : place[i] \in DOMAIN s
      BY <1>1, <1>2, <1>6 DEF Placed
    <3>2. \A k \in DOMAIN s : \E i \in m .. n : place[i] = k
      <4> SUFFICES ASSUME NEW k \in DOMAIN s PROVE \E i \in m .. n : place[i] = k
        OBVIOUS
      <4>1. PICK i \in 1 .. n : undo[i] = t /\ place[i] = k
        BY <1>1, <1>2 DEF Placed
      <4>2. i \in m .. n
        BY <1>2, <4>1
      <4> QED
        BY <4>1, <4>2
    <3>3. \A i, j \in m .. n : i < j => place[i] < place[j]
      BY <1>1, <1>2, <1>6 DEF Placed
    <3>4. \A i \in m .. n : s[place[i]].action \in Turns(c) => s[place[i]].before[c] = val[i]
      BY <1>2, <1>6, <2>1 DEF Explained
    <3>5. \A i, j \in m .. n + 1 :
             i <= j /\ (\A k \in i .. j - 1 : s[place[k]].action \notin Turns(c)) => val[j] = val[i]
      <4> SUFFICES ASSUME NEW i \in m .. n + 1, NEW j \in m .. n + 1, i <= j,
                          \A k \in i .. j - 1 : s[place[k]].action \notin Turns(c)
                   PROVE  val[j] = val[i]
        OBVIOUS
      <4>1. i \in 1 .. n + 1 /\ j \in 1 .. n + 1 /\ \A k \in i .. j - 1 : k \in m .. n
        BY <1>2
      <4>2. \A k \in i .. j - 1 : Stack(undo[k])[place[k]].action \notin Turns(c)
        BY <4>1
      <4> QED
        BY <2>1, <4>1, <4>2 DEF Explained
    <3> HIDE DEF s, n
    <3>8. m \in 1 .. n + 1
      BY DEF n
    <3>6. (IF Turning(s, Turns(c)) = {} THEN val[n + 1] ELSE s[Min(Turning(s, Turns(c)))].before[c]) = val[m]
      <4>1. Unwinds(s, m, n, place, val, Turns(c), c)
        BY <3>1, <3>2, <3>3, <3>4, <3>5 DEF Unwinds
      <4> QED
        BY <1>2, <1>4, <3>8, <4>1, RolledBack DEF n
    <3>7. val[n + 1] = controls[c]
      BY <2>1 DEF Explained, n
    <3> QED
      BY <1>2, <1>4, <3>6, <3>7, UndoneFields
  <2>4. controls'[c] = val[m]
    <3>1. Undone(controls, s) \in Controls
      BY <1>2, <1>4, UndoneFields
    <3>2. CASE order' # <<>>
      BY <2>3, <3>2 DEF AfterResolution
    <3>3. CASE order' = <<>>
      <4>1. val[m] = Untouched[c]
        BY <2>1, <3>3 DEF Explained
      <4>2. CASE c = "safe"
        <5>1. Untouched[c] = FALSE /\ controls'[c] = FALSE
          BY <3>1, <3>3, <4>2 DEF AfterResolution, Untouched, Controls
        <5> QED
          BY <4>1, <5>1
      <4>3. CASE c # "safe"
        BY <2>3, <3>1, <3>3, <4>3 DEF AfterResolution, Controls, Restored
      <4> QED
        BY <4>2, <4>3
    <3> QED
      BY <3>2, <3>3
  <2>5. (val[1] = Untouched[c] /\ val[Len(undo) + 1] = controls[c])'
    <3>1. Len(undo') + 1 = m
      BY <1>3
    <3> QED
      BY <2>1, <2>4, <3>1 DEF Explained
  <2>6. (\A i \in DOMAIN undo :
           Stack(undo[i])[place[i]].action \in Turns(c) => Stack(undo[i])[place[i]].before[c] = val[i])'
    <3> SUFFICES ASSUME NEW i \in 1 .. m - 1, incident'[undo'[i]].stack[place[i]].action \in Turns(c)
                 PROVE  incident'[undo'[i]].stack[place[i]].before[c] = val[i]
      BY <1>3, <2>2 DEF Stack
    <3> QED
      BY <1>2, <1>3, <1>5, <2>1 DEF Explained, Stack
  <2>7. (\A i, j \in 1 .. Len(undo) + 1 :
           i <= j /\ (\A k \in i .. j - 1 : Stack(undo[k])[place[k]].action \notin Turns(c)) => val[j] = val[i])'
    <3>1. Len(undo') + 1 = m
      BY <1>3
    <3>2. ASSUME NEW i \in 1 .. Len(undo') + 1, NEW j \in 1 .. Len(undo') + 1, i <= j,
                 \A k \in i .. j - 1 : incident'[undo'[k]].stack[place[k]].action \notin Turns(c)'
          PROVE  val[j] = val[i]
      <4>1. i \in 1 .. n + 1 /\ j \in 1 .. n + 1 /\ \A k \in i .. j - 1 : k \in 1 .. m - 1
        BY <1>2, <3>1
      <4>2. \A k \in i .. j - 1 : Stack(undo[k])[place[k]].action \notin Turns(c)
        BY <1>3, <1>5, <2>2, <3>2, <4>1 DEF Stack
      <4> QED
        BY <2>1, <3>2, <4>1, <4>2 DEF Explained
    <3> QED
      BY <3>2, Zenon DEF Stack
  <2> QED
    BY <2>5, <2>6, <2>7 DEF Explained
<1> QED
  BY <1>7, <1>8 DEF Trailed

LEMMA ResolveIncidentKeepsInv ==
    ASSUME Inv, ResolveIncident
    PROVE  Inv'
<1> DEFINE n == Len(undo)
           mine(t) == {i \in DOMAIN undo : undo[i] = t}
<1>1. PICK k \in DOMAIN order, t \in Keys(order) :
        /\ t = order[k]
        /\ order' = SubSeq(order, 1, k - 1) \o SubSeq(order, k + 1, Len(order))
        /\ controls' = AfterResolution(Undone(controls, Stack(t)), order')
        /\ incident' = [incident EXCEPT ![t] = NoIncident]
        /\ Persist(t, "resolved")
        /\ tangled' = (tangled \/ ~Newest(t))
        /\ undo' = IF tangled' THEN <<>>
                   ELSE IF mine(t) = {} THEN undo ELSE SubSeq(undo, 1, Min(mine(t)) - 1)
  <2>1. \A k \in DOMAIN order : order[k] \in Keys(order)
    BY DEF Keys
  <2> QED
    BY <2>1 DEF ResolveIncident, Stack
<1>2. UNCHANGED <<hasQueue, baseline, detected, todo, crashes>>
  BY DEF ResolveIncident, evaluation
<1>3. /\ t \in Types
      /\ incident \in [Types -> Incidents] /\ controls \in Controls
      /\ n \in Nat /\ DOMAIN undo = 1 .. n /\ undo \in Seq(Types)
      /\ record \in [Types -> Open \cup {"none", "resolved"}]
  BY <1>1 DEF Inv, TypeOK, Keys
<1>4. NoIncident \in Incidents
  BY IncidentAssumption DEF NoIncident, Incidents, Open
<1>5. /\ incident' \in [Types -> Incidents] /\ incident'[t] = NoIncident
      /\ \A u \in Types \ {t} : incident'[u] = incident[u]
  BY <1>1, <1>3, <1>4
<1>6. /\ order' \in Seq(Types) /\ OrderOnce'
      /\ Keys(order)' = Keys(order) \ {t}
  <2>1. order \in Seq(Types) /\ OrderOnce
    BY DEF Inv, TypeOK
  <2>2. order' \in Seq(Types) /\ Without(order', order, k)
    BY <1>1, <2>1, WithoutIndex
  <2>3. Keys(order') = Keys(order) \ {order[k]} /\ Once(order')
    BY <2>1, <2>2, Removed, Zenon DEF OrderOnce
  <2> QED
    BY <1>1, <2>2, <2>3 DEF OrderOnce, Keys
<1>7. \A u \in Types : Active(u)' <=> u \in Keys(order)'
  <2>1. \A u \in Types : Active(u) <=> u \in Keys(order)
    BY DEF Inv, TypeOK
  <2> QED
    BY <1>5, <1>6, <2>1 DEF Active, NoIncident
<1>8. \A u \in Types : ~Active(u)' => (incident[u] = NoIncident)'
  BY <1>5 DEF Inv, Active
<1>9. /\ Stack(t) \in Seq(Entries) /\ Stack(t)' = <<>>
      /\ \A u \in Types \ {t} : Stack(u)' = Stack(u)
      /\ controls' = AfterResolution(Undone(controls, Stack(t)), order')
  <2>1. incident[t] \in Incidents /\ NoIncident.stack = <<>>
    BY <1>3 DEF NoIncident
  <2>2. Stack(t) \in Seq(Entries)
    BY <2>1 DEF Stack, Incidents
  <2>3. Stack(t)' = <<>> /\ \A u \in Types \ {t} : Stack(u)' = Stack(u)
    BY <1>5, <2>1, Zenon DEF Stack
  <2>4. controls' = AfterResolution(Undone(controls, Stack(t)), order')
    BY <1>1 DEF Stack
  <2> QED
    BY <2>2, <2>3, <2>4
<1>10. /\ controls' \in Controls
       /\ order' = <<>> => ~controls'.safe
       /\ controls'.preferred = Undone(controls, Stack(t)).preferred
  <2>1. Undone(controls, Stack(t)) \in Controls
    BY <1>3, <1>9, UndoneFields
  <2> QED
    BY <1>9, <2>1 DEF AfterResolution, Controls
<1>11. record' \in [Types -> Open \cup {"none", "resolved"}] /\ RecordsAgree'
  <2>1. record' = [record EXCEPT ![t] = "resolved"]
    BY <1>1 DEF Persist
  <2>2. RecordsAgree
    BY DEF Inv
  <2>3. record' \in [Types -> Open \cup {"none", "resolved"}]
    BY <1>3, <2>1 DEF Open
  <2> QED
    BY <1>2, <1>3, <1>5, <2>1, <2>2, <2>3 DEF RecordsAgree, Active, NoIncident, Open
<1>12. FailoversKept'
  <2>1. FailoversKept
    BY DEF Inv
  <2>2. \A u \in Types : \A i \in DOMAIN Stack(u)' : u # t /\ i \in DOMAIN Stack(u) /\ Stack(u)'[i] = Stack(u)[i]
    <3> SUFFICES ASSUME NEW u \in Types, NEW i \in DOMAIN Stack(u)'
                 PROVE  u # t /\ i \in DOMAIN Stack(u) /\ Stack(u)'[i] = Stack(u)[i]
      OBVIOUS
    <3>1. DOMAIN <<>> = {}
      OBVIOUS
    <3>2. u # t
      BY <1>9, <3>1, Zenon
    <3> QED
      BY <1>9, <3>2, Zenon
  <2>3. (\A u \in Types : \A i \in DOMAIN Stack(u) : Stack(u)[i].action = "failover" => u = Instability)'
    BY <2>1, <2>2 DEF FailoversKept
  <2>4. ASSUME controls'.preferred # 0
        PROVE  Instability \in Types /\ \E i \in DOMAIN Stack(Instability)' : Stack(Instability)'[i].action = "failover"
    <3>1. Turning(Stack(t), {"failover"}) = {} /\ controls.preferred # 0
      BY <1>3, <1>9, <1>10, <2>4, UndoneFields
    <3>2. PICK i \in DOMAIN Stack(Instability) : Stack(Instability)[i].action = "failover"
      BY <2>1, <3>1 DEF FailoversKept
    <3>3. Instability \in Types /\ t # Instability
      BY <2>1, <3>1, <3>2 DEF FailoversKept, Turning
    <3> QED
      BY <1>9, <3>2, <3>3
  <2> QED
    BY <2>3, <2>4 DEF FailoversKept
<1>15. /\ hasQueue' \in BOOLEAN /\ baseline' \in 0 .. MaxRejected /\ crashes' \in 0 .. MaxCrashes
       /\ detected' \subseteq Types /\ todo' \subseteq detected'
       /\ tangled' \in BOOLEAN
  BY <1>1, <1>2 DEF Inv, TypeOK, Newest
<1>13. CASE tangled'
  <2>1. undo' = <<>>
    BY <1>1, <1>13
  <2>2. undo' \in Seq(Types)
    BY <2>1
  <2>3. TypeOK'
    BY <1>2, <1>5, <1>6, <1>7, <1>10, <1>11, <1>15, <2>2 DEF TypeOK
  <2> QED
    BY <1>6, <1>8, <1>10, <1>11, <1>12, <1>13, <2>1, <2>3 DEF Inv
<1>14. CASE ~tangled'
  <2>1. ~tangled /\ Newest(t) /\ undo' = IF mine(t) = {} THEN undo ELSE SubSeq(undo, 1, Min(mine(t)) - 1)
    BY <1>1, <1>14
  <2>2. mine(t) # {} => Min(mine(t)) \in mine(t) /\ \A i \in mine(t) : Min(mine(t)) <= i
    <3>1. mine(t) \in SUBSET (1 .. n)
      BY <1>3
    <3> HIDE DEF mine, n
    <3> QED
      BY <1>3, <3>1, MinIsLeast
  <2>3. PICK m : m = IF mine(t) = {} THEN n + 1 ELSE Min(mine(t))
    OBVIOUS
  <2>4. NewestFrom(t, m)
    <3>1. CASE mine(t) = {}
      BY <1>3, <2>3, <3>1 DEF NewestFrom
    <3>2. CASE mine(t) # {}
      <4>1. m \in 1 .. n /\ undo[m] = t /\ \A i \in 1 .. n : undo[i] = t => m <= i
        BY <1>3, <2>2, <2>3, <3>2
      <4>2. \A j \in DOMAIN undo : j > m => undo[j] = t
        BY <1>3, <2>1, <4>1 DEF Newest
      <4>3. \A i \in 1 .. m - 1 : i \in 1 .. n /\ ~(m <= i)
        BY <1>3, <4>1
      <4>4. \A i \in m .. n : undo[i] = t
        <5> SUFFICES ASSUME NEW i \in m .. n PROVE undo[i] = t
          OBVIOUS
        <5>1. i \in 1 .. n /\ (i = m \/ i > m)
          BY <1>3, <4>1
        <5> QED
          BY <1>3, <4>1, <4>2, <5>1
      <4> QED
        BY <1>3, <4>1, <4>3, <4>4 DEF NewestFrom
    <3> QED
      BY <3>1, <3>2
  <2>5. undo' = SubSeq(undo, 1, m - 1)
    <3>1. CASE mine(t) = {}
      <4>1. m - 1 = n
        BY <1>3, <2>3, <3>1
      <4>2. SubSeq(undo, 1, n) = undo
        BY <1>3, SubSeqFull
      <4> QED
        BY <2>1, <3>1, <4>1, <4>2
    <3>2. CASE mine(t) # {}
      BY <2>1, <2>3, <3>2
    <3> QED
      BY <3>1, <3>2
  <2>6. undo' \in Seq(Types)
    <3>1. m \in 1 .. n + 1 /\ \A i \in 1 .. m - 1 : undo[i] \in Types
      BY <1>3, <2>4 DEF NewestFrom
    <3> QED
      BY <1>3, <2>5, <3>1, SubSeqProperties
  <2>7. ASSUME m # 1 PROVE order' # <<>>
    <3>1. 1 \in 1 .. n /\ undo[1] # t /\ undo[1] \in Types
      BY <1>3, <2>4, <2>7 DEF NewestFrom
    <3>2. DOMAIN Stack(undo[1]) # {}
      <4>1. PICK place : Placed(place)
        BY <2>1 DEF Inv, Trailed
      <4> QED
        BY <1>3, <3>1, <4>1 DEF Placed
    <3>3. Active(undo[1])
      BY <3>1, <3>2 DEF Inv, Stack, NoIncident
    <3>4. undo[1] \in Keys(order)'
      BY <1>6, <3>1, <3>3 DEF Inv, TypeOK
    <3> QED
      BY <3>4 DEF Keys
  <2>8. Trailed'
    <3> HIDE DEF mine, n
    <3>1. m # 1 => order' # <<>>
      BY <2>7
    <3> QED
      BY <1>2, <1>3, <1>9, <2>1, <2>4, <2>5, <3>1, TrailShrinks, Zenon
  <2>9. TypeOK'
    BY <1>2, <1>5, <1>6, <1>7, <1>10, <1>11, <1>15, <2>6 DEF TypeOK
  <2> QED
    BY <1>6, <1>8, <1>10, <1>11, <1>12, <1>14, <2>8, <2>9 DEF Inv
<1> QED
  BY <1>13, <1>14

LEMMA EvaluateKeepsInv ==
    ASSUME Inv, Evaluate
    PROVE  Inv'
<1>1. UNCHANGED <<hasQueue, incident, order, controls, record, history, crashes>>
  BY DEF Evaluate
<1>2. todo' \subseteq detected' /\ detected' \subseteq Types /\ baseline' \in 0 .. MaxRejected
  BY DEF Evaluate
<1>3. TypeOK'
  BY <1>1, <1>2 DEF Inv, TypeOK, history, Active
<1>4. ~tangled' => Trailed'
  BY <1>1, TrailStays DEF Stack, history
<1> QED
  BY <1>1, <1>3, <1>4 DEF Inv, OrderOnce, RecordsAgree, FailoversKept, Stack, Active, history

LEMMA TickKeepsInv ==
    ASSUME Inv, Tick
    PROVE  Inv'
<1>1. UNCHANGED <<hasQueue, order, controls, baseline, detected, todo, record, undo, tangled, crashes>>
  BY DEF Tick, evaluation, history
<1>2. incident \in [Types -> Incidents]
  BY DEF Inv, TypeOK
<1>3. /\ incident' \in [Types -> Incidents]
      /\ \A u \in Types : /\ incident'[u].status = incident[u].status
                          /\ incident'[u].stack = incident[u].stack
                          /\ incident[u] = NoIncident => incident'[u] = NoIncident
  <2> DEFINE ticked(u) == [incident[u] EXCEPT !.cooldown = IF @ > 0 THEN @ - 1 ELSE 0]
  <2>1. ASSUME NEW u \in Types
        PROVE  /\ ticked(u) \in Incidents /\ ticked(u).status = incident[u].status
               /\ ticked(u).stack = incident[u].stack
               /\ incident[u] = NoIncident => ticked(u) = NoIncident
    <3>1. incident[u] \in Incidents
      BY <1>2
    <3>2. (IF incident[u].cooldown > 0 THEN incident[u].cooldown - 1 ELSE 0) \in 0 .. Cooldown
      BY <3>1, IncidentAssumption DEF Incidents
    <3>3. ticked(u) \in Incidents
      BY <3>1, <3>2 DEF Incidents
    <3> QED
      BY <3>1, <3>3 DEF Incidents, NoIncident
  <2>2. incident' = [u \in Types |-> ticked(u)]
    BY DEF Tick
  <2> HIDE DEF ticked
  <2> QED
    BY <2>1, <2>2
<1>4. TypeOK'
  BY <1>1, <1>3 DEF Inv, TypeOK, Active
<1>5. ~tangled' => Trailed'
  BY <1>1, <1>3, TrailStays DEF Stack
<1>6. FailoversKept'
  BY <1>1, <1>3 DEF Inv, FailoversKept, Stack
<1> QED
  BY <1>1, <1>3, <1>4, <1>5, <1>6 DEF Inv, OrderOnce, RecordsAgree, Active

\* With no incident there is nothing to explain.
LEMMA Untroubled ==
    ASSUME incident = [t \in Types |-> NoIncident], undo = <<>>, controls = Untouched
    PROVE  FailoversKept /\ Trailed
<1>1. \A t \in Types : DOMAIN Stack(t) = {}
  BY DEF Stack, NoIncident
<1>2. FailoversKept
  BY <1>1 DEF FailoversKept, Untouched
<1>3. PICK val : val = [c \in Restored |-> [i \in {1} |-> Untouched[c]]]
  OBVIOUS
<1>4. Placed(<<>>)
  BY <1>1 DEF Placed
<1>5. ASSUME NEW c \in Restored PROVE \E v : Explained(c, v, <<>>)
  <2>1. Len(undo) = 0 /\ DOMAIN undo = {}
    OBVIOUS
  <2>2. Explained(c, val[c], <<>>)
    BY <1>3, <2>1 DEF Explained
  <2> QED
    BY <2>2
<1> QED
  BY <1>2, <1>4, <1>5 DEF Trailed

LEMMA FreshType ==
    /\ Untouched \in Controls /\ NoIncident \in Incidents
    /\ [t \in Types |-> NoIncident] \in [Types -> Incidents]
    /\ <<>> \in Seq(Types) /\ Keys(<<>>) = {} /\ Once(<<>>)
BY IncidentAssumption DEF Untouched, Controls, WindowSteps, NoIncident, Incidents, Open, Keys, Once

LEMMA RestartKeepsInv ==
    ASSUME Inv, Restart
    PROVE  Inv'
<1>1. /\ incident' = [t \in Types |-> NoIncident] /\ order' = <<>> /\ controls' = Untouched
      /\ baseline' = 0 /\ detected' = {} /\ todo' = {}
      /\ undo' = <<>> /\ tangled' = FALSE /\ crashes' = crashes + 1 /\ crashes < MaxCrashes
      /\ hasQueue' = hasQueue /\ record' = record
  BY DEF Restart
<1>2. crashes' \in 0 .. MaxCrashes /\ crashes' > 0 /\ baseline' \in 0 .. MaxRejected
  BY <1>1, IncidentAssumption DEF Inv, TypeOK
<1>3. \A t \in Types : ~Active(t)' /\ incident'[t] = NoIncident
  BY <1>1 DEF Active, NoIncident
<1>4. TypeOK'
  BY <1>1, <1>2, <1>3, FreshType DEF Inv, TypeOK
<1>5. RecordsAgree' /\ OrderOnce'
  BY <1>1, <1>2, <1>3, FreshType DEF RecordsAgree, OrderOnce
<1>6. FailoversKept' /\ Trailed'
  <2>1. \A t \in Types : DOMAIN Stack(t)' = {}
    BY <1>3 DEF Stack, NoIncident
  <2>2. FailoversKept'
    BY <1>1, <2>1 DEF FailoversKept, Untouched
  <2>3. PICK val : val = [c \in Restored |-> [i \in {1} |-> Untouched[c]]]
    OBVIOUS
  <2>4. Placed(<<>>)'
    BY <1>1, <2>1 DEF Placed
  <2>5. ASSUME NEW c \in Restored PROVE (\E v : Explained(c, v, <<>>))'
    <3>1. Len(undo') = 0 /\ DOMAIN undo' = {}
      BY <1>1
    <3>2. Explained(c, val[c], <<>>)'
      BY <1>1, <2>3, <3>1 DEF Explained, Untouched
    <3> QED
      BY <3>2
  <2> QED
    BY <2>2, <2>4, <2>5 DEF Trailed
<1> QED
  BY <1>1, <1>3, <1>4, <1>5, <1>6 DEF Inv, Untouched

LEMMA Initially == Init => Inv
<1> SUFFICES ASSUME Init PROVE Inv
  OBVIOUS
<1>1. \A t \in Types : ~Active(t) /\ incident[t] = NoIncident
  BY DEF Init, Active, NoIncident
<1>2. TypeOK
  <2>1. /\ hasQueue \in BOOLEAN /\ incident = [t \in Types |-> NoIncident] /\ order = <<>>
        /\ controls = Untouched /\ baseline = 0 /\ detected = {} /\ todo = {}
        /\ record = [t \in Types |-> "none"] /\ undo = <<>> /\ tangled = FALSE /\ crashes = 0
    BY DEF Init
  <2>2. 0 \in 0 .. MaxRejected /\ 0 \in 0 .. MaxCrashes
    BY IncidentAssumption
  <2>3. record \in [Types -> Open \cup {"none", "resolved"}]
    BY <2>1
  <2> QED
    BY <1>1, <2>1, <2>2, <2>3, FreshType DEF TypeOK
<1>3. FailoversKept /\ Trailed
  BY Untroubled DEF Init
<1> QED
  BY <1>1, <1>2, <1>3, FreshType DEF Init, Inv, OrderOnce, RecordsAgree, Untouched, Open

LEMMA Step == Inv /\ [Next]_vars => Inv'
<1> SUFFICES ASSUME Inv, [Next]_vars PROVE Inv'
  OBVIOUS
<1>1. CASE Evaluate
  BY <1>1, EvaluateKeepsInv
<1>2. CASE \E t \in Types : HandleDetection(t)
  BY <1>2, HandleDetectionKeepsInv
<1>3. CASE ResolveIncident
  BY <1>3, ResolveIncidentKeepsInv
<1>4. CASE Tick
  BY <1>4, TickKeepsInv
<1>5. CASE Restart
  BY <1>5, RestartKeepsInv
<1>6. CASE UNCHANGED vars
  <2>1. UNCHANGED <<hasQueue, incident, order, controls, baseline, detected, todo, record, undo, tangled, crashes>>
    BY <1>6 DEF vars, evaluation, history
  <2>2. TypeOK'
    BY <2>1 DEF Inv, TypeOK, Active
  <2>3. ~tangled' => Trailed'
    BY <2>1, TrailStays DEF Stack
  <2> QED
    BY <2>1, <2>2, <2>3 DEF Inv, OrderOnce, RecordsAgree, FailoversKept, Stack, Active
<1> QED
  BY <1>1, <1>2, <1>3, <1>4, <1>5, <1>6 DEF Next

-----------------------------------------------------------------------------
(* The theorems.                                                           *)

\* However detections, resolutions, the clock and restarts interleave, the rollback stacks hold
\* what the controls were before each remediation in force, and nothing else.
THEOREM Invariance == Spec => []Inv
<1>1. Init => Inv
  BY Initially
<1>2. Inv /\ [Next]_vars => Inv'
  BY Step
<1> QED
  BY <1>1, <1>2, PTL DEF Spec

\* The variables have their types, and #active lists an incident exactly while it is open.
THEOREM TypeCorrect == Spec => []TypeOK
<1>1. Inv => TypeOK
  BY DEF Inv
<1> QED
  BY <1>1, Invariance, PTL

\* #persist after every change of an incident: the table agrees with the manager, but for rows that
\* a dead process left.
THEOREM RecordsAlwaysAgree == Spec => []RecordsAgree
<1>1. Inv => RecordsAgree
  BY DEF Inv
<1> QED
  BY <1>1, Invariance, PTL

\* When the last incident is resolved #resolveIncident has ended safe mode and reset the router's
\* preferred model, whatever the order of the rollbacks.
THEOREM SafeModeAlwaysEnds == Spec => []SafeModeEnds
<1>1. Inv => SafeModeEnds
  <2> SUFFICES ASSUME Inv, order = <<>> PROVE ~controls.safe /\ controls.preferred = 0
    BY DEF SafeModeEnds
  <2>1. ~controls.safe
    BY DEF Inv
  <2>2. \A t \in Types : ~Active(t)
    BY FreshType DEF Inv, TypeOK
  <2>3. \A t \in Types : DOMAIN Stack(t) = {}
    BY <2>2 DEF Inv, Stack, NoIncident
  <2>4. controls.preferred = 0
    BY <2>3 DEF Inv, FailoversKept
  <2> QED
    BY <2>1, <2>4
<1> QED
  BY <1>1, Invariance, PTL

\* The rollbacks of #resolveIncident put the queue's mode, its retry window, safe mode and the
\* preferred model back where they were, when remediations are undone newest first.
THEOREM NestedIsReversed == Spec => []ReversedWhenNested
<1>1. Inv => ReversedWhenNested
  <2> SUFFICES ASSUME Inv, order = <<>>, ~tangled PROVE controls = Untouched
    BY DEF ReversedWhenNested
  <2>1. controls \in Controls /\ undo \in Seq(Types)
    BY DEF Inv, TypeOK
  <2>2. \A t \in Types : DOMAIN Stack(t) = {}
    <3>1. \A t \in Types : ~Active(t)
      BY FreshType DEF Inv, TypeOK
    <3> QED
      BY <3>1 DEF Inv, Stack, NoIncident
  <2>3. PICK place : Placed(place) /\ \A c \in Restored : \E val : Explained(c, val, place)
    BY DEF Inv, Trailed
  <2>4. Len(undo) = 0
    <3>1. \A i \in DOMAIN undo : undo[i] \in Types
      BY <2>1
    <3>2. DOMAIN undo = {}
      BY <2>2, <2>3, <3>1 DEF Placed
    <3> QED
      BY <2>1, <3>2
  <2>5. \A c \in Restored : controls[c] = Untouched[c]
    BY <2>3, <2>4 DEF Explained
  <2>6. controls.preferred = 0
    BY <2>2 DEF Inv, FailoversKept
  <2> QED
    BY <2>1, <2>5, <2>6 DEF Restored, Controls, Untouched
<1> QED
  BY <1>1, Invariance, PTL
=============================================================================
