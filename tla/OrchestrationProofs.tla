------------------------- MODULE OrchestrationProofs -------------------------
(***************************************************************************)
(* Proofs about Orchestration, for every set of calls, graphs and limits.  *)
(*                                                                         *)
(* The inductive invariant adds to the types what the loop of #runGraph    *)
(* keeps true of a call's record between its awaits (Sound): a dependency  *)
(* leaves unmetDependencies only when its job completed, a job leaves      *)
(* 'queued' for 'running' only when nothing is unmet, and a job leaves     *)
(* pendingNodes only when it is terminal.                                  *)
(***************************************************************************)
EXTENDS Orchestration, FiniteSetTheorems, WellFoundedInduction, TLAPS

\* What #runGraph keeps true of its graph g.
Loop(g) ==
    /\ \A n \in Nodes : State(g, n) # "none" =>
          \A m \in g.deps[n] \ g.unmet[n] : State(g, m) = "completed"
    /\ \A n \in Nodes :
          State(g, n) \in {"running", "completed", "failed"} => g.unmet[n] = {}
    /\ \A n \in g.wave : g.unmet[n] = {} /\ State(g, n) # "none"
    /\ \A n \in Nodes : g.outcome[n] = "settled" => State(g, n) \in Terminal
    /\ \A n \in g.nodes \ g.pending : State(g, n) \in Terminal
    /\ \A n \in g.pending : State(g, n) # "none"

\* A call that never entered the loop has no job.
Sound(g) ==
    /\ g.status = "idle" => g = NoRun
    /\ IF g.status \in {"blocked", "rejected"}
       THEN \A n \in Nodes : State(g, n) = "none"
       ELSE Loop(g)
    /\ g.status = "done" => g.pending = {}
    /\ \A n \in Nodes : g.jobs[n].attempt <= MaxRetry + 1

\* Only cancel() changes a job that waits for a later chunk of its wave.
WaveKept(d) ==
    \A n \in run[d].wave : State(run[d], n) = "queued" \/ <<d, n>> \in cancels

Inv ==
    /\ TypeOK
    /\ \A d \in Delegations : Sound(run[d]) /\ WaveKept(d)
    /\ ThrowsOnlyAfterCancel

-----------------------------------------------------------------------------
(* What the operators on a call's record return.                           *)

\* Cancelling a set of jobs changes the state of its non-terminal ones only.
LEMMA CancelledJobs ==
    ASSUME NEW g \in Runs, NEW S
    PROVE  /\ WithCancelled(g, S) \in Runs
           /\ WithCancelled(g, S) = [g EXCEPT !.jobs = WithCancelled(g, S).jobs]
           /\ \A n \in Nodes :
                 /\ State(WithCancelled(g, S), n) =
                       IF n \in S /\ State(g, n) \notin Terminal
                       THEN "cancelled" ELSE State(g, n)
                 /\ WithCancelled(g, S).jobs[n].attempt = g.jobs[n].attempt
                 /\ WithCancelled(g, S).jobs[n].aborted = g.jobs[n].aborted
<1> DEFINE js == [n \in Nodes |->
                     IF n \in S /\ State(g, n) \notin Terminal
                     THEN [g.jobs[n] EXCEPT !.state = "cancelled"]
                     ELSE g.jobs[n]]
<1>1. WithCancelled(g, S) = [g EXCEPT !.jobs = js]
  BY DEF WithCancelled
<1>2. \A n \in Nodes : g.jobs[n] \in Jobs
  BY DEF Runs
<1>3. js \in [Nodes -> Jobs]
  BY <1>2 DEF Jobs, Terminal
<1>4. \A n \in Nodes :
          /\ js[n].state = IF n \in S /\ State(g, n) \notin Terminal
                           THEN "cancelled" ELSE State(g, n)
          /\ js[n].attempt = g.jobs[n].attempt
          /\ js[n].aborted = g.jobs[n].aborted
  BY <1>2 DEF Jobs, State
<1>5. /\ WithCancelled(g, S).jobs = js
      /\ WithCancelled(g, S) \in Runs
      /\ WithCancelled(g, S) = [g EXCEPT !.jobs = WithCancelled(g, S).jobs]
  <2> HIDE DEF js
  <2> QED BY <1>1, <1>3 DEF Runs
<1> QED BY <1>4, <1>5 DEF State

\* Starting a chunk of S gives a record that is sound, if the jobs of S have
\* nothing unmet, and keeps the attempts.
LEMMA LaunchedRun ==
    ASSUME NEW g \in Runs, NEW S \in SUBSET Nodes
    PROVE  /\ Launched(g, S) \in Runs
           /\ Launched(g, S).status \in {"awaiting", "threw"}
           /\ Launched(g, S).wave \subseteq S
           /\ Launched(g, S).nodes = g.nodes
           /\ Launched(g, S).deps = g.deps
           /\ Launched(g, S).unmet = g.unmet
           /\ Launched(g, S).pending = g.pending
           /\ \A n \in Nodes :
                 /\ Launched(g, S).jobs[n].attempt = g.jobs[n].attempt
                 /\ Launched(g, S).jobs[n].aborted = g.jobs[n].aborted
                 /\ Launched(g, S).outcome[n] \in {"none", "executing", "settled"}
                 /\ \/ /\ State(Launched(g, S), n) = State(g, n)
                       /\ Launched(g, S).outcome[n] = "none"
                    \/ /\ n \in S \ Launched(g, S).wave
                       /\ State(g, n) = "queued"
                       /\ State(Launched(g, S), n) = "cancelled"
                       /\ Launched(g, S).outcome[n] = "settled"
                       /\ BreakerOpen
                    \/ /\ n \in S \ Launched(g, S).wave
                       /\ State(g, n) = "queued"
                       /\ State(Launched(g, S), n) = "running"
                       /\ Launched(g, S).outcome[n] = "executing"
                       /\ ~BreakerOpen
           /\ Launched(g, S).status = "threw" => \E n \in S : State(g, n) # "queued"
<1> DEFINE C == Chunk(S)
           T == {n \in C : State(g, n) = "queued"}
           js == [n \in Nodes |->
                      IF n \in T
                      THEN [g.jobs[n] EXCEPT !.state =
                               IF BreakerOpen THEN "cancelled" ELSE "running"]
                      ELSE g.jobs[n]]
           os == [n \in Nodes |->
                      IF n \notin T THEN "none"
                      ELSE IF BreakerOpen THEN "settled" ELSE "executing"]
           st == IF T = C THEN "awaiting" ELSE "threw"
<1>1. Launched(g, S) = [g EXCEPT !.status = st, !.jobs = js,
                                 !.wave = S \ C, !.outcome = os]
  BY DEF Launched
<1>2. C \subseteq S
  BY DEF Chunk
<1>3. \A n \in Nodes : g.jobs[n] \in Jobs
  BY DEF Runs
<1>4. \A n \in Nodes :
         /\ js[n] \in Jobs
         /\ js[n].attempt = g.jobs[n].attempt
         /\ js[n].aborted = g.jobs[n].aborted
         /\ js[n].state = IF n \in T THEN IF BreakerOpen THEN "cancelled" ELSE "running"
                          ELSE State(g, n)
  <2> SUFFICES ASSUME NEW n \in Nodes
               PROVE  /\ js[n] \in Jobs
                      /\ js[n].attempt = g.jobs[n].attempt
                      /\ js[n].aborted = g.jobs[n].aborted
                      /\ js[n].state = IF n \in T
                                       THEN IF BreakerOpen THEN "cancelled" ELSE "running"
                                       ELSE State(g, n)
    OBVIOUS
  <2>1. CASE n \in T
    <3> DEFINE x == IF BreakerOpen THEN "cancelled" ELSE "running"
    <3>1. js[n] = [g.jobs[n] EXCEPT !.state = x]
      BY <2>1
    <3>2. x \in {"cancelled", "running"}
      OBVIOUS
    <3> HIDE DEF x, js, T
    <3>3. g.jobs[n] \in Jobs
      BY <1>3
    <3>4. /\ js[n] \in Jobs
          /\ js[n].attempt = g.jobs[n].attempt
          /\ js[n].aborted = g.jobs[n].aborted
          /\ js[n].state = x
      BY <3>1, <3>2, <3>3 DEF Jobs, Terminal
    <3> QED BY <2>1, <3>4 DEF x
  <2>2. CASE n \notin T
    <3>1. js[n] = g.jobs[n]
      BY <2>2
    <3> HIDE DEF js, T
    <3> QED BY <1>3, <2>2, <3>1 DEF State
  <2> QED BY <2>1, <2>2
<1>5. os \in [Nodes -> Outcomes] /\ \A n \in Nodes : os[n] # "retry"
  BY DEF Outcomes
<1>6. st \in {"awaiting", "threw"} /\ (st = "threw" => \E n \in S : State(g, n) # "queued")
  BY <1>2
<1>7. \A n \in Nodes :
         /\ n \notin T => os[n] = "none"
         /\ n \in T => /\ n \in C /\ State(g, n) = "queued"
                       /\ BreakerOpen => os[n] = "settled"
                       /\ ~BreakerOpen => os[n] = "executing"
  <2>1. \A n \in Nodes \ T : os[n] = "none"
    OBVIOUS
  <2>2. \A n \in T : n \in C /\ State(g, n) = "queued"
    OBVIOUS
  <2>3. ASSUME BreakerOpen PROVE \A n \in Nodes \cap T : os[n] = "settled"
    BY <2>3
  <2>4. ASSUME ~BreakerOpen PROVE \A n \in Nodes \cap T : os[n] = "executing"
    BY <2>4
  <2> QED
    <3> HIDE DEF os, T, C
    <3> QED BY <2>1, <2>2, <2>3, <2>4
<1>9. js \in [Nodes -> Jobs]
  <2> QED BY <1>4
<1>8. /\ Launched(g, S) \in Runs
      /\ Launched(g, S).status = st /\ Launched(g, S).jobs = js
      /\ Launched(g, S).wave = S \ C /\ Launched(g, S).outcome = os
      /\ Launched(g, S).nodes = g.nodes /\ Launched(g, S).deps = g.deps
      /\ Launched(g, S).unmet = g.unmet /\ Launched(g, S).pending = g.pending
  <2> HIDE DEF js, os, st, C
  <2> QED BY <1>1, <1>5, <1>6, <1>9 DEF Runs, Statuses
<1> HIDE DEF js, os, st, T, C
<1> QED BY <1>2, <1>4, <1>5, <1>6, <1>7, <1>8 DEF State, Outcomes

\* A chunk of jobs with nothing unmet may be started.
LEMMA LaunchedLoop ==
    ASSUME NEW g \in Runs, Loop(g), NEW S \in SUBSET Nodes,
           \A n \in S : g.unmet[n] = {} /\ State(g, n) # "none"
    PROVE  Loop(Launched(g, S))
<1> DEFINE h == Launched(g, S)
<1>1. /\ h.wave \subseteq S /\ h.nodes = g.nodes /\ h.deps = g.deps
      /\ h.unmet = g.unmet /\ h.pending = g.pending
  BY LaunchedRun
<1>2. \A n \in Nodes :
         \/ State(h, n) = State(g, n) /\ h.outcome[n] = "none"
         \/ /\ n \in S /\ State(g, n) = "queued"
            /\ State(h, n) = "cancelled" /\ h.outcome[n] = "settled"
         \/ /\ n \in S /\ State(g, n) = "queued"
            /\ State(h, n) = "running" /\ h.outcome[n] = "executing"
  BY LaunchedRun
<1>3. /\ g.deps \in [Nodes -> SUBSET Nodes] /\ g.nodes \in SUBSET Nodes
      /\ g.pending \in SUBSET Nodes
  BY DEF Runs
<1> HIDE DEF h
<1>4. \A n \in Nodes : State(h, n) # "none" =>
          \A m \in h.deps[n] \ h.unmet[n] : State(h, m) = "completed"
  BY <1>1, <1>2, <1>3 DEF Loop
<1>5. \A n \in Nodes :
          State(h, n) \in {"running", "completed", "failed"} => h.unmet[n] = {}
  BY <1>1, <1>2 DEF Loop
<1>6. \A n \in h.wave : h.unmet[n] = {} /\ State(h, n) # "none"
  BY <1>1, <1>2
<1>7. \A n \in Nodes : h.outcome[n] = "settled" => State(h, n) \in Terminal
  BY <1>2 DEF Terminal
<1>8. \A n \in h.nodes \ h.pending : State(h, n) \in Terminal
  BY <1>1, <1>2, <1>3 DEF Loop, Terminal
<1>9. \A n \in h.pending : State(h, n) # "none"
  BY <1>1, <1>2, <1>3 DEF Loop
<1> QED BY <1>4, <1>5, <1>6, <1>7, <1>8, <1>9 DEF Loop, h

\* The next round launches jobs with nothing unmet, or ends the call with no
\* job pending.
LEMMA NextRoundRun ==
    ASSUME NEW g \in Runs, Loop(g), g.wave = {}
    PROVE  LET h == NextRound(g)
           IN  /\ h \in Runs /\ Loop(h)
               /\ h.nodes = g.nodes /\ h.deps = g.deps
               /\ h.status \in {"awaiting", "done"}
               /\ h.status = "done" => h.pending = {}
               /\ \A n \in h.wave : State(h, n) = "queued"
               /\ \A n \in Nodes :
                     /\ h.jobs[n].attempt = g.jobs[n].attempt
                     /\ h.outcome[n] = "executing" => State(h, n) = "running"
<1> DEFINE h == NextRound(g)
           c == WithCancelled(g, g.pending)
<1>1. CASE g.pending # {} /\ ~BreakerOpen /\ Ready(g) # {}
  <2>1. h = Launched(g, Ready(g))
    BY <1>1 DEF NextRound
  <2>2. /\ Ready(g) \in SUBSET Nodes
        /\ \A n \in Ready(g) : g.unmet[n] = {} /\ State(g, n) = "queued"
    BY DEF Ready, Runs
  <2>3. Loop(h)
    <3>1. \A n \in Ready(g) : g.unmet[n] = {} /\ State(g, n) # "none"
      BY <2>2
    <3> HIDE DEF h
    <3> QED BY <2>1, <2>2, <3>1, LaunchedLoop
  <2>4. /\ h \in Runs /\ h.nodes = g.nodes /\ h.deps = g.deps
        /\ h.status \in {"awaiting", "threw"}
        /\ h.status = "threw" => \E n \in Ready(g) : State(g, n) # "queued"
        /\ h.wave \subseteq Ready(g)
        /\ \A n \in Nodes :
              /\ h.jobs[n].attempt = g.jobs[n].attempt
              /\ h.outcome[n] = "executing" => State(h, n) = "running"
              /\ n \in h.wave => State(h, n) = State(g, n)
    <3> HIDE DEF h
    <3> QED BY <2>1, <2>2, LaunchedRun
  <2> HIDE DEF h
  <2> QED BY <2>2, <2>3, <2>4 DEF h
<1>2. CASE ~(g.pending # {} /\ ~BreakerOpen /\ Ready(g) # {})
  <2>1. h = [c EXCEPT !.status = "done", !.pending = {},
                      !.outcome = [n \in Nodes |-> "none"]]
    BY <1>2 DEF NextRound
  <2>2. /\ c \in Runs
        /\ c = [g EXCEPT !.jobs = c.jobs]
        /\ \A n \in Nodes :
              /\ State(c, n) = IF n \in g.pending /\ State(g, n) \notin Terminal
                               THEN "cancelled" ELSE State(g, n)
              /\ c.jobs[n].attempt = g.jobs[n].attempt
    BY CancelledJobs
  <2> HIDE DEF h, c
  <2>3. /\ h \in Runs /\ h.nodes = g.nodes /\ h.deps = g.deps /\ h.unmet = g.unmet
        /\ h.wave = {} /\ h.status = "done" /\ h.pending = {}
        /\ h.jobs = c.jobs /\ h.outcome = [n \in Nodes |-> "none"]
    <3>1. [n \in Nodes |-> "none"] \in [Nodes -> Outcomes]
      BY DEF Outcomes
    <3>2. c.nodes = g.nodes /\ c.deps = g.deps /\ c.unmet = g.unmet /\ c.wave = {}
      BY <2>2 DEF Runs
    <3> QED BY <2>1, <2>2, <3>1, <3>2 DEF Runs, Statuses
  <2>4. \A n \in Nodes :
           State(h, n) = IF n \in g.pending /\ State(g, n) \notin Terminal
                         THEN "cancelled" ELSE State(g, n)
    BY <2>2, <2>3 DEF State
  <2>5. g.deps \in [Nodes -> SUBSET Nodes] /\ g.nodes \in SUBSET Nodes
    BY DEF Runs
  <2>6. Loop(h)
    <3>1. \A n \in Nodes : State(h, n) # "none" =>
              \A m \in h.deps[n] \ h.unmet[n] : State(h, m) = "completed"
      <4> SUFFICES ASSUME NEW n \in Nodes, State(h, n) # "none",
                          NEW m \in h.deps[n] \ h.unmet[n]
                   PROVE  State(h, m) = "completed"
        OBVIOUS
      <4>1. State(g, n) # "none"
        BY <2>4 DEF Loop
      <4>2. m \in Nodes /\ State(g, m) = "completed"
        BY <2>3, <2>5, <4>1 DEF Loop
      <4> QED BY <2>4, <4>2 DEF Terminal
    <3>2. \A n \in Nodes :
              State(h, n) \in {"running", "completed", "failed"} => h.unmet[n] = {}
      BY <2>3, <2>4 DEF Loop
    <3>3. \A n \in h.nodes \ h.pending : State(h, n) \in Terminal
      BY <2>3, <2>4, <2>5 DEF Loop, Terminal
    <3> QED BY <2>3, <3>1, <3>2, <3>3 DEF Loop
  <2> QED BY <2>2, <2>3, <2>6 DEF h
<1> QED BY <1>1, <1>2

\* Only jobs with a dependency that did not complete are dropped.
LEMMA DroppedHaveACause ==
    ASSUME NEW g \in Runs, NEW B \in SUBSET Nodes,
           \A n \in B : State(g, n) # "completed"
    PROVE  \A n \in Dropped(g, B) :
              n \in g.pending /\ \E m \in g.deps[n] : State(g, m) # "completed"
<1> DEFINE C == {n \in g.pending : \E m \in g.deps[n] : State(g, m) # "completed"}
<1>1. C \in SUBSET g.pending
  OBVIOUS
<1>2. \A n \in g.pending :
         g.deps[n] \cap (B \cup {m \in C : State(g, m) \notin Terminal}) # {} => n \in C
  BY DEF Terminal
<1> QED BY <1>1, <1>2 DEF Dropped

\* Processing a batch releases dependents of completed jobs only, and leaves
\* the jobs of later chunks alone.
LEMMA ProcessedRun ==
    ASSUME NEW g \in Runs, Loop(g)
    PROVE  LET p == Processed(g)
           IN  /\ p \in Runs /\ Loop(p)
               /\ p.status = g.status /\ p.wave = g.wave
               /\ p.nodes = g.nodes /\ p.deps = g.deps
               /\ \A n \in Nodes : p.jobs[n].attempt = g.jobs[n].attempt
               /\ \A n \in g.wave : State(p, n) = State(g, n)
<1> DEFINE E == {n \in Nodes : g.outcome[n] = "settled"}
           F == {n \in E : State(g, n) = "completed"}
           l == [g EXCEPT !.pending = g.pending \ E]
           D == Dropped(l, E \ F)
           c == WithCancelled(l, D)
           u == [n \in Nodes |-> IF n \in l.pending THEN g.unmet[n] \ F ELSE g.unmet[n]]
           p == Processed(g)
<1>1. p = [c EXCEPT !.pending = l.pending \ D, !.unmet = u]
  BY DEF Processed
<1>2. /\ l \in Runs /\ l.jobs = g.jobs /\ l.pending = g.pending \ E
      /\ l.nodes = g.nodes /\ l.deps = g.deps /\ l.unmet = g.unmet
      /\ l.wave = g.wave /\ l.outcome = g.outcome /\ l.status = g.status
  BY DEF Runs
<1> HIDE DEF l
<1>3. \A n \in D : n \in l.pending /\ \E m \in g.deps[n] : State(g, m) # "completed"
  <2>1. \A n \in E \ F : State(l, n) # "completed"
    BY <1>2 DEF State
  <2>2. \A n \in D : n \in l.pending /\ \E m \in l.deps[n] : State(l, m) # "completed"
    BY <1>2, <2>1, DroppedHaveACause
  <2> HIDE DEF D
  <2> QED BY <1>2, <2>2 DEF State
<1>4. /\ c \in Runs
      /\ c = [l EXCEPT !.jobs = c.jobs]
      /\ \A n \in Nodes :
            /\ State(c, n) = IF n \in D /\ State(l, n) \notin Terminal
                             THEN "cancelled" ELSE State(l, n)
            /\ c.jobs[n].attempt = l.jobs[n].attempt
  <2> HIDE DEF D
  <2> QED BY <1>2, CancelledJobs
<1>5. u \in [Nodes -> SUBSET Nodes]
  BY DEF Runs
<1>6. \A n \in Nodes : u[n] \subseteq g.unmet[n] /\ g.unmet[n] \ F \subseteq u[n]
  OBVIOUS
<1>7. \A m \in F : State(g, m) = "completed"
  OBVIOUS
<1>8. E \subseteq Nodes /\ \A m \in E : g.outcome[m] = "settled"
  OBVIOUS
<1> HIDE DEF c, u, D, E, F, p
<1>9. /\ p \in Runs /\ p.status = g.status /\ p.wave = g.wave
      /\ p.nodes = g.nodes /\ p.deps = g.deps /\ p.outcome = g.outcome
      /\ p.jobs = c.jobs /\ p.unmet = u /\ p.pending = l.pending \ D
  BY <1>1, <1>2, <1>4, <1>5 DEF Runs
<1>10. \A n \in Nodes :
          /\ State(p, n) = IF n \in D /\ State(g, n) \notin Terminal
                           THEN "cancelled" ELSE State(g, n)
          /\ p.jobs[n].attempt = g.jobs[n].attempt
  BY <1>2, <1>4, <1>9 DEF State
<1>11. /\ g.deps \in [Nodes -> SUBSET Nodes] /\ g.nodes \in SUBSET Nodes
       /\ g.wave \in SUBSET Nodes /\ g.pending \in SUBSET Nodes
  BY DEF Runs
<1>12. \A n \in g.wave : n \notin D
  BY <1>3, <1>11 DEF Loop
<1>13. Loop(p)
  <2>1. \A n \in Nodes : State(p, n) # "none" =>
            \A m \in p.deps[n] \ p.unmet[n] : State(p, m) = "completed"
    <3> SUFFICES ASSUME NEW n \in Nodes, State(p, n) # "none",
                        NEW m \in p.deps[n] \ p.unmet[n]
                 PROVE  State(p, m) = "completed"
      OBVIOUS
    <3>1. State(g, n) # "none"
      BY <1>2, <1>3, <1>10 DEF Loop
    <3>2. m \in Nodes /\ (m \in g.deps[n] \ g.unmet[n] \/ m \in F)
      BY <1>6, <1>9, <1>11
    <3>3. State(g, m) = "completed"
      BY <1>7, <3>1, <3>2 DEF Loop
    <3> QED BY <1>10, <3>2, <3>3 DEF Terminal
  <2>2. \A n \in Nodes :
            State(p, n) \in {"running", "completed", "failed"} => p.unmet[n] = {}
    BY <1>6, <1>9, <1>10 DEF Loop
  <2>3. \A n \in p.wave : p.unmet[n] = {} /\ State(p, n) # "none"
    BY <1>6, <1>9, <1>10, <1>11 DEF Loop
  <2>4. \A n \in Nodes : p.outcome[n] = "settled" => State(p, n) \in Terminal
    BY <1>9, <1>10 DEF Loop, Terminal
  <2>5. \A n \in p.nodes \ p.pending : State(p, n) \in Terminal
    BY <1>2, <1>8, <1>9, <1>10, <1>11 DEF Loop, Terminal
  <2>6. \A n \in p.pending : State(p, n) # "none"
    BY <1>2, <1>9, <1>10, <1>11 DEF Loop
  <2> QED BY <2>1, <2>2, <2>3, <2>4, <2>5, <2>6 DEF Loop
<1> QED BY <1>9, <1>10, <1>11, <1>12, <1>13 DEF p

-----------------------------------------------------------------------------
(* The invariant is kept.                                                  *)

\* Before any call every record is NoRun, which is sound.
LEMMA InitInv == Init => Inv
<1> SUFFICES ASSUME Init PROVE Inv
  OBVIOUS
<1>1. NoRun \in Runs
  BY DEF NoRun, NoJob, Runs, Jobs, Statuses, Outcomes
<1>2. /\ NoRun.status = "idle" /\ NoRun.nodes = {} /\ NoRun.wave = {} /\ NoRun.pending = {}
      /\ \A n \in Nodes :
            /\ State(NoRun, n) = "none" /\ NoRun.jobs[n].attempt = 1
            /\ NoRun.deps[n] = {} /\ NoRun.outcome[n] = "none"
  BY DEF NoRun, NoJob, State
<1>3. \A d \in Delegations : run[d] = NoRun
  BY DEF Init
<1>4. TypeOK
  BY <1>1, <1>2, <1>3 DEF Init, TypeOK, Attempting
<1>5. Sound(NoRun)
  BY <1>2, OrchestrationAssumption DEF Sound, Loop
<1> QED BY <1>2, <1>3, <1>4, <1>5 DEF Inv, WaveKept, ThrowsOnlyAfterCancel

\* Giving call d the record h, when h is sound and its attempts have just begun.
LEMMA Relaunch ==
    ASSUME Inv, NEW d \in Delegations, NEW h \in Runs, Sound(h),
           run' = [run EXCEPT ![d] = h],
           calls' = calls \cup CallsMade(d, h),
           UNCHANGED <<failures, cancels>>,
           \A n \in Nodes : h.outcome[n] = "executing" => State(h, n) = "running",
           \A n \in h.wave : State(h, n) = "queued" \/ <<d, n>> \in cancels,
           h.status = "threw" => \E n \in Nodes : <<d, n>> \in cancels
    PROVE  Inv'
<1>1. run \in [Delegations -> Runs]
  BY DEF Inv, TypeOK
<1>2. run' \in [Delegations -> Runs]
  BY <1>1
<1>3. run'[d] = h /\ \A e \in Delegations \ {d} : run'[e] = run[e]
  BY <1>1
<1>4. calls' \subseteq Delegations \X Nodes \X (1 .. MaxRetry + 1)
  <2>1. \A n \in Nodes : h.jobs[n].attempt \in 1 .. MaxRetry + 1
    BY OrchestrationAssumption DEF Sound, Runs, Jobs
  <2>2. CallsMade(d, h) \subseteq Delegations \X Nodes \X (1 .. MaxRetry + 1)
    BY <2>1 DEF CallsMade, Attempting
  <2> QED BY <2>2 DEF Inv, TypeOK
<1>5. ASSUME NEW e \in Delegations, NEW n \in Attempting(run'[e])
      PROVE  /\ \/ State(run'[e], n) = "running"
                \/ /\ State(run'[e], n) = "cancelled" /\ run'[e].jobs[n].aborted
                   /\ <<e, n>> \in cancels'
             /\ CallOf(e, n)' \in calls' \/ run'[e].jobs[n].aborted
  <2>1. CASE e = d
    <3>1. n \in Attempting(h) /\ n \in Nodes /\ h.outcome[n] = "executing"
      BY <1>3, <2>1, <1>5 DEF Attempting
    <3>2. CASE h.jobs[n].aborted
      BY <1>3, <2>1, <3>1, <3>2
    <3>3. CASE ~h.jobs[n].aborted
      <4>1. <<d, n, h.jobs[n].attempt>> \in CallsMade(d, h)
        BY <3>1, <3>3 DEF CallsMade
      <4> QED BY <1>3, <2>1, <3>1, <4>1 DEF CallOf
    <3> QED BY <3>2, <3>3
  <2>2. CASE e # d
    <3>1. run'[e] = run[e] /\ CallOf(e, n)' = CallOf(e, n)
      BY <1>3, <2>2 DEF CallOf
    <3> QED BY <1>5, <3>1 DEF Inv, TypeOK
  <2> QED BY <2>1, <2>2
<1>6. TypeOK'
  BY <1>2, <1>4, <1>5 DEF Inv, TypeOK
<1>7. \A e \in Delegations : Sound(run'[e]) /\ WaveKept(e)'
  BY <1>3 DEF Inv, WaveKept
<1>8. ThrowsOnlyAfterCancel'
  BY <1>3 DEF Inv, ThrowsOnlyAfterCancel
<1> QED BY <1>6, <1>7, <1>8 DEF Inv

\* A call whose job is under way is in the loop.
LEMMA InTheLoop ==
    ASSUME Inv, NEW d \in Delegations, NEW n \in Nodes, State(run[d], n) # "none"
    PROVE  run[d] \in Runs /\ Loop(run[d]) /\ run[d].status # "idle"
           /\ (run[d].status = "done" => run[d].pending = {})
<1>1. run[d] \in Runs /\ Sound(run[d])
  BY DEF Inv, TypeOK
<1>2. State(NoRun, n) = "none"
  BY DEF NoRun, NoJob, State
<1> QED BY <1>1, <1>2 DEF Sound

\* The end of an attempt: job n of call d becomes j, its outcome o.
LEMMA AttemptEnds ==
    ASSUME Inv, NEW d \in Delegations, NEW n \in Attempting(run[d]),
           NEW j \in Jobs, NEW o \in Outcomes \ {"executing"}, NEW s \in Statuses,
           run' = [run EXCEPT ![d] = [run[d] EXCEPT !.jobs[n] = j, !.outcome[n] = o,
                                                    !.status = s]],
           calls' \subseteq calls, calls \ {CallOf(d, n)} \subseteq calls',
           failures' \in Nat, UNCHANGED cancels,
           j.attempt <= MaxRetry + 1,
           State(run[d], n) = "cancelled" => j.state = "cancelled",
           State(run[d], n) = "running" => j.state \in {"queued", "completed", "failed"},
           o = "settled" => j.state \in Terminal,
           s = run[d].status \/ (s = "threw" /\ <<d, n>> \in cancels)
    PROVE  Inv'
<1> DEFINE g == run[d]
           h == [run[d] EXCEPT !.jobs[n] = j, !.outcome[n] = o, !.status = s]
<1>1. /\ n \in Nodes /\ g \in Runs /\ g.outcome[n] = "executing"
      /\ \/ State(g, n) = "running"
         \/ State(g, n) = "cancelled" /\ <<d, n>> \in cancels
  BY DEF Inv, TypeOK, Attempting
<1>2. Loop(g) /\ g.status # "idle" /\ (g.status = "done" => g.pending = {})
  BY <1>1, InTheLoop
<1>3. g.status \notin {"blocked", "rejected"}
  BY <1>1 DEF Inv, Sound
<1>4. /\ h \in Runs /\ h.status = s
      /\ h.nodes = g.nodes /\ h.deps = g.deps /\ h.unmet = g.unmet
      /\ h.pending = g.pending /\ h.wave = g.wave
      /\ h.jobs[n] = j /\ h.outcome[n] = o
      /\ \A m \in Nodes \ {n} : h.jobs[m] = g.jobs[m] /\ h.outcome[m] = g.outcome[m]
  BY <1>1 DEF Runs
<1>5. run \in [Delegations -> Runs]
  BY DEF Inv, TypeOK
<1>6. run'[d] = h /\ \A e \in Delegations \ {d} : run'[e] = run[e]
  BY <1>5
<1>7. run' \in [Delegations -> Runs]
  BY <1>4, <1>5
<1>8. /\ g.deps \in [Nodes -> SUBSET Nodes] /\ g.nodes \in SUBSET Nodes
      /\ g.wave \in SUBSET Nodes /\ g.pending \in SUBSET Nodes
  BY <1>1 DEF Runs
<1> HIDE DEF g, h
<1>9. \A m \in Nodes \ {n} : State(h, m) = State(g, m)
  BY <1>4 DEF State
<1>10. /\ State(h, n) = j.state
       /\ \/ State(g, n) = "cancelled" /\ State(h, n) = "cancelled"
          \/ State(g, n) = "running" /\ State(h, n) \in {"queued", "completed", "failed"}
  BY <1>1, <1>4 DEF State, g
<1>11. Loop(h)
  <2>1. \A k \in Nodes : State(h, k) # "none" =>
            \A m \in h.deps[k] \ h.unmet[k] : State(h, m) = "completed"
    BY <1>1, <1>2, <1>4, <1>8, <1>9, <1>10 DEF Loop
  <2>2. \A k \in Nodes :
            State(h, k) \in {"running", "completed", "failed"} => h.unmet[k] = {}
    BY <1>1, <1>2, <1>4, <1>9, <1>10 DEF Loop
  <2>3. \A k \in h.wave : h.unmet[k] = {} /\ State(h, k) # "none"
    BY <1>1, <1>2, <1>4, <1>8, <1>9, <1>10 DEF Loop
  <2>4. \A k \in Nodes : h.outcome[k] = "settled" => State(h, k) \in Terminal
    BY <1>1, <1>2, <1>4, <1>9, <1>10 DEF Loop
  <2>5. \A k \in h.nodes \ h.pending : State(h, k) \in Terminal
    BY <1>1, <1>2, <1>4, <1>8, <1>9, <1>10 DEF Loop, Terminal
  <2>6. \A k \in h.pending : State(h, k) # "none"
    BY <1>1, <1>2, <1>4, <1>8, <1>9, <1>10 DEF Loop
  <2> QED BY <2>1, <2>2, <2>3, <2>4, <2>5, <2>6 DEF Loop
<1>12. Sound(h)
  <2>1. \A m \in Nodes : h.jobs[m].attempt <= MaxRetry + 1
    BY <1>1, <1>4 DEF Inv, Sound, g
  <2>2. h.status \notin {"idle", "blocked", "rejected"}
    BY <1>2, <1>3, <1>4 DEF g
  <2>3. h.status = "done" => h.pending = {}
    BY <1>2, <1>4 DEF g
  <2> QED BY <1>11, <2>1, <2>2, <2>3 DEF Sound
<1>13. ASSUME NEW e \in Delegations, NEW m \in Attempting(run'[e])
       PROVE  /\ \/ State(run'[e], m) = "running"
                 \/ /\ State(run'[e], m) = "cancelled" /\ run'[e].jobs[m].aborted
                    /\ <<e, m>> \in cancels'
              /\ CallOf(e, m)' \in calls' \/ run'[e].jobs[m].aborted
  <2>1. m \in Attempting(run[e]) /\ run'[e].jobs[m] = run[e].jobs[m] /\ <<e, m>> # <<d, n>>
    <3>1. CASE e = d
      <4>1. m \in Nodes /\ h.outcome[m] = "executing"
        BY <1>6, <1>13, <3>1 DEF Attempting
      <4>2. m # n
        BY <1>4, <4>1
      <4>3. g.outcome[m] = "executing" /\ h.jobs[m] = g.jobs[m]
        BY <1>4, <4>1, <4>2
      <4> QED BY <1>6, <3>1, <4>1, <4>2, <4>3 DEF Attempting, g
    <3>2. CASE e # d
      <4>1. run'[e] = run[e]
        BY <1>6, <3>2
      <4> QED BY <1>13, <3>2, <4>1
    <3> QED BY <3>1, <3>2
  <2>2. /\ CallOf(e, m)' = CallOf(e, m) /\ CallOf(e, m) # CallOf(d, n)
        /\ State(run'[e], m) = State(run[e], m)
    BY <2>1 DEF CallOf, State
  <2> QED BY <2>1, <2>2 DEF Inv, TypeOK
<1>14. TypeOK'
  BY <1>7, <1>13 DEF Inv, TypeOK
<1>15. \A e \in Delegations : Sound(run'[e]) /\ WaveKept(e)'
  <2>1. \A k \in h.wave : State(h, k) = "queued" \/ <<d, k>> \in cancels
    BY <1>1, <1>4, <1>8, <1>9, <1>10 DEF Inv, WaveKept, g
  <2> QED BY <1>6, <1>12, <2>1 DEF Inv, WaveKept
<1>16. ThrowsOnlyAfterCancel'
  BY <1>1, <1>4, <1>6 DEF Inv, ThrowsOnlyAfterCancel, g
<1> QED BY <1>14, <1>15, <1>16 DEF Inv

\* A new call enters the loop with every job queued and every dependency unmet.
LEMMA RunDelegationInv ==
    ASSUME Inv, NEW d \in Delegations, NEW r \in Requests[d], RunDelegation(d, r)
    PROVE  Inv'
<1> DEFINE given == [run[d] EXCEPT !.nodes = r.nodes, !.deps = r.deps]
           built == [given EXCEPT
                        !.jobs = [n \in Nodes |->
                            IF n \in r.nodes THEN QueuedJob ELSE NoJob],
                        !.unmet = [n \in Nodes |->
                            IF n \in r.nodes THEN r.deps[n] ELSE {}],
                        !.pending = r.nodes]
<1>1. PICK h \in {IF r.nodes = {} THEN [given EXCEPT !.status = "done"]
                  ELSE IF BreakerOpen THEN [given EXCEPT !.status = "blocked"]
                  ELSE IF ~Admissible(r) THEN [given EXCEPT !.status = "rejected"]
                  ELSE NextRound(built)} :
         run' = [run EXCEPT ![d] = h] /\ calls' = calls \cup CallsMade(d, h)
  BY DEF RunDelegation
<1>2. /\ run[d].status = "idle" /\ run[d] = NoRun /\ run[d] \in Runs
      /\ UNCHANGED <<failures, cancels>>
  BY DEF RunDelegation, Inv, Sound, TypeOK
<1>3. r.nodes \in SUBSET Nodes /\ r.deps \in [Nodes -> SUBSET Nodes]
  BY OrchestrationAssumption DEF IsRequest
<1>4. /\ NoRun.wave = {} /\ NoRun.pending = {}
      /\ \A n \in Nodes :
            /\ State(NoRun, n) = "none" /\ NoRun.jobs[n].attempt = 1
            /\ NoRun.outcome[n] = "none" /\ NoRun.unmet[n] = {}
  BY DEF NoRun, NoJob, State
<1>5. MaxRetry \in Nat
  BY OrchestrationAssumption
<1>6. ASSUME NEW s \in {"done", "blocked", "rejected"}, h = [given EXCEPT !.status = s],
             s = "done" => r.nodes = {}
      PROVE  /\ h \in Runs /\ Sound(h) /\ h.status # "threw" /\ h.wave = {}
             /\ \A n \in Nodes : h.outcome[n] = "none"
  <2>1. /\ h \in Runs /\ h.status = s /\ h.nodes = r.nodes /\ h.pending = {}
        /\ h.wave = {} /\ h.jobs = NoRun.jobs /\ h.outcome = NoRun.outcome
        /\ h.unmet = NoRun.unmet
    BY <1>2, <1>3, <1>4, <1>6 DEF Runs, Statuses
  <2>2. \A n \in Nodes : State(h, n) = "none" /\ h.jobs[n].attempt = 1
    BY <1>4, <2>1 DEF State
  <2>3. s = "done" => Loop(h)
    BY <1>3, <1>4, <1>6, <2>1, <2>2 DEF Loop
  <2>4. Sound(h)
    BY <1>5, <2>1, <2>2, <2>3 DEF Sound
  <2> QED BY <1>4, <2>1, <2>4
<1>7. ASSUME h = NextRound(built)
      PROVE  /\ h \in Runs /\ Sound(h) /\ h.status # "threw"
             /\ \A n \in h.wave : State(h, n) = "queued"
             /\ \A n \in Nodes : h.outcome[n] = "executing" => State(h, n) = "running"
  <2>1. QueuedJob \in Jobs /\ NoJob \in Jobs /\ QueuedJob.state = "queued"
        /\ NoJob.state = "none" /\ QueuedJob.attempt = 1 /\ NoJob.attempt = 1
    <3>1. NoJob \in Jobs /\ NoJob.state = "none" /\ NoJob.attempt = 1
      BY DEF NoJob, Jobs
    <3> QED BY <3>1 DEF QueuedJob, Jobs
  <2> DEFINE js == [n \in Nodes |-> IF n \in r.nodes THEN QueuedJob ELSE NoJob]
             us == [n \in Nodes |-> IF n \in r.nodes THEN r.deps[n] ELSE {}]
  <2>2. js \in [Nodes -> Jobs] /\ us \in [Nodes -> SUBSET Nodes]
    BY <1>3, <2>1
  <2>3. \A n \in Nodes :
           /\ js[n].attempt = 1
           /\ n \in r.nodes => js[n].state = "queued" /\ us[n] = r.deps[n]
           /\ n \notin r.nodes => js[n].state = "none" /\ us[n] = {}
    BY <2>1
  <2>4. built = [given EXCEPT !.jobs = js, !.unmet = us, !.pending = r.nodes]
    OBVIOUS
  <2> HIDE DEF js, us, built
  <2>5. /\ built \in Runs /\ built.nodes = r.nodes /\ built.deps = r.deps
        /\ built.jobs = js /\ built.unmet = us /\ built.pending = r.nodes
        /\ built.wave = {} /\ built.outcome = NoRun.outcome
    BY <1>2, <1>3, <1>4, <2>2, <2>4 DEF Runs
  <2>6. \A n \in Nodes : State(built, n) = IF n \in r.nodes THEN "queued" ELSE "none"
    BY <2>3, <2>5 DEF State
  <2>7. Loop(built)
    BY <1>3, <1>4, <2>3, <2>5, <2>6 DEF Loop
  <2>8. /\ h \in Runs /\ Loop(h)
        /\ h.status \in {"awaiting", "done"}
        /\ h.status = "done" => h.pending = {}
        /\ \A n \in h.wave : State(h, n) = "queued"
        /\ \A n \in Nodes :
              /\ h.jobs[n].attempt = built.jobs[n].attempt
              /\ h.outcome[n] = "executing" => State(h, n) = "running"
    BY <1>7, <2>5, <2>7, NextRoundRun
  <2>9. \A n \in Nodes : h.jobs[n].attempt <= MaxRetry + 1
    BY <1>5, <2>3, <2>5, <2>8
  <2> QED BY <2>8, <2>9 DEF Sound
<1>8. \/ h = NextRound(built)
      \/ \E s \in {"done", "blocked", "rejected"} :
            h = [given EXCEPT !.status = s] /\ (s = "done" => r.nodes = {})
  <2> HIDE DEF given, built
  <2> QED BY <1>1
<1> HIDE DEF given, built
<1>9. /\ h \in Runs /\ Sound(h) /\ h.status # "threw"
      /\ \A n \in h.wave : State(h, n) = "queued"
      /\ \A n \in Nodes : h.outcome[n] = "executing" => State(h, n) = "running"
  BY <1>6, <1>7, <1>8
<1> QED BY <1>1, <1>2, <1>9, Relaunch

\* Processing a batch and starting the next chunk or round.
LEMMA ResumeInv ==
    ASSUME Inv, NEW d \in Delegations, Resume(d)
    PROVE  Inv'
<1> DEFINE g == run[d]
           p == Processed(g)
<1>1. PICK h : /\ h = (IF p.wave # {} THEN Launched(p, p.wave) ELSE NextRound(p))
               /\ run' = [run EXCEPT ![d] = h]
               /\ calls' = calls \cup CallsMade(d, h)
               /\ UNCHANGED <<failures, cancels>>
  BY DEF Resume
<1>2. g \in Runs /\ Loop(g) /\ g.status = "awaiting"
  BY DEF Inv, Sound, TypeOK, Resume
<1>3. \A n \in Nodes : g.jobs[n].attempt <= MaxRetry + 1
  BY DEF Inv, Sound
<1>4. \A n \in g.wave : State(g, n) = "queued" \/ <<d, n>> \in cancels
  BY DEF Inv, WaveKept
<1>5. /\ p \in Runs /\ Loop(p) /\ p.wave = g.wave
      /\ \A n \in Nodes : p.jobs[n].attempt = g.jobs[n].attempt
      /\ \A n \in g.wave : State(p, n) = State(g, n)
  BY <1>2, ProcessedRun
<1> HIDE DEF p
<1>6. CASE p.wave # {}
  <2>1. h = Launched(p, p.wave)
    BY <1>1, <1>6
  <2>2. p.wave \in SUBSET Nodes /\ \A n \in p.wave : p.unmet[n] = {} /\ State(p, n) # "none"
    BY <1>5 DEF Runs, Loop
  <2>3. Loop(h)
    BY <1>5, <2>1, <2>2, LaunchedLoop
  <2>4. /\ h \in Runs /\ h.wave \subseteq p.wave /\ h.status \in {"awaiting", "threw"}
        /\ h.status = "threw" => \E n \in p.wave : State(p, n) # "queued"
        /\ \A n \in Nodes :
              /\ h.jobs[n].attempt = p.jobs[n].attempt
              /\ h.outcome[n] = "executing" => State(h, n) = "running"
              /\ n \in h.wave => State(h, n) = State(p, n)
    BY <1>5, <2>1, <2>2, LaunchedRun
  <2>5. Sound(h)
    BY <1>3, <1>5, <2>3, <2>4 DEF Sound
  <2>6. h.status = "threw" => \E n \in Nodes : <<d, n>> \in cancels
    BY <1>4, <1>5, <2>2, <2>4
  <2>7. \A n \in h.wave : State(h, n) = "queued" \/ <<d, n>> \in cancels
    BY <1>4, <1>5, <2>2, <2>4
  <2> QED BY <1>1, <2>4, <2>5, <2>6, <2>7, Relaunch
<1>7. CASE p.wave = {}
  <2>1. h = NextRound(p)
    BY <1>1, <1>7
  <2>2. /\ h \in Runs /\ Loop(h)
        /\ h.status \in {"awaiting", "done"}
        /\ h.status = "done" => h.pending = {}
        /\ \A n \in h.wave : State(h, n) = "queued"
        /\ \A n \in Nodes :
              /\ h.jobs[n].attempt = p.jobs[n].attempt
              /\ h.outcome[n] = "executing" => State(h, n) = "running"
    BY <1>5, <1>7, <2>1, NextRoundRun
  <2>3. Sound(h)
    BY <1>3, <1>5, <2>2 DEF Sound
  <2> QED BY <1>1, <2>2, <2>3, Relaunch
<1> QED BY <1>6, <1>7

\* The executor returned.
LEMMA FinishInv ==
    ASSUME Inv, NEW d \in Delegations, NEW n \in Nodes, Finish(d, n)
    PROVE  Inv'
<1> DEFINE j == [run[d].jobs[n] EXCEPT !.state = "completed"]
<1>1. /\ n \in Attempting(run[d]) /\ CallOf(d, n) \in calls
      /\ calls' = calls \ {CallOf(d, n)} /\ failures' = 0 /\ UNCHANGED cancels
      /\ run' = [run EXCEPT ![d].jobs[n].state = "completed", ![d].outcome[n] = "settled"]
  BY DEF Finish
<1>2. run \in [Delegations -> Runs] /\ run[d] \in Runs /\ run[d].jobs[n] \in Jobs
  BY DEF Inv, TypeOK, Runs
<1>3. run' = [run EXCEPT ![d] = [run[d] EXCEPT !.jobs[n] = j, !.outcome[n] = "settled",
                                               !.status = run[d].status]]
  BY <1>1, <1>2 DEF Runs
<1>4. j \in Jobs /\ j.state = "completed" /\ j.attempt = run[d].jobs[n].attempt
  BY <1>2 DEF Jobs, Terminal
<1>5. j.attempt <= MaxRetry + 1
  BY <1>4 DEF Inv, Sound
<1>6. State(run[d], n) # "cancelled"
  BY <1>1 DEF Finish, Inv, TypeOK
<1> HIDE DEF j
<1> QED
  BY <1>1, <1>3, <1>4, <1>5, <1>6, AttemptEnds DEF Terminal, Outcomes, Inv, TypeOK, Runs

\* An attempt that failed, whatever ended it.
LEMMA AttemptFailsInv ==
    ASSUME Inv, NEW d \in Delegations, NEW n \in Attempting(run[d]),
           NEW abort \in BOOLEAN, AttemptFails(d, n, abort),
           calls' \subseteq calls, calls \ {CallOf(d, n)} \subseteq calls',
           UNCHANGED cancels
    PROVE  Inv'
<1> DEFINE g == run[d]
           job == [g.jobs[n] EXCEPT !.aborted = @ \/ abort]
           again == job.attempt <= MaxRetry
           counted == [job EXCEPT !.attempt = IF again THEN @ + 1 ELSE @]
<1>1. /\ run \in [Delegations -> Runs] /\ g \in Runs /\ n \in Nodes /\ g.jobs[n] \in Jobs
      /\ g.jobs[n].attempt <= MaxRetry + 1 /\ failures \in Nat
      /\ \/ State(g, n) = "running"
         \/ State(g, n) = "cancelled" /\ <<d, n>> \in cancels
  BY DEF Inv, TypeOK, Runs, Sound, Attempting
<1>2. job \in Jobs /\ job.state = State(g, n) /\ job.attempt = g.jobs[n].attempt
  BY <1>1 DEF Jobs, State
<1> HIDE DEF job
<1>3. /\ counted \in Jobs /\ counted.state = State(g, n)
      /\ counted.attempt <= MaxRetry + 1
  BY <1>1, <1>2, OrchestrationAssumption DEF Jobs
<1>4. CASE job.state = "cancelled"
  <2>1. /\ run' = [run EXCEPT ![d].jobs[n] = counted, ![d].outcome[n] = "none",
                              ![d].status = "threw"]
        /\ failures' = failures
    BY <1>4 DEF AttemptFails, job
  <2> HIDE DEF counted
  <2>2. run' = [run EXCEPT ![d] = [g EXCEPT !.jobs[n] = counted, !.outcome[n] = "none",
                                            !.status = "threw"]]
    BY <1>1, <2>1 DEF Runs
  <2>3. "none" \in Outcomes \ {"executing"} /\ "threw" \in Statuses
    BY DEF Outcomes, Statuses
  <2>4. counted.state = "cancelled" /\ <<d, n>> \in cancels
    BY <1>1, <1>2, <1>3, <1>4
  <2> QED BY <1>1, <1>2, <1>3, <1>4, <2>1, <2>2, <2>3, <2>4, AttemptEnds
<1>5. CASE job.state # "cancelled"
  <2> DEFINE j == [counted EXCEPT !.state = IF again THEN "queued" ELSE "failed"]
             o == IF again THEN "retry" ELSE "settled"
  <2>1. /\ run' = [run EXCEPT ![d].jobs[n] = j, ![d].outcome[n] = o]
        /\ failures' = IF again THEN failures ELSE failures + 1
    BY <1>5 DEF AttemptFails, job
  <2>2. /\ j \in Jobs /\ j.attempt <= MaxRetry + 1 /\ j.state \in {"queued", "failed"}
        /\ o = "settled" => j.state \in Terminal
        /\ o \in Outcomes \ {"executing"}
    <3> HIDE DEF counted, again
    <3> QED BY <1>3 DEF Jobs, Terminal, Outcomes
  <2>3. failures' \in Nat
    BY <1>1, <2>1
  <2> HIDE DEF counted, j, o, again
  <2>4. run' = [run EXCEPT ![d] = [g EXCEPT !.jobs[n] = j, !.outcome[n] = o,
                                            !.status = g.status]]
    BY <1>1, <2>1 DEF Runs
  <2>5. State(g, n) = "running" /\ g.status \in Statuses
    BY <1>1, <1>2, <1>5 DEF Runs
  <2> QED BY <2>2, <2>3, <2>4, <2>5, AttemptEnds
<1> QED BY <1>4, <1>5

\* cancel() on a queued or running job.
LEMMA CancelInv ==
    ASSUME Inv, NEW d \in Delegations, NEW n \in Nodes, Cancel(d, n)
    PROVE  Inv'
<1> DEFINE g == run[d]
           j == [g.jobs[n] EXCEPT !.state = "cancelled", !.aborted = TRUE]
           h == [g EXCEPT !.jobs[n] = j]
<1>1. /\ State(g, n) \in {"queued", "running"} /\ UNCHANGED <<calls, failures>>
      /\ cancels' = cancels \cup {<<d, n>>}
  BY DEF Cancel
<1>2. run \in [Delegations -> Runs] /\ g \in Runs /\ g.jobs[n] \in Jobs
  BY DEF Inv, TypeOK, Runs
<1>3. run' = [run EXCEPT ![d] = h]
  BY <1>2 DEF Cancel, Runs
<1>4. /\ Loop(g) /\ g.status # "idle" /\ g.status \notin {"blocked", "rejected"}
      /\ (g.status = "done" => g.pending = {})
  <2>1. State(g, n) # "none"
    BY <1>1
  <2> QED BY <2>1, InTheLoop DEF Inv, Sound
<1>5. /\ j \in Jobs /\ j.state = "cancelled" /\ j.aborted = TRUE
      /\ j.attempt = g.jobs[n].attempt
  BY <1>2 DEF Jobs, Terminal
<1> HIDE DEF j
<1>6. /\ h \in Runs /\ h.status = g.status
      /\ h.nodes = g.nodes /\ h.deps = g.deps /\ h.unmet = g.unmet
      /\ h.pending = g.pending /\ h.wave = g.wave /\ h.outcome = g.outcome
      /\ h.jobs[n] = j /\ \A m \in Nodes \ {n} : h.jobs[m] = g.jobs[m]
  BY <1>2, <1>5 DEF Runs
<1>7. run'[d] = h /\ \A e \in Delegations \ {d} : run'[e] = run[e]
  BY <1>2, <1>3
<1>8. /\ g.deps \in [Nodes -> SUBSET Nodes] /\ g.nodes \in SUBSET Nodes
      /\ g.wave \in SUBSET Nodes /\ g.pending \in SUBSET Nodes
  BY <1>2 DEF Runs
<1>9. run' \in [Delegations -> Runs]
  BY <1>2, <1>3, <1>6
<1> HIDE DEF g, h
<1>10. /\ State(h, n) = "cancelled"
       /\ \A m \in Nodes \ {n} : State(h, m) = State(g, m)
       /\ \A m \in Nodes : h.jobs[m].attempt = g.jobs[m].attempt
  BY <1>5, <1>6 DEF State
<1>11. Loop(h)
  <2>1. \A k \in Nodes : State(h, k) # "none" =>
            \A m \in h.deps[k] \ h.unmet[k] : State(h, m) = "completed"
    BY <1>1, <1>4, <1>6, <1>8, <1>10 DEF Loop
  <2>2. \A k \in Nodes :
            State(h, k) \in {"running", "completed", "failed"} => h.unmet[k] = {}
    BY <1>4, <1>6, <1>10 DEF Loop
  <2>3. \A k \in h.wave : h.unmet[k] = {} /\ State(h, k) # "none"
    BY <1>4, <1>6, <1>8, <1>10 DEF Loop
  <2>4. \A k \in Nodes : h.outcome[k] = "settled" => State(h, k) \in Terminal
    BY <1>4, <1>6, <1>10 DEF Loop, Terminal
  <2>5. \A k \in h.nodes \ h.pending : State(h, k) \in Terminal
    BY <1>4, <1>6, <1>8, <1>10 DEF Loop, Terminal
  <2>6. \A k \in h.pending : State(h, k) # "none"
    BY <1>4, <1>6, <1>8, <1>10 DEF Loop
  <2> QED BY <2>1, <2>2, <2>3, <2>4, <2>5, <2>6 DEF Loop
<1>12. Sound(h)
  <2>1. \A m \in Nodes : h.jobs[m].attempt <= MaxRetry + 1
    BY <1>10 DEF Inv, Sound, g
  <2> QED BY <1>4, <1>6, <1>11, <2>1 DEF Sound
<1>13. ASSUME NEW e \in Delegations, NEW m \in Attempting(run'[e])
       PROVE  /\ \/ State(run'[e], m) = "running"
                 \/ /\ State(run'[e], m) = "cancelled" /\ run'[e].jobs[m].aborted
                    /\ <<e, m>> \in cancels'
              /\ CallOf(e, m)' \in calls' \/ run'[e].jobs[m].aborted
  <2>1. m \in Attempting(run[e])
    <3>1. run'[e].outcome = run[e].outcome
      BY <1>6, <1>7 DEF g
    <3> QED BY <1>13, <3>1 DEF Attempting
  <2>2. CASE e = d /\ m = n
    <3>1. State(run'[e], m) = "cancelled" /\ run'[e].jobs[m].aborted
      BY <1>5, <1>6, <1>7, <1>10, <2>2
    <3> QED BY <1>1, <2>2, <3>1
  <2>3. CASE ~(e = d /\ m = n)
    <3>1. run'[e].jobs[m] = run[e].jobs[m]
      BY <1>6, <1>7, <2>1, <2>3 DEF g, Attempting
    <3>2. CallOf(e, m)' = CallOf(e, m) /\ State(run'[e], m) = State(run[e], m)
      BY <3>1 DEF CallOf, State
    <3> QED BY <1>1, <2>1, <3>1, <3>2 DEF Inv, TypeOK
  <2> QED BY <2>2, <2>3
<1>14. TypeOK'
  BY <1>1, <1>9, <1>13 DEF Inv, TypeOK
<1>15. \A e \in Delegations : Sound(run'[e]) /\ WaveKept(e)'
  <2>1. \A k \in h.wave : State(h, k) = "queued" \/ <<d, k>> \in cancels'
    BY <1>1, <1>6, <1>8, <1>10 DEF Inv, WaveKept, g
  <2> QED BY <1>1, <1>7, <1>12, <2>1 DEF Inv, WaveKept
<1>16. ThrowsOnlyAfterCancel'
  BY <1>1, <1>6, <1>7 DEF Inv, ThrowsOnlyAfterCancel, g
<1> QED BY <1>14, <1>15, <1>16 DEF Inv

\* An executor call that nobody awaits ends.
LEMMA AbandonedInv ==
    ASSUME Inv, NEW c \in calls, AbandonedEnds(c)
    PROVE  Inv'
<1>1. /\ calls' = calls \ {c} /\ UNCHANGED <<run, failures, cancels>>
      /\ c[2] \notin Attempting(run[c[1]]) \/ c # CallOf(c[1], c[2])
  BY DEF AbandonedEnds
<1>2. \A d \in Delegations : \A n \in Attempting(run[d]) : c # CallOf(d, n)
  BY <1>1 DEF CallOf
<1>3. \A d \in Delegations : \A n \in Attempting(run[d]) : CallOf(d, n)' = CallOf(d, n)
  BY <1>1 DEF CallOf
<1>4. TypeOK'
  BY <1>1, <1>2, <1>3 DEF Inv, TypeOK
<1> QED BY <1>1, <1>4 DEF Inv, WaveKept, ThrowsOnlyAfterCancel

\* Every step keeps the invariant.
LEMMA InvIsInductive == Inv /\ [Next]_vars => Inv'
<1>1. ASSUME Inv, [Next]_vars PROVE Inv'
  <2>1. CASE UNCHANGED vars
    <3>1. \A d \in Delegations, n \in Nodes : CallOf(d, n)' = CallOf(d, n)
      BY <2>1 DEF vars, CallOf
    <3>2. TypeOK'
      BY <1>1, <2>1, <3>1 DEF Inv, TypeOK, vars, Attempting
    <3> QED
      BY <1>1, <2>1, <3>2 DEF vars, Inv, WaveKept, ThrowsOnlyAfterCancel
  <2>2. ASSUME NEW d \in Delegations, NEW r \in Requests[d], RunDelegation(d, r) PROVE Inv'
    BY <1>1, <2>2, RunDelegationInv
  <2>3. ASSUME NEW d \in Delegations, Resume(d) PROVE Inv'
    BY <1>1, <2>3, ResumeInv
  <2>4. ASSUME NEW d \in Delegations, NEW n \in Nodes, Finish(d, n) PROVE Inv'
    BY <1>1, <2>4, FinishInv
  <2>5. ASSUME NEW d \in Delegations, NEW n \in Nodes, Reject(d, n) PROVE Inv'
    <3>1. n \in Attempting(run[d]) /\ calls' = calls \ {CallOf(d, n)} /\ cancels' = cancels
          /\ AttemptFails(d, n, FALSE)
      BY <2>5 DEF Reject
    <3> QED BY <1>1, <3>1, AttemptFailsInv
  <2>6. ASSUME NEW d \in Delegations, NEW n \in Nodes, Timeout(d, n) PROVE Inv'
    <3>1. n \in Attempting(run[d]) /\ calls' = calls /\ cancels' = cancels
          /\ AttemptFails(d, n, TRUE)
      BY <2>6 DEF Timeout
    <3> QED BY <1>1, <3>1, AttemptFailsInv
  <2>7. ASSUME NEW d \in Delegations, NEW n \in Nodes, Refuse(d, n) PROVE Inv'
    <3>1. n \in Attempting(run[d]) /\ calls' = calls /\ cancels' = cancels
          /\ AttemptFails(d, n, FALSE)
      BY <2>7 DEF Refuse
    <3> QED BY <1>1, <3>1, AttemptFailsInv
  <2>8. ASSUME NEW d \in Delegations, NEW n \in Nodes, Cancel(d, n) PROVE Inv'
    BY <1>1, <2>8, CancelInv
  <2>9. ASSUME NEW c \in calls, AbandonedEnds(c) PROVE Inv'
    BY <1>1, <2>9, AbandonedInv
  <2> QED
    BY <1>1, <2>1, <2>2, <2>3, <2>4, <2>5, <2>6, <2>7, <2>8, <2>9 DEF Next, Step
<1> QED BY <1>1

-----------------------------------------------------------------------------
(* Theorems.                                                               *)

\* The invariant holds of every reachable state, whatever the calls, graphs,
\* limits and number of cancellations.
THEOREM Invariance == Spec => []Inv
BY InitInv, InvIsInductive, PTL DEF Spec

\* Type correctness: every awaited executor call belongs to a job that
\* Promise.all waits for.
THEOREM TypeCorrect == Spec => []TypeOK
<1>1. Inv => TypeOK
  BY DEF Inv
<1> QED BY <1>1, Invariance, PTL

\* "Execute jobs only when upstream dependencies complete successfully."
THEOREM DependenciesComeFirst == Spec => []DependenciesFirst
<1>1. Inv => DependenciesFirst
  <2> SUFFICES ASSUME Inv, NEW d \in Delegations, NEW n \in run[d].nodes,
                      State(run[d], n) \in {"running", "completed", "failed"},
                      NEW m \in run[d].deps[n]
               PROVE  State(run[d], m) = "completed"
    BY DEF DependenciesFirst
  <2>1. run[d] \in Runs /\ n \in Nodes
    BY DEF Inv, TypeOK, Runs
  <2>2. Loop(run[d])
    BY <2>1, InTheLoop
  <2> QED BY <2>1, <2>2 DEF Loop
<1> QED BY <1>1, Invariance, PTL

\* "Never silently skip dependency failures."
THEOREM FailuresReported == Spec => []NoFailureSkipped
<1>1. Inv => NoFailureSkipped
  <2> SUFFICES ASSUME Inv, NEW d \in Delegations, run[d].status = "done",
                      NEW n \in run[d].nodes
               PROVE  /\ State(run[d], n) \in Terminal
                      /\ (\E m \in run[d].deps[n] : State(run[d], m) # "completed") =>
                             State(run[d], n) = "cancelled"
    BY DEF NoFailureSkipped
  <2>1. run[d] \in Runs /\ n \in Nodes /\ Loop(run[d]) /\ run[d].pending = {}
    BY DEF Inv, TypeOK, Runs, Sound
  <2>2. State(run[d], n) \in Terminal
    BY <2>1 DEF Loop
  <2>3. State(run[d], n) # "cancelled" =>
           \A m \in run[d].deps[n] : State(run[d], m) = "completed"
    BY <2>1, <2>2 DEF Loop, Terminal
  <2> QED BY <2>2, <2>3
<1> QED BY <1>1, Invariance, PTL

\* Without cancel(), no order of retries, timeouts and breaker openings makes a
\* call throw half way.
THEOREM NoThrowWithoutCancel == Spec => []ThrowsOnlyAfterCancel
<1>1. Inv => ThrowsOnlyAfterCancel
  BY DEF Inv
<1> QED BY <1>1, Invariance, PTL

\* An open breaker calls no executor, and stays open once nothing is under way.
THEOREM BreakerStaysOpen == Spec => BreakerLatches
<1>1. ASSUME Inv, [Next]_vars, BreakerOpen
      PROVE  /\ calls' \subseteq calls
             /\ (\A d \in Delegations : Attempting(run[d]) = {}) => BreakerOpen'
  <2>1. failures \in Nat /\ Threshold \in Nat
    BY <1>1, OrchestrationAssumption DEF Inv, TypeOK
  <2>2. ASSUME NEW d \in Delegations, NEW h,
               \A n \in Nodes : h.outcome[n] # "executing"
        PROVE  CallsMade(d, h) = {}
    BY <2>2 DEF CallsMade, Attempting
  <2>3. ASSUME NEW d \in Delegations, NEW r \in Requests[d], RunDelegation(d, r)
        PROVE  calls' = calls /\ failures' = failures
    <3> DEFINE given == [run[d] EXCEPT !.nodes = r.nodes, !.deps = r.deps]
    <3>1. PICK h \in {[given EXCEPT !.status = "done"], [given EXCEPT !.status = "blocked"]} :
             calls' = calls \cup CallsMade(d, h)
      BY <1>1, <2>3 DEF RunDelegation
    <3>2. run[d] = NoRun
      BY <1>1, <2>3 DEF RunDelegation, Inv, Sound
    <3>3. h.outcome = NoRun.outcome
      <4>1. NoRun.outcome = given.outcome
        BY <3>2 DEF NoRun
      <4>2. \A s : [given EXCEPT !.status = s].outcome = given.outcome
        BY <3>2 DEF NoRun
      <4> HIDE DEF given
      <4> QED BY <3>1, <4>1, <4>2
    <3>4. \A n \in Nodes : h.outcome[n] # "executing"
      BY <3>3 DEF NoRun
    <3> QED BY <2>2, <2>3, <3>1, <3>4 DEF RunDelegation
  <2>4. ASSUME NEW d \in Delegations, Resume(d)
        PROVE  calls' = calls /\ failures' = failures
    <3> DEFINE p == Processed(run[d])
    <3>1. PICK h : /\ h = (IF p.wave # {} THEN Launched(p, p.wave) ELSE NextRound(p))
                   /\ calls' = calls \cup CallsMade(d, h)
      BY <2>4 DEF Resume
    <3>2. run[d] \in Runs /\ Loop(run[d])
      BY <1>1, <2>4 DEF Inv, Sound, TypeOK, Resume
    <3>3. p \in Runs
      BY <3>2, ProcessedRun
    <3> HIDE DEF p
    <3>4. CASE p.wave # {}
      <4>1. h = Launched(p, p.wave) /\ p.wave \in SUBSET Nodes
        BY <3>1, <3>3, <3>4 DEF Runs
      <4>2. \A n \in Nodes : h.outcome[n] # "executing"
        BY <1>1, <3>3, <4>1, LaunchedRun
      <4> QED BY <2>2, <2>4, <3>1, <4>2 DEF Resume
    <3>5. CASE p.wave = {}
      <4> DEFINE c == WithCancelled(p, p.pending)
      <4>1. h = [c EXCEPT !.status = "done", !.pending = {},
                          !.outcome = [n \in Nodes |-> "none"]]
        BY <1>1, <3>1, <3>5 DEF NextRound
      <4>2. c \in Runs
        BY <3>3, CancelledJobs
      <4> HIDE DEF c
      <4>3. \A n \in Nodes : h.outcome[n] # "executing"
        BY <4>1, <4>2 DEF Runs
      <4> QED BY <2>2, <2>4, <3>1, <4>3 DEF Resume
    <3> QED BY <3>4, <3>5
  <2>5. ASSUME NEW d \in Delegations, NEW n \in Nodes, Finish(d, n)
        PROVE  calls' \subseteq calls /\ Attempting(run[d]) # {}
    BY <2>5 DEF Finish
  <2>6. ASSUME NEW d \in Delegations, NEW n \in Nodes,
               Reject(d, n) \/ Timeout(d, n) \/ Refuse(d, n)
        PROVE  calls' \subseteq calls /\ Attempting(run[d]) # {}
    BY <2>6 DEF Reject, Timeout, Refuse
  <2>7. ASSUME NEW d \in Delegations, NEW n \in Nodes, Cancel(d, n)
        PROVE  calls' = calls /\ failures' = failures
    BY <2>7 DEF Cancel
  <2>8. ASSUME NEW c \in calls, AbandonedEnds(c)
        PROVE  calls' \subseteq calls /\ failures' = failures
    BY <2>8 DEF AbandonedEnds
  <2>9. CASE UNCHANGED vars
    BY <1>1, <2>9 DEF vars, BreakerOpen
  <2> QED
    BY <1>1, <2>3, <2>4, <2>5, <2>6, <2>7, <2>8, <2>9 DEF Next, Step, BreakerOpen
<1> QED BY <1>1, Invariance, PTL DEF Spec, BreakerLatches

-----------------------------------------------------------------------------
(* Why a job is cancelled.  The invariant above says when a dependency may *)
(* have left unmetDependencies; here it is needed that it must: what is    *)
(* unmet of a pending job has not completed, but for the jobs of a batch   *)
(* whose outcomes are not processed yet.                                   *)

Known(g) ==
    /\ \A n \in Nodes : State(g, n) = "running" => g.outcome[n] = "executing"
    /\ \A n \in g.pending : \A m \in g.unmet[n] :
          State(g, m) = "completed" => g.outcome[m] = "settled"
    /\ g.pending \subseteq g.nodes
    /\ \A n \in Nodes : g.unmet[n] \subseteq g.deps[n]
    /\ \A n \in g.pending : g.deps[n] \subseteq g.nodes

\* What is known between two batches: nothing runs, nothing unmet completed.
Between(g) ==
    /\ \A n \in Nodes : State(g, n) # "running"
    /\ \A n \in g.pending : \A m \in g.unmet[n] : State(g, m) # "completed"
    /\ g.pending \subseteq g.nodes
    /\ \A n \in Nodes : g.unmet[n] \subseteq g.deps[n]
    /\ \A n \in g.pending : g.deps[n] \subseteq g.nodes

\* The jobs cancelled from g to h have a dependency that failed or was cancelled.
Caused(g, h) ==
    \A n \in Nodes : State(h, n) = "cancelled" /\ State(g, n) # "cancelled" =>
        \E m \in h.deps[n] : State(h, m) \in {"failed", "cancelled"}

\* From g to h the jobs that failed or were cancelled stay so.
Lasting(g, h) ==
    \A n \in Nodes : State(g, n) \in {"failed", "cancelled"} => State(h, n) = State(g, n)

\* A step in two parts.
LEMMA CausedTwice ==
    ASSUME NEW g \in Runs, NEW p \in Runs, NEW h \in Runs, h.deps = p.deps,
           Caused(g, p), Lasting(p, h), Caused(p, h)
    PROVE  Caused(g, h)
<1> SUFFICES ASSUME NEW n \in Nodes, State(h, n) = "cancelled", State(g, n) # "cancelled"
             PROVE  \E m \in h.deps[n] : State(h, m) \in {"failed", "cancelled"}
  BY DEF Caused
<1>1. CASE State(p, n) = "cancelled"
  <2>1. PICK m \in p.deps[n] : State(p, m) \in {"failed", "cancelled"}
    BY <1>1 DEF Caused
  <2>2. m \in Nodes
    BY DEF Runs
  <2> QED BY <2>1, <2>2 DEF Lasting
<1>2. CASE State(p, n) # "cancelled"
  BY <1>2 DEF Caused
<1> QED BY <1>1, <1>2

\* The jobs #cancelDependents drops depend on a job of the batch that did not
\* complete, or on one it cancels: no smaller set is closed.
LEMMA DroppedHaveADroppedDependency ==
    ASSUME NEW g \in Runs, NEW B \in SUBSET Nodes
    PROVE  \A n \in Dropped(g, B) :
              \E m \in g.deps[n] :
                 m \in B \/ (m \in Dropped(g, B) /\ State(g, m) \notin Terminal)
<1> DEFINE D == Dropped(g, B)
           C == {n \in D : \E m \in g.deps[n] :
                              m \in B \/ (m \in D /\ State(g, m) \notin Terminal)}
           Cancels(S) == {n \in S : State(g, n) \notin Terminal}
           Closed(S) == \A n \in g.pending : g.deps[n] \cap (B \cup Cancels(S)) # {} => n \in S
<1>1. D = {n \in g.pending : \A S \in SUBSET g.pending : Closed(S) => n \in S}
  BY DEF Dropped
<1>2. D \subseteq g.pending /\ C \subseteq D
  BY <1>1
<1>3. ASSUME NEW n \in g.pending, g.deps[n] \cap (B \cup Cancels(C)) # {}
      PROVE  n \in C
  <2>1. PICK m \in g.deps[n] : m \in B \/ (m \in C /\ State(g, m) \notin Terminal)
    BY <1>3
  <2>2. m \in B \/ (m \in D /\ State(g, m) \notin Terminal)
    BY <1>2, <2>1
  <2>3. n \in D
    <3> SUFFICES ASSUME NEW S \in SUBSET g.pending, Closed(S) PROVE n \in S
      BY <1>1
    <3>1. m \in B \cup Cancels(S)
      BY <1>1, <2>2
    <3> QED BY <2>1, <3>1
  <2> QED BY <2>1, <2>2, <2>3
<1>4. Closed(C)
  BY <1>3
<1>5. \A n \in D : n \in C
  BY <1>1, <1>2, <1>4
<1> QED BY <1>5

\* Processing a batch, when nothing runs any more.
LEMMA ProcessedCauses ==
    ASSUME NEW g \in Runs, Loop(g), Known(g), Attempting(g) = {}
    PROVE  Between(Processed(g)) /\ Caused(g, Processed(g))
<1> DEFINE E == {n \in Nodes : g.outcome[n] = "settled"}
           F == {n \in E : State(g, n) = "completed"}
           l == [g EXCEPT !.pending = g.pending \ E]
           D == Dropped(l, E \ F)
           c == WithCancelled(l, D)
           u == [n \in Nodes |-> IF n \in l.pending THEN g.unmet[n] \ F ELSE g.unmet[n]]
           p == Processed(g)
<1>1. p = [c EXCEPT !.pending = l.pending \ D, !.unmet = u]
  BY DEF Processed
<1>2. /\ l \in Runs /\ l.jobs = g.jobs /\ l.pending = g.pending \ E
      /\ l.nodes = g.nodes /\ l.deps = g.deps
  BY DEF Runs
<1> HIDE DEF l
<1>3. \A n \in D : \E m \in g.deps[n] :
          m \in E \ F \/ (m \in D /\ State(g, m) \notin Terminal)
  <2>1. E \ F \in SUBSET Nodes
    OBVIOUS
  <2> HIDE DEF E, F
  <2>2. \A n \in D : \E m \in l.deps[n] :
            m \in E \ F \/ (m \in D /\ State(l, m) \notin Terminal)
    BY <1>2, <2>1, DroppedHaveADroppedDependency
  <2> HIDE DEF D
  <2> QED BY <1>2, <2>2 DEF State
<1>4. /\ c \in Runs
      /\ c = [l EXCEPT !.jobs = c.jobs]
      /\ \A n \in Nodes : State(c, n) = IF n \in D /\ State(l, n) \notin Terminal
                                        THEN "cancelled" ELSE State(l, n)
  <2> HIDE DEF D
  <2> QED BY <1>2, CancelledJobs
<1>5. u \in [Nodes -> SUBSET Nodes]
  BY DEF Runs
<1>6. /\ \A n \in Nodes : u[n] \subseteq g.unmet[n]
      /\ \A n \in Nodes : n \in l.pending => u[n] = g.unmet[n] \ F
  OBVIOUS
<1>7. /\ E \subseteq Nodes /\ \A m \in E : g.outcome[m] = "settled"
      /\ \A m \in Nodes : g.outcome[m] = "settled" => m \in E
      /\ \A m \in E : m \in F <=> State(g, m) = "completed"
  OBVIOUS
<1> HIDE DEF c, u, D, E, F, p
<1>8. p.nodes = g.nodes /\ p.deps = g.deps /\ p.jobs = c.jobs /\ p.unmet = u
      /\ p.pending = l.pending \ D
  BY <1>1, <1>2, <1>4, <1>5 DEF Runs
<1>9. \A n \in Nodes : State(p, n) = IF n \in D /\ State(g, n) \notin Terminal
                                     THEN "cancelled" ELSE State(g, n)
  BY <1>2, <1>4, <1>8 DEF State
<1>10. /\ g.deps \in [Nodes -> SUBSET Nodes] /\ g.unmet \in [Nodes -> SUBSET Nodes]
       /\ g.pending \in SUBSET Nodes
  BY DEF Runs
<1>11. Between(p)
  <2>1. \A n \in Nodes : State(p, n) # "running"
    BY <1>9 DEF Known, Attempting
  <2>2. \A n \in p.pending : \A m \in p.unmet[n] : State(p, m) # "completed"
    <3> SUFFICES ASSUME NEW n \in p.pending, NEW m \in p.unmet[n],
                        State(p, m) = "completed"
                 PROVE  FALSE
      OBVIOUS
    <3>1. n \in g.pending /\ n \in Nodes /\ m \in g.unmet[n] /\ m \in Nodes /\ m \notin F
      BY <1>2, <1>6, <1>8, <1>10
    <3>2. State(g, m) = "completed"
      BY <1>9, <3>1
    <3> QED BY <1>7, <3>1, <3>2 DEF Known
  <2>3. p.pending \subseteq p.nodes
    BY <1>2, <1>8 DEF Known
  <2>4. \A n \in Nodes : p.unmet[n] \subseteq p.deps[n]
    BY <1>6, <1>8 DEF Known
  <2>5. \A n \in p.pending : p.deps[n] \subseteq p.nodes
    BY <1>2, <1>8 DEF Known
  <2> QED BY <2>1, <2>2, <2>3, <2>4, <2>5 DEF Between
<1>12. Caused(g, p)
  <2> SUFFICES ASSUME NEW n \in Nodes, State(p, n) = "cancelled", State(g, n) # "cancelled"
               PROVE  \E m \in p.deps[n] : State(p, m) \in {"failed", "cancelled"}
    BY DEF Caused
  <2>1. n \in D
    BY <1>9
  <2>2. PICK m \in g.deps[n] : m \in E \ F \/ (m \in D /\ State(g, m) \notin Terminal)
    BY <1>3, <2>1
  <2>3. m \in Nodes
    BY <1>10
  <2>4. m \in E \ F => State(g, m) \in {"failed", "cancelled"}
    BY <1>7, <2>3 DEF Loop, Terminal
  <2>5. State(p, m) \in {"failed", "cancelled"}
    BY <1>9, <2>2, <2>3, <2>4 DEF Terminal
  <2> QED BY <1>8, <2>5
<1> QED BY <1>11, <1>12 DEF p

\* Starting a chunk: its jobs are cancelled only with the breaker open.
LEMMA LaunchedCauses ==
    ASSUME NEW g \in Runs, Between(g), NEW S \in SUBSET Nodes
    PROVE  /\ Known(Launched(g, S)) /\ Lasting(g, Launched(g, S))
           /\ Launched(g, S).deps = g.deps
           /\ BreakerOpen \/ Caused(g, Launched(g, S))
<1> DEFINE h == Launched(g, S)
<1>1. /\ h.nodes = g.nodes /\ h.deps = g.deps
      /\ h.unmet = g.unmet /\ h.pending = g.pending
  BY LaunchedRun
<1>2. \A n \in Nodes :
         \/ State(h, n) = State(g, n) /\ h.outcome[n] = "none"
         \/ /\ State(g, n) = "queued" /\ State(h, n) = "cancelled" /\ BreakerOpen
         \/ /\ State(g, n) = "queued" /\ State(h, n) = "running"
            /\ h.outcome[n] = "executing"
  BY LaunchedRun
<1>3. g.unmet \in [Nodes -> SUBSET Nodes] /\ g.pending \in SUBSET Nodes
  BY DEF Runs
<1> HIDE DEF h
<1>4. \A n \in Nodes : State(h, n) = "running" => h.outcome[n] = "executing"
  BY <1>2 DEF Between
<1>5. \A n \in h.pending : \A m \in h.unmet[n] : State(h, m) # "completed"
  BY <1>1, <1>2, <1>3 DEF Between
<1>6. Known(h)
  BY <1>1, <1>4, <1>5 DEF Known, Between
<1>7. Lasting(g, h)
  BY <1>2 DEF Lasting
<1>8. ~BreakerOpen => Caused(g, h)
  BY <1>2 DEF Caused
<1> QED BY <1>1, <1>6, <1>7, <1>8 DEF h

\* The next round.  When it ends the call with the breaker closed, every
\* job still queued waits for another that is terminal and did not complete.
LEMMA NextRoundCauses ==
    ASSUME NEW g \in Runs, Loop(g), Between(g)
    PROVE  /\ Known(NextRound(g)) /\ Lasting(g, NextRound(g))
           /\ NextRound(g).deps = g.deps
           /\ BreakerOpen \/ Caused(g, NextRound(g))
<1> DEFINE h == NextRound(g)
           c == WithCancelled(g, g.pending)
<1>1. CASE g.pending # {} /\ ~BreakerOpen /\ Ready(g) # {}
  <2>1. h = Launched(g, Ready(g))
    BY <1>1 DEF NextRound
  <2>2. Ready(g) \in SUBSET Nodes
    BY DEF Ready, Runs
  <2> HIDE DEF h
  <2>3. /\ Known(h) /\ Lasting(g, h) /\ h.deps = g.deps
        /\ BreakerOpen \/ Caused(g, h)
    BY <2>1, <2>2, LaunchedCauses
  <2> QED BY <2>3 DEF h
<1>2. CASE ~(g.pending # {} /\ ~BreakerOpen /\ Ready(g) # {})
  <2>1. h = [c EXCEPT !.status = "done", !.pending = {},
                      !.outcome = [n \in Nodes |-> "none"]]
    BY <1>2 DEF NextRound
  <2>2. /\ c \in Runs
        /\ c = [g EXCEPT !.jobs = c.jobs]
        /\ \A n \in Nodes :
              State(c, n) = IF n \in g.pending /\ State(g, n) \notin Terminal
                            THEN "cancelled" ELSE State(g, n)
    BY CancelledJobs
  <2> HIDE DEF h, c
  <2>3. /\ h.nodes = g.nodes /\ h.deps = g.deps /\ h.unmet = g.unmet
        /\ h.pending = {} /\ h.jobs = c.jobs
    <3>1. c.nodes = g.nodes /\ c.deps = g.deps /\ c.unmet = g.unmet
      BY <2>2 DEF Runs
    <3> QED BY <2>1, <2>2, <3>1 DEF Runs
  <2>4. \A n \in Nodes :
           State(h, n) = IF n \in g.pending /\ State(g, n) \notin Terminal
                         THEN "cancelled" ELSE State(g, n)
    BY <2>2, <2>3 DEF State
  <2>5. /\ g.deps \in [Nodes -> SUBSET Nodes] /\ g.nodes \in SUBSET Nodes
        /\ g.pending \in SUBSET Nodes
    BY DEF Runs
  <2>6. Known(h)
    <3>1. \A n \in Nodes : State(h, n) # "running"
      BY <2>4 DEF Between
    <3> QED BY <2>3, <3>1 DEF Known, Between
  <2>7. Lasting(g, h)
    BY <2>4 DEF Lasting, Terminal
  <2>8. ASSUME ~BreakerOpen PROVE Caused(g, h)
    <3> SUFFICES ASSUME NEW n \in Nodes, State(h, n) = "cancelled",
                        State(g, n) # "cancelled"
                 PROVE  \E m \in h.deps[n] : State(h, m) \in {"failed", "cancelled"}
      BY DEF Caused
    <3>1. n \in g.pending /\ State(g, n) \notin Terminal
      BY <2>4
    <3>2. State(g, n) = "queued"
      <4>1. State(g, n) \in {"none", "queued", "running"} \cup Terminal
        BY DEF Runs, Jobs, State
      <4> QED BY <3>1, <4>1 DEF Loop, Between
    <3>3. PICK m \in g.unmet[n] : TRUE
      BY <1>2, <2>8, <3>1, <3>2 DEF Ready
    <3>4. /\ m \in g.deps[n] /\ m \in g.nodes /\ m \in Nodes
          /\ State(g, m) # "completed"
      BY <2>5, <3>1, <3>3 DEF Between
    <3>5. State(h, m) \in {"failed", "cancelled"}
      <4>1. CASE m \in g.pending
        BY <2>4, <3>4, <4>1 DEF Terminal
      <4>2. CASE m \notin g.pending
        <5>1. State(g, m) \in Terminal
          BY <3>4, <4>2 DEF Loop
        <5> QED BY <2>4, <3>4, <4>2, <5>1 DEF Terminal
      <4> QED BY <4>1, <4>2
    <3> QED BY <2>3, <3>4, <3>5
  <2> QED BY <2>3, <2>6, <2>7, <2>8 DEF h
<1> QED BY <1>1, <1>2

\* What a step of call d explains: its record stays known, the other records
\* stay, and the jobs it cancels have a cause.
Explained(d) ==
    /\ Known(run'[d])
    /\ \A e \in Delegations \ {d} : run'[e] = run[e]
    /\ \A n \in Nodes :
          State(run'[d], n) = "cancelled" /\ State(run[d], n) # "cancelled" =>
              \/ BreakerOpen \/ <<d, n>> \in cancels'
              \/ \E m \in run'[d].deps[n] : State(run'[d], m) \in {"failed", "cancelled"}

\* A new call knows its whole graph, and every dependency is unmet.
LEMMA RunDelegationExplained ==
    ASSUME Inv, NEW d \in Delegations, NEW r \in Requests[d], RunDelegation(d, r)
    PROVE  Explained(d)
<1> DEFINE given == [run[d] EXCEPT !.nodes = r.nodes, !.deps = r.deps]
           js == [n \in Nodes |-> IF n \in r.nodes THEN QueuedJob ELSE NoJob]
           us == [n \in Nodes |-> IF n \in r.nodes THEN r.deps[n] ELSE {}]
           built == [given EXCEPT !.jobs = js, !.unmet = us, !.pending = r.nodes]
<1>1. PICK h \in {IF r.nodes = {} THEN [given EXCEPT !.status = "done"]
                  ELSE IF BreakerOpen THEN [given EXCEPT !.status = "blocked"]
                  ELSE IF ~Admissible(r) THEN [given EXCEPT !.status = "rejected"]
                  ELSE NextRound(built)} :
         run' = [run EXCEPT ![d] = h]
  BY DEF RunDelegation
<1>2. run[d] = NoRun /\ run[d] \in Runs /\ run \in [Delegations -> Runs]
  BY DEF RunDelegation, Inv, Sound, TypeOK
<1>3. r.nodes \in SUBSET Nodes /\ r.deps \in [Nodes -> SUBSET Nodes]
  BY OrchestrationAssumption DEF IsRequest
<1>4. /\ NoRun.wave = {} /\ NoRun.pending = {}
      /\ \A n \in Nodes :
            /\ State(NoRun, n) = "none" /\ NoRun.outcome[n] = "none" /\ NoRun.unmet[n] = {}
  BY DEF NoRun, NoJob, State
<1>5. run'[d] = h /\ \A e \in Delegations \ {d} : run'[e] = run[e]
  BY <1>1, <1>2
<1>6. ASSUME NEW s \in {"done", "blocked", "rejected"}, h = [given EXCEPT !.status = s]
      PROVE  Known(h) /\ \A n \in Nodes : State(h, n) # "cancelled"
  <2>1. /\ h.nodes = r.nodes /\ h.pending = {} /\ h.jobs = NoRun.jobs
        /\ h.unmet = NoRun.unmet /\ h.deps = r.deps
    BY <1>2, <1>3, <1>4, <1>6 DEF Runs
  <2>2. \A n \in Nodes : State(h, n) = "none"
    BY <1>4, <2>1 DEF State
  <2> QED BY <1>4, <2>1, <2>2 DEF Known
<1>7. ASSUME h = NextRound(built), Admissible(r)
      PROVE  Known(h) /\ (BreakerOpen \/ Caused(built, h))
             /\ \A n \in Nodes : State(built, n) # "cancelled"
  <2>1. QueuedJob \in Jobs /\ NoJob \in Jobs /\ QueuedJob.state = "queued"
        /\ NoJob.state = "none"
    <3>1. NoJob \in Jobs /\ NoJob.state = "none"
      BY DEF NoJob, Jobs
    <3> QED BY <3>1 DEF QueuedJob, Jobs
  <2>2. js \in [Nodes -> Jobs] /\ us \in [Nodes -> SUBSET Nodes]
    BY <1>3, <2>1
  <2>3. \A n \in Nodes :
           /\ n \in r.nodes => js[n].state = "queued" /\ us[n] = r.deps[n]
           /\ n \notin r.nodes => js[n].state = "none" /\ us[n] = {}
    BY <2>1
  <2> HIDE DEF js, us
  <2>4. /\ built \in Runs /\ built.nodes = r.nodes /\ built.deps = r.deps
        /\ built.jobs = js /\ built.unmet = us /\ built.pending = r.nodes
        /\ built.wave = {} /\ built.outcome = NoRun.outcome
    BY <1>2, <1>3, <1>4, <2>2 DEF Runs
  <2> HIDE DEF built
  <2>5. \A n \in Nodes : State(built, n) = IF n \in r.nodes THEN "queued" ELSE "none"
    BY <2>3, <2>4 DEF State
  <2>6. Loop(built)
    BY <1>3, <1>4, <2>3, <2>4, <2>5 DEF Loop
  <2>7. \A n \in r.nodes : r.deps[n] \subseteq r.nodes
    BY <1>7 DEF Admissible
  <2>8. Between(built)
    <3>1. \A n \in Nodes : State(built, n) # "running" /\ State(built, n) # "completed"
      BY <2>5
    <3>2. \A n \in Nodes : built.unmet[n] \subseteq built.deps[n]
      BY <2>3, <2>4
    <3>3. \A n \in built.pending : \A m \in built.unmet[n] : m \in Nodes
      BY <1>3, <2>2, <2>4
    <3> QED BY <2>4, <2>7, <3>1, <3>2, <3>3 DEF Between
  <2>9. Known(h) /\ (BreakerOpen \/ Caused(built, h))
    BY <1>7, <2>4, <2>6, <2>8, NextRoundCauses
  <2> QED BY <2>5, <2>9
<1>8. \/ h = NextRound(built) /\ Admissible(r)
      \/ \E s \in {"done", "blocked", "rejected"} : h = [given EXCEPT !.status = s]
  <2> HIDE DEF given, built
  <2> QED BY <1>1
<1> HIDE DEF given, built
<1>9. Known(h) /\ \A n \in Nodes : State(h, n) = "cancelled" =>
          BreakerOpen \/ \E m \in h.deps[n] : State(h, m) \in {"failed", "cancelled"}
  BY <1>6, <1>7, <1>8 DEF Caused
<1> QED BY <1>5, <1>9 DEF Explained

\* A batch processed, and the next chunk or round.
LEMMA ResumeExplained ==
    ASSUME Inv, NEW d \in Delegations, Known(run[d]), Resume(d)
    PROVE  Explained(d)
<1> DEFINE g == run[d]
           p == Processed(g)
<1>1. PICK h : /\ h = (IF p.wave # {} THEN Launched(p, p.wave) ELSE NextRound(p))
               /\ run' = [run EXCEPT ![d] = h]
  BY DEF Resume
<1>2. g \in Runs /\ Loop(g) /\ Attempting(g) = {} /\ run \in [Delegations -> Runs]
  BY DEF Inv, Sound, TypeOK, Resume
<1>3. p \in Runs /\ Loop(p)
  BY <1>2, ProcessedRun
<1>4. Between(p) /\ Caused(g, p)
  BY <1>2, ProcessedCauses
<1> HIDE DEF p
<1>5. /\ h \in Runs /\ Known(h) /\ Lasting(p, h) /\ h.deps = p.deps
      /\ BreakerOpen \/ Caused(p, h)
  <2>1. CASE p.wave # {}
    <3>1. h = Launched(p, p.wave) /\ p.wave \in SUBSET Nodes
      BY <1>1, <1>3, <2>1 DEF Runs
    <3>2. h \in Runs
      BY <1>3, <3>1, LaunchedRun
    <3> QED BY <1>3, <1>4, <3>1, <3>2, LaunchedCauses
  <2>2. CASE p.wave = {}
    <3>1. h = NextRound(p)
      BY <1>1, <2>2
    <3>2. h \in Runs
      BY <1>3, <2>2, <3>1, NextRoundRun
    <3> QED BY <1>3, <1>4, <3>1, <3>2, NextRoundCauses
  <2> QED BY <2>1, <2>2
<1>6. BreakerOpen \/ Caused(g, h)
  BY <1>2, <1>3, <1>4, <1>5, CausedTwice
<1>7. run'[d] = h /\ \A e \in Delegations \ {d} : run'[e] = run[e]
  BY <1>1, <1>2
<1> QED BY <1>5, <1>6, <1>7 DEF Explained, Caused

\* A step that changes one job n of call d, to j with outcome o.
LEMMA JobExplained ==
    ASSUME Inv, NEW d \in Delegations, NEW n \in Nodes, Known(run[d]),
           NEW j \in Jobs, NEW o \in Outcomes, NEW s \in Statuses,
           run' = [run EXCEPT ![d] = [run[d] EXCEPT !.jobs[n] = j, !.outcome[n] = o,
                                                    !.status = s]],
           j.state = "running" => o = "executing",
           j.state = "completed" => o = "settled",
           j.state = "cancelled" => State(run[d], n) = "cancelled" \/ <<d, n>> \in cancels'
    PROVE  Explained(d)
<1> DEFINE g == run[d]
           h == [run[d] EXCEPT !.jobs[n] = j, !.outcome[n] = o, !.status = s]
<1>1. run \in [Delegations -> Runs] /\ g \in Runs
  BY DEF Inv, TypeOK
<1>2. /\ h.nodes = g.nodes /\ h.deps = g.deps /\ h.unmet = g.unmet /\ h.pending = g.pending
      /\ h.jobs[n] = j /\ h.outcome[n] = o
      /\ \A m \in Nodes \ {n} : h.jobs[m] = g.jobs[m] /\ h.outcome[m] = g.outcome[m]
  BY <1>1 DEF Runs
<1>3. run'[d] = h /\ \A e \in Delegations \ {d} : run'[e] = run[e]
  BY <1>1
<1>4. g.unmet \in [Nodes -> SUBSET Nodes] /\ g.pending \in SUBSET Nodes
  BY <1>1 DEF Runs
<1> HIDE DEF h
<1>5. State(h, n) = j.state /\ \A m \in Nodes \ {n} : State(h, m) = State(g, m)
  BY <1>2 DEF State
<1>6. \A m \in Nodes : State(h, m) = "running" => h.outcome[m] = "executing"
  BY <1>2, <1>5 DEF Known
<1>7. \A k \in h.pending : \A m \in h.unmet[k] :
          State(h, m) = "completed" => h.outcome[m] = "settled"
  BY <1>2, <1>4, <1>5 DEF Known
<1>8. Known(h)
  BY <1>2, <1>6, <1>7 DEF Known
<1> QED BY <1>3, <1>5, <1>8 DEF Explained

\* The executor returned.
LEMMA FinishExplained ==
    ASSUME Inv, NEW d \in Delegations, NEW n \in Nodes, Known(run[d]), Finish(d, n)
    PROVE  Explained(d)
<1> DEFINE j == [run[d].jobs[n] EXCEPT !.state = "completed"]
<1>1. run' = [run EXCEPT ![d].jobs[n].state = "completed", ![d].outcome[n] = "settled"]
  BY DEF Finish
<1>2. run \in [Delegations -> Runs] /\ run[d] \in Runs /\ run[d].jobs[n] \in Jobs
  BY DEF Inv, TypeOK, Runs
<1>3. run' = [run EXCEPT ![d] = [run[d] EXCEPT !.jobs[n] = j, !.outcome[n] = "settled",
                                               !.status = run[d].status]]
  BY <1>1, <1>2 DEF Runs
<1>4. j \in Jobs /\ j.state = "completed"
  BY <1>2 DEF Jobs, Terminal
<1>5. "settled" \in Outcomes /\ run[d].status \in Statuses
  BY <1>2 DEF Outcomes, Runs
<1> HIDE DEF j
<1> QED BY <1>3, <1>4, <1>5, JobExplained

\* An attempt that failed is retried, fails its job, or was cancelled before.
LEMMA AttemptFailsExplained ==
    ASSUME Inv, NEW d \in Delegations, NEW n \in Nodes, Known(run[d]),
           NEW abort \in BOOLEAN, AttemptFails(d, n, abort)
    PROVE  Explained(d)
<1> DEFINE g == run[d]
           job == [g.jobs[n] EXCEPT !.aborted = @ \/ abort]
           again == job.attempt <= MaxRetry
           counted == [job EXCEPT !.attempt = IF again THEN @ + 1 ELSE @]
<1>1. run \in [Delegations -> Runs] /\ g \in Runs /\ g.jobs[n] \in Jobs
  BY DEF Inv, TypeOK, Runs
<1>2. job \in Jobs /\ job.state = State(g, n)
  BY <1>1 DEF Jobs, State
<1> HIDE DEF job
<1>3. counted \in Jobs /\ counted.state = State(g, n)
  BY <1>2, OrchestrationAssumption DEF Jobs
<1>4. CASE job.state = "cancelled"
  <2>1. run' = [run EXCEPT ![d].jobs[n] = counted, ![d].outcome[n] = "none",
                           ![d].status = "threw"]
    BY <1>4 DEF AttemptFails, job
  <2> HIDE DEF counted
  <2>2. run' = [run EXCEPT ![d] = [g EXCEPT !.jobs[n] = counted, !.outcome[n] = "none",
                                            !.status = "threw"]]
    BY <1>1, <2>1 DEF Runs
  <2>3. "none" \in Outcomes /\ "threw" \in Statuses /\ counted.state = "cancelled"
    BY <1>2, <1>3, <1>4 DEF Outcomes, Statuses
  <2> QED BY <1>2, <1>3, <1>4, <2>2, <2>3, JobExplained
<1>5. CASE job.state # "cancelled"
  <2> DEFINE j == [counted EXCEPT !.state = IF again THEN "queued" ELSE "failed"]
             o == IF again THEN "retry" ELSE "settled"
  <2>1. run' = [run EXCEPT ![d].jobs[n] = j, ![d].outcome[n] = o]
    BY <1>5 DEF AttemptFails, job
  <2>2. /\ j \in Jobs /\ j.state \in {"queued", "failed"}
        /\ o \in Outcomes
    <3> HIDE DEF counted, again
    <3> QED BY <1>3 DEF Jobs, Terminal, Outcomes
  <2> HIDE DEF counted, j, o, again
  <2>3. run' = [run EXCEPT ![d] = [g EXCEPT !.jobs[n] = j, !.outcome[n] = o,
                                            !.status = g.status]]
    BY <1>1, <2>1 DEF Runs
  <2>4. g.status \in Statuses
    BY <1>1 DEF Runs
  <2> QED BY <2>2, <2>3, <2>4, JobExplained
<1> QED BY <1>4, <1>5

\* cancel() is its own cause.
LEMMA CancelExplained ==
    ASSUME Inv, NEW d \in Delegations, NEW n \in Nodes, Known(run[d]), Cancel(d, n)
    PROVE  Explained(d)
<1> DEFINE g == run[d]
           j == [g.jobs[n] EXCEPT !.state = "cancelled", !.aborted = TRUE]
<1>1. run \in [Delegations -> Runs] /\ g \in Runs /\ g.jobs[n] \in Jobs
  BY DEF Inv, TypeOK, Runs
<1>2. run' = [run EXCEPT ![d] = [g EXCEPT !.jobs[n] = j, !.outcome[n] = g.outcome[n],
                                          !.status = g.status]]
  <2>1. run' = [run EXCEPT ![d] = [g EXCEPT !.jobs[n] = j]]
    BY <1>1 DEF Cancel, Runs
  <2> HIDE DEF j
  <2>2. [g EXCEPT !.jobs[n] = j]
            = [g EXCEPT !.jobs[n] = j, !.outcome[n] = g.outcome[n], !.status = g.status]
    BY <1>1 DEF Runs
  <2> QED BY <2>1, <2>2
<1>3. j \in Jobs /\ j.state = "cancelled"
  BY <1>1 DEF Jobs, Terminal
<1>4. g.outcome[n] \in Outcomes /\ g.status \in Statuses
  BY <1>1 DEF Runs
<1>5. <<d, n>> \in cancels'
  BY DEF Cancel
<1> HIDE DEF j
<1> QED BY <1>2, <1>3, <1>4, <1>5, JobExplained

\* Every step: what is known stays known, and each cancellation has a cause.
LEMMA StepExplained ==
    ASSUME Inv, \A d \in Delegations : Known(run[d]), [Next]_vars
    PROVE  /\ \A d \in Delegations : Known(run'[d])
           /\ run' = run \/ \E d \in Delegations : Explained(d)
<1>1. ASSUME NEW d \in Delegations, Explained(d)
      PROVE  \A e \in Delegations : Known(run'[e])
  BY <1>1 DEF Explained
<1>2. ASSUME NEW d \in Delegations, Step(d) PROVE Explained(d)
  <2>1. ASSUME NEW r \in Requests[d], RunDelegation(d, r) PROVE Explained(d)
    BY <2>1, RunDelegationExplained
  <2>2. CASE Resume(d)
    BY <2>2, ResumeExplained
  <2>3. ASSUME NEW n \in Nodes, Finish(d, n) PROVE Explained(d)
    BY <2>3, FinishExplained
  <2>4. ASSUME NEW n \in Nodes, Reject(d, n) \/ Refuse(d, n) \/ Timeout(d, n)
        PROVE  Explained(d)
    <3>1. AttemptFails(d, n, FALSE) \/ AttemptFails(d, n, TRUE)
      BY <2>4 DEF Reject, Refuse, Timeout
    <3> QED BY <3>1, AttemptFailsExplained
  <2>5. ASSUME NEW n \in Nodes, Cancel(d, n) PROVE Explained(d)
    BY <2>5, CancelExplained
  <2> QED BY <1>2, <2>1, <2>2, <2>3, <2>4, <2>5 DEF Step
<1>3. ASSUME NEW c \in calls, AbandonedEnds(c) PROVE run' = run
  BY <1>3 DEF AbandonedEnds
<1>4. UNCHANGED vars => run' = run
  BY DEF vars
<1>5. run' = run \/ \E d \in Delegations : Explained(d)
  BY <1>2, <1>3, <1>4 DEF Next
<1> QED BY <1>1, <1>5

\* Nothing is pending before the first call.
LEMMA InitKnown == Init => \A d \in Delegations : Known(run[d])
BY DEF Init, Known, NoRun, NoJob, State

\* The service cancels a job with the breaker closed only when a dependency of it
\* failed or was cancelled: never for a sibling, a retry or another call.
THEOREM CancellationsHaveACause == Spec => CancelledForACause
<1> DEFINE Knowing == \A d \in Delegations : Known(run[d])
<1>1. Init => Knowing
  BY InitKnown
<1>2. Inv /\ Knowing /\ [Next]_vars => Knowing'
  BY StepExplained
<1>3. ASSUME Inv, Knowing, [Next]_vars
      PROVE  \A d \in Delegations : \A n \in run'[d].nodes :
                State(run'[d], n) = "cancelled" /\ State(run[d], n) # "cancelled" =>
                    \/ BreakerOpen \/ <<d, n>> \in cancels'
                    \/ \E m \in run'[d].deps[n] : State(run'[d], m) \in {"failed", "cancelled"}
  <2>1. Inv'
    BY <1>3, InvIsInductive
  <2>2. \A d \in Delegations : run'[d].nodes \subseteq Nodes
    BY <2>1 DEF Inv, TypeOK, Runs
  <2>3. run' = run \/ \E d \in Delegations : Explained(d)
    BY <1>3, StepExplained
  <2> QED BY <2>2, <2>3 DEF Explained
<1> QED BY <1>1, <1>2, <1>3, Invariance, PTL DEF Spec, CancelledForACause

-----------------------------------------------------------------------------
(* The graphs #buildGraph admits.  Peeled is a recursive function; what it *)
(* computes is proved without the induction theorems of the library, by a  *)
(* least counterexample among the rounds (LeastExists).                    *)

\* A set of numbers up to n that is not empty has a least element.
LEMMA LeastExists ==
    ASSUME NEW n \in Nat, NEW S \in SUBSET (0 .. n), S # {}
    PROVE  \E x \in S : \A y \in S : x <= y
<1> DEFINE Below(x) == 0 .. x
           T == {Below(x) : x \in S}
<1>1. T \subseteq SUBSET (0 .. n) /\ T # {}
  <2>1. \A x \in S : Below(x) \subseteq 0 .. n
    OBVIOUS
  <2> HIDE DEF Below
  <2> QED BY <2>1, Zenon
<1>2. IsWellFoundedOn(StrictSubsetOrdering(0 .. n), SUBSET (0 .. n))
  <2>1. IsFiniteSet(0 .. n)
    BY FS_Interval
  <2> QED BY <2>1, FS_FiniteSubsetsOfFinite, FS_StrictSubsetOrderingWellFounded, Zenon
<1>3. PICK B \in T : \A C \in T : ~(<<C, B>> \in StrictSubsetOrdering(0 .. n))
  <2> HIDE DEF T
  <2> QED BY <1>1, <1>2, WFMin
<1>4. PICK x \in S : B = Below(x)
  OBVIOUS
<1>5. \A y \in S : x <= y
  <2> SUFFICES ASSUME NEW y \in S, y < x PROVE FALSE
    OBVIOUS
  <2>1. Below(y) \subseteq Below(x) /\ Below(y) # Below(x)
    OBVIOUS
  <2>2. Below(x) \in SUBSET (0 .. n) /\ Below(y) \in SUBSET (0 .. n)
    OBVIOUS
  <2>3. <<Below(y), Below(x)>> \in StrictSubsetOrdering(0 .. n)
    BY <2>1, <2>2 DEF StrictSubsetOrdering
  <2> QED BY <1>3, <1>4, <2>3
<1> QED BY <1>5

\* So a property of the numbers up to n whose counterexamples T are never at 0
\* and come with a smaller one has none.
LEMMA NoCounterexample ==
    ASSUME NEW n \in Nat, NEW T \in SUBSET (0 .. n), 0 \notin T,
           \A k \in T : k # 0 => k - 1 \in T
    PROVE  T = {}
<1> SUFFICES ASSUME T # {} PROVE FALSE
  OBVIOUS
<1>1. PICK k \in T : \A j \in T : k <= j
  BY LeastExists
<1>2. k \in Nat /\ k # 0 /\ k - 1 \in T
  BY <1>1
<1> QED BY <1>1, <1>2

\* A graph whose dependsOn entries are known nodes.
IsGraph(g) == g.nodes \in SUBSET Nodes /\ g.deps \in [Nodes -> SUBSET Nodes]

Rounds == Cardinality(Nodes)

\* The nodes ordered in a round, when those of done were ordered before.
Ordered(g, done) == {n \in g.nodes : g.deps[n] \subseteq done}

LEMMA RoundsType ==
    ASSUME NEW g, IsGraph(g)
    PROVE  /\ Rounds \in Nat /\ IsFiniteSet(g.nodes)
           /\ Cardinality(g.nodes) \in Nat /\ Cardinality(g.nodes) <= Rounds
BY OrchestrationAssumption, FS_CardinalityType, FS_Subset DEF Rounds, IsGraph

\* The recursion of Peeled has a solution up to every round, so Peeled is one.
LEMMA PeeledByRounds ==
    ASSUME NEW g, IsGraph(g)
    PROVE  /\ Peeled(g)[0] = {}
           /\ \A k \in 1 .. Rounds : Peeled(g)[k] = Ordered(g, Peeled(g)[k - 1])
<1> DEFINE Solves(f, m) == \A k \in 0 .. m : f[k] = IF k = 0 THEN {} ELSE Ordered(g, f[k - 1])
           T == {m \in 0 .. Rounds : ~\E f : Solves(f, m)}
<1>1. Rounds \in Nat
  BY RoundsType
<1>2. 0 \notin T
  <2>1. Solves([k \in 0 .. 0 |-> {}], 0)
    OBVIOUS
  <2> QED BY <2>1
<1>3. ASSUME NEW m \in T, m # 0 PROVE m - 1 \in T
  <2> SUFFICES ASSUME NEW e, Solves(e, m - 1) PROVE \E f : Solves(f, m)
    BY <1>1, <1>3
  <2> DEFINE f == [k \in 0 .. m |-> IF k = m THEN Ordered(g, e[m - 1]) ELSE e[k]]
  <2>1. m \in Nat /\ m - 1 \in 0 .. m
    BY <1>1, <1>3
  <2>2. f[m] = Ordered(g, e[m - 1]) /\ \A k \in 0 .. m - 1 : f[k] = e[k]
    BY <2>1
  <2> HIDE DEF f
  <2>3. ASSUME NEW k \in 0 .. m PROVE f[k] = IF k = 0 THEN {} ELSE Ordered(g, f[k - 1])
    <3>1. CASE k = m
      <4>1. f[m - 1] = e[m - 1]
        BY <1>3, <2>1, <2>2
      <4> QED BY <1>3, <2>2, <3>1, <4>1
    <3>2. CASE k # m
      <4>1. k \in 0 .. m - 1
        BY <2>1, <3>2
      <4>2. k # 0 => k - 1 \in 0 .. m - 1
        BY <2>1, <4>1
      <4>3. e[k] = IF k = 0 THEN {} ELSE Ordered(g, e[k - 1])
        BY <4>1
      <4>4. f[k] = e[k] /\ (k # 0 => f[k - 1] = e[k - 1])
        BY <2>2, <4>1, <4>2
      <4> QED BY <4>3, <4>4
    <3> QED BY <3>1, <3>2
  <2> QED BY <2>3
<1>4. T = {}
  <2>1. T \in SUBSET (0 .. Rounds)
    OBVIOUS
  <2> HIDE DEF T
  <2> QED BY <1>1, <1>2, <1>3, <2>1, NoCounterexample
<1>5. PICK e : Solves(e, Rounds)
  BY <1>1, <1>4
<1> DEFINE f == [k \in 0 .. Rounds |-> e[k]]
<1>6. f = [k \in 0 .. Rounds |-> IF k = 0 THEN {} ELSE {n \in g.nodes : g.deps[n] \subseteq f[k - 1]}]
  <2>1. \A k \in 0 .. Rounds : k # 0 => k - 1 \in 0 .. Rounds
    BY <1>1
  <2>2. \A k \in 0 .. Rounds :
           e[k] = IF k = 0 THEN {} ELSE {n \in g.nodes : g.deps[n] \subseteq f[k - 1]}
    <3> SUFFICES ASSUME NEW k \in 0 .. Rounds
                 PROVE  e[k] = IF k = 0 THEN {} ELSE {n \in g.nodes : g.deps[n] \subseteq f[k - 1]}
      OBVIOUS
    <3>1. e[k] = IF k = 0 THEN {} ELSE {n \in g.nodes : g.deps[n] \subseteq e[k - 1]}
      BY <1>5 DEF Ordered
    <3>2. k # 0 => f[k - 1] = e[k - 1]
      BY <2>1
    <3> HIDE DEF f
    <3> QED BY <3>1, <3>2
  <2> QED BY <2>2
<1> HIDE DEF f
<1>7. Peeled(g) = [k \in 0 .. Rounds |->
                      IF k = 0 THEN {} ELSE {n \in g.nodes : g.deps[n] \subseteq Peeled(g)[k - 1]}]
  <2>1. Peeled(g) = CHOOSE P : P = [k \in 0 .. Rounds |->
                      IF k = 0 THEN {} ELSE {n \in g.nodes : g.deps[n] \subseteq P[k - 1]}]
    BY DEF Peeled, Rounds
  <2> QED BY <1>6, <2>1
<1>8. \A k \in 0 .. Rounds :
         Peeled(g)[k] = IF k = 0 THEN {} ELSE {n \in g.nodes : g.deps[n] \subseteq Peeled(g)[k - 1]}
  <2> DEFINE P == Peeled(g)
  <2>1. P = [k \in 0 .. Rounds |->
               IF k = 0 THEN {} ELSE {n \in g.nodes : g.deps[n] \subseteq P[k - 1]}]
    BY <1>7
  <2> HIDE DEF P
  <2>2. \A k \in 0 .. Rounds :
           P[k] = IF k = 0 THEN {} ELSE {n \in g.nodes : g.deps[n] \subseteq P[k - 1]}
    BY <2>1
  <2> QED BY <2>2 DEF P
<1>9. 0 \in 0 .. Rounds /\ \A k \in 1 .. Rounds : k \in 0 .. Rounds /\ k # 0
  BY <1>1
<1> QED BY <1>8, <1>9 DEF Ordered

\* The rounds only add nodes.
LEMMA PeeledGrows ==
    ASSUME NEW g, IsGraph(g)
    PROVE  /\ \A k \in 0 .. Rounds : Peeled(g)[k] \subseteq g.nodes
           /\ \A k \in 1 .. Rounds : Peeled(g)[k - 1] \subseteq Peeled(g)[k]
<1> DEFINE P == Peeled(g)
           T == {k \in 0 .. Rounds : k # 0 /\ ~(P[k - 1] \subseteq P[k])}
<1>1. Rounds \in Nat
  BY RoundsType
<1>2. P[0] = {} /\ \A k \in 1 .. Rounds : P[k] = Ordered(g, P[k - 1])
  BY PeeledByRounds
<1> HIDE DEF P
<1>3. \A k \in 0 .. Rounds : P[k] \subseteq g.nodes
  BY <1>1, <1>2 DEF Ordered
<1>4. ASSUME NEW k \in T, k # 0 PROVE k - 1 \in T
  <2>1. k \in 1 .. Rounds /\ k - 1 \in 0 .. Rounds /\ ~(P[k - 1] \subseteq P[k])
    BY <1>1, <1>4
  <2>2. k - 1 # 0
    BY <1>2, <2>1
  <2>3. k - 1 \in 1 .. Rounds
    BY <1>1, <2>1, <2>2
  <2>4. P[k] = Ordered(g, P[k - 1]) /\ P[k - 1] = Ordered(g, P[(k - 1) - 1])
    BY <1>2, <2>1, <2>3
  <2>5. ~(P[(k - 1) - 1] \subseteq P[k - 1])
    BY <2>1, <2>4 DEF Ordered
  <2> QED BY <2>1, <2>2, <2>5
<1>5. T = {}
  <2>1. T \in SUBSET (0 .. Rounds) /\ 0 \notin T
    OBVIOUS
  <2> HIDE DEF T
  <2> QED BY <1>1, <1>4, <2>1, NoCounterexample
<1>6. \A k \in 1 .. Rounds : P[k - 1] \subseteq P[k]
  BY <1>1, <1>5
<1> QED BY <1>3, <1>6 DEF P

\* No node of a cycle is ever ordered.
LEMMA CyclesAreNotPeeled ==
    ASSUME NEW g, IsGraph(g), NEW S \in SUBSET g.nodes,
           \A n \in S : g.deps[n] \cap S # {}
    PROVE  \A k \in 0 .. Rounds : Peeled(g)[k] \cap S = {}
<1> DEFINE P == Peeled(g)
           T == {k \in 0 .. Rounds : P[k] \cap S # {}}
<1>1. Rounds \in Nat
  BY RoundsType
<1>2. P[0] = {} /\ \A k \in 1 .. Rounds : P[k] = Ordered(g, P[k - 1])
  BY PeeledByRounds
<1> HIDE DEF P
<1>3. ASSUME NEW k \in T, k # 0 PROVE k - 1 \in T
  <2>1. k \in 1 .. Rounds /\ k - 1 \in 0 .. Rounds
    BY <1>1, <1>3
  <2>2. PICK n \in S : g.deps[n] \subseteq P[k - 1]
    BY <1>2, <1>3, <2>1 DEF Ordered
  <2> QED BY <2>1, <2>2
<1>4. T = {}
  <2>1. T \in SUBSET (0 .. Rounds) /\ 0 \notin T
    BY <1>2
  <2> HIDE DEF T
  <2> QED BY <1>1, <1>3, <2>1, NoCounterexample
<1> QED BY <1>4 DEF P

\* As many rounds as there are nodes order them all, unless there is a cycle:
\* a round that adds no node leaves a set of nodes that wait for each other.
LEMMA UnpeeledIsCyclic ==
    ASSUME NEW g, IsGraph(g), \A n \in g.nodes : g.deps[n] \subseteq g.nodes,
           Peeled(g)[Cardinality(g.nodes)] # g.nodes
    PROVE  Cyclic(g)
<1> DEFINE P == Peeled(g)
           M == Cardinality(g.nodes)
           Size(k) == Cardinality(P[k])
           T == {k \in 0 .. M : Size(k) < k}
<1>1. Rounds \in Nat /\ M \in Nat /\ M <= Rounds /\ IsFiniteSet(g.nodes)
  BY RoundsType
<1>2. P[0] = {} /\ \A k \in 1 .. Rounds : P[k] = Ordered(g, P[k - 1])
  BY PeeledByRounds
<1>3. /\ \A k \in 0 .. Rounds : P[k] \subseteq g.nodes
      /\ \A k \in 1 .. Rounds : P[k - 1] \subseteq P[k]
  BY PeeledGrows
<1>4. P[M] # g.nodes
  OBVIOUS
<1> HIDE DEF P
<1>5. \A k \in 0 .. M : k \in 0 .. Rounds /\ IsFiniteSet(P[k]) /\ Size(k) \in Nat
  <2> SUFFICES ASSUME NEW k \in 0 .. M
               PROVE  k \in 0 .. Rounds /\ IsFiniteSet(P[k]) /\ Size(k) \in Nat
    OBVIOUS
  <2>1. k \in 0 .. Rounds
    BY <1>1
  <2>2. IsFiniteSet(P[k])
    BY <1>1, <1>3, <2>1, FS_Subset
  <2> QED BY <2>1, <2>2, FS_CardinalityType
<1>6. PICK k \in 1 .. M : P[k] = P[k - 1]
  <2> SUFFICES ASSUME \A k \in 1 .. M : P[k] # P[k - 1] PROVE FALSE
    OBVIOUS
  <2>1. ASSUME NEW k \in T, k # 0 PROVE k - 1 \in T
    <3>1. k \in 1 .. M /\ k - 1 \in 0 .. M /\ k \in 1 .. Rounds /\ Size(k) < k /\ k \in 0 .. M
      BY <1>1, <2>1
    <3>2. P[k - 1] \subseteq P[k] /\ P[k - 1] # P[k]
      BY <1>3, <3>1
    <3>3. Size(k - 1) <= Size(k) /\ Size(k - 1) # Size(k)
      BY <1>5, <3>1, <3>2, FS_Subset
    <3>4. Size(k) \in Nat /\ Size(k - 1) \in Nat
      BY <1>5, <3>1
    <3> HIDE DEF Size
    <3> QED BY <1>1, <3>1, <3>3, <3>4
  <2>2. 0 \notin T
    <3>1. Size(0) \in Nat
      BY <1>1, <1>5
    <3> QED BY <3>1
  <2>3. T = {}
    <3>1. T \in SUBSET (0 .. M)
      OBVIOUS
    <3> HIDE DEF T, M
    <3> QED BY <1>1, <2>1, <2>2, <3>1, NoCounterexample
  <2>4. M \in 0 .. M /\ Size(M) >= M
    <3>1. M \in 0 .. M /\ Size(M) \in Nat
      BY <1>1, <1>5
    <3> HIDE DEF M, Size
    <3> QED BY <1>1, <2>3, <3>1
  <2>5. P[M] \subseteq g.nodes
    BY <1>3, <1>5, <2>4
  <2>6. Cardinality(P[M]) <= Cardinality(g.nodes)
        /\ (Cardinality(g.nodes) = Cardinality(P[M]) => g.nodes = P[M])
    BY <1>1, <2>5, FS_Subset
  <2>7. Cardinality(P[M]) \in Nat /\ Cardinality(P[M]) >= Cardinality(g.nodes)
    BY <1>5, <2>4
  <2> QED BY <1>1, <1>4, <2>6, <2>7
<1> DEFINE S == g.nodes \ P[k]
<1>7. \A j \in k .. M : P[j] = P[k]
  <2> DEFINE U == {i \in 0 .. M : k + i \in k .. M /\ P[k + i] # P[k]}
  <2>1. k \in Nat /\ k >= 1 /\ k <= M
    BY <1>1
  <2>2. ASSUME NEW i \in U, i # 0 PROVE i - 1 \in U
    <3>1. /\ i \in Nat /\ k + i \in 1 .. Rounds /\ k + (i - 1) = (k + i) - 1
          /\ i - 1 \in 0 .. M /\ k + (i - 1) \in k .. M
      BY <1>1, <2>1, <2>2
    <3>2. P[k + i] = Ordered(g, P[k + (i - 1)])
      BY <1>2, <3>1
    <3>3. P[k] = Ordered(g, P[k])
      <4>1. k \in 1 .. Rounds
        BY <1>1, <2>1
      <4> QED BY <1>2, <1>6, <4>1
    <3>4. P[k + (i - 1)] # P[k]
      BY <2>2, <3>2, <3>3
    <3> QED BY <3>1, <3>4
  <2>3. U = {}
    <3>1. U \in SUBSET (0 .. M) /\ 0 \notin U
      BY <2>1
    <3> HIDE DEF U, M
    <3> QED BY <1>1, <2>2, <3>1, NoCounterexample
  <2> SUFFICES ASSUME NEW j \in k .. M PROVE P[j] = P[k]
    OBVIOUS
  <2>4. j - k \in 0 .. M /\ k + (j - k) = j
    BY <1>1, <2>1
  <2> QED BY <2>3, <2>4
<1>8. P[M] = P[k] /\ k \in 1 .. Rounds /\ M \in 0 .. Rounds
  <2>1. M \in k .. M /\ k \in 1 .. Rounds /\ M \in 0 .. Rounds
    BY <1>1
  <2> QED BY <1>7, <2>1
<1>9. S # {} /\ S \in SUBSET g.nodes
  <2>1. k \in 0 .. Rounds
    BY <1>1
  <2>2. P[k] \subseteq g.nodes /\ P[k] # g.nodes
    BY <1>3, <1>4, <1>8, <2>1
  <2> QED BY <2>2
<1>10. ASSUME NEW n \in S PROVE g.deps[n] \cap S # {}
  <2>1. ~(g.deps[n] \subseteq P[k])
    BY <1>2, <1>6, <1>8 DEF Ordered
  <2> QED BY <2>1
<1> QED BY <1>9, <1>10 DEF Cyclic

\* The node at the end of a chain of k + 1 nodes is not ordered in k rounds ...
LEMMA ChainsAreNotPeeled ==
    ASSUME NEW g, IsGraph(g), NEW b \in Nat, NEW c \in [1 .. b + 1 -> g.nodes],
           \A i \in 1 .. b : c[i] \in g.deps[c[i + 1]]
    PROVE  \A k \in 0 .. Rounds : k <= b => c[k + 1] \notin Peeled(g)[k]
<1> DEFINE P == Peeled(g)
           T == {k \in 0 .. Rounds : k <= b /\ c[k + 1] \in P[k]}
<1>1. Rounds \in Nat
  BY RoundsType
<1>2. P[0] = {} /\ \A k \in 1 .. Rounds : P[k] = Ordered(g, P[k - 1])
  BY PeeledByRounds
<1> HIDE DEF P
<1>3. ASSUME NEW k \in T, k # 0 PROVE k - 1 \in T
  <2>1. /\ k \in 1 .. Rounds /\ k - 1 \in 0 .. Rounds /\ k - 1 <= b /\ k \in 1 .. b
        /\ (k - 1) + 1 = k /\ c[k + 1] \in P[k]
    BY <1>1, <1>3
  <2>2. g.deps[c[k + 1]] \subseteq P[k - 1]
    BY <1>2, <2>1 DEF Ordered
  <2>3. c[k] \in g.deps[c[k + 1]]
    BY <2>1
  <2> QED BY <2>1, <2>2, <2>3
<1>4. T = {}
  <2>1. T \in SUBSET (0 .. Rounds) /\ 0 \notin T
    BY <1>2
  <2> HIDE DEF T
  <2> QED BY <1>1, <1>3, <2>1, NoCounterexample
<1> QED BY <1>4 DEF P

\* A chain of b + 1 nodes that ends with n.
ChainTo(g, n, b) ==
    \E c \in [1 .. b + 1 -> g.nodes] :
        c[b + 1] = n /\ \A i \in 1 .. b : c[i] \in g.deps[c[i + 1]]

\* ... and a node that is not ordered in k rounds is at the end of one.
LEMMA UnpeeledEndChains ==
    ASSUME NEW g, IsGraph(g), \A n \in g.nodes : g.deps[n] \subseteq g.nodes
    PROVE  \A k \in 0 .. Rounds : \A n \in g.nodes \ Peeled(g)[k] : ChainTo(g, n, k)
<1> DEFINE P == Peeled(g)
           T == {k \in 0 .. Rounds : \E n \in g.nodes \ P[k] : ~ChainTo(g, n, k)}
<1>1. Rounds \in Nat
  BY RoundsType
<1>2. P[0] = {} /\ \A k \in 1 .. Rounds : P[k] = Ordered(g, P[k - 1])
  BY PeeledByRounds
<1> HIDE DEF P
<1>3. 0 \notin T
  <2> SUFFICES ASSUME NEW n \in g.nodes PROVE ChainTo(g, n, 0)
    OBVIOUS
  <2> DEFINE c == [i \in 1 .. 0 + 1 |-> n]
  <2>1. c \in [1 .. 0 + 1 -> g.nodes] /\ c[0 + 1] = n
    OBVIOUS
  <2>2. \A i \in 1 .. 0 : c[i] \in g.deps[c[i + 1]]
    OBVIOUS
  <2> HIDE DEF c
  <2> QED BY <2>1, <2>2 DEF ChainTo
<1>4. ASSUME NEW k \in T, k # 0 PROVE k - 1 \in T
  <2>1. PICK n \in g.nodes \ P[k] : ~ChainTo(g, n, k)
    BY <1>4
  <2>2. /\ k \in Nat /\ k \in 1 .. Rounds /\ k - 1 \in 0 .. Rounds /\ (k - 1) + 1 = k
        /\ k - 1 \in Nat
    BY <1>1, <1>4
  <2>3. PICK m \in g.deps[n] : m \notin P[k - 1] /\ m \in g.nodes
    BY <1>2, <2>1, <2>2 DEF Ordered
  <2>4. ~ChainTo(g, m, k - 1)
    <3> SUFFICES ASSUME NEW c \in [1 .. k -> g.nodes], c[k] = m,
                        \A i \in 1 .. k - 1 : c[i] \in g.deps[c[i + 1]]
                 PROVE  ChainTo(g, n, k)
      BY <2>1, <2>2 DEF ChainTo
    <3> DEFINE e == [i \in 1 .. k + 1 |-> IF i = k + 1 THEN n ELSE c[i]]
    <3>1. /\ e \in [1 .. k + 1 -> g.nodes] /\ e[k + 1] = n
          /\ \A i \in 1 .. k : e[i] = c[i]
      BY <2>1, <2>2
    <3> HIDE DEF e
    <3>2. ASSUME NEW i \in 1 .. k PROVE e[i] \in g.deps[e[i + 1]]
      <4>1. CASE i = k
        BY <2>2, <2>3, <3>1, <4>1
      <4>2. CASE i # k
        <5>1. i \in 1 .. k - 1 /\ i + 1 \in 1 .. k
          BY <2>2, <4>2
        <5> QED BY <3>1, <5>1
      <4> QED BY <4>1, <4>2
    <3> QED BY <3>1, <3>2 DEF ChainTo
  <2> QED BY <2>2, <2>3, <2>4
<1>5. T = {}
  <2>1. T \in SUBSET (0 .. Rounds)
    OBVIOUS
  <2> HIDE DEF T
  <2> QED BY <1>1, <1>3, <1>4, <2>1, NoCounterexample
<1> QED BY <1>5 DEF P

\* What #buildGraph throws for, by definition.
Inadmissible(g) ==
    \/ Cyclic(g) \/ TooDeep(g)
    \/ \E n \in g.nodes : ~(g.deps[n] \subseteq g.nodes)
    \/ Cardinality(g.nodes) > MaxGraphNodes

\* The checks of #buildGraph agree with the definition, for every graph.
LEMMA AdmissibleMeans ==
    ASSUME NEW g, IsGraph(g)
    PROVE  Admissible(g) <=> ~Inadmissible(g)
<1> DEFINE P == Peeled(g)
           M == Cardinality(g.nodes)
           L == Least(MaxGraphDepth, M)
<1>1. /\ Rounds \in Nat /\ M \in Nat /\ M <= Rounds
      /\ MaxGraphDepth \in Nat \ {0} /\ MaxGraphNodes \in Nat
  BY RoundsType, OrchestrationAssumption
<1>2. L \in 0 .. Rounds /\ L <= MaxGraphDepth /\ L <= M /\ (L = M \/ L = MaxGraphDepth)
  BY <1>1 DEF Least
<1>3. Admissible(g) <=> /\ M <= MaxGraphNodes
                        /\ \A n \in g.nodes : n \notin g.deps[n] /\ g.deps[n] \subseteq g.nodes
                        /\ P[M] = g.nodes
                        /\ P[L] = g.nodes
  BY DEF Admissible
<1> HIDE DEF P, L
<1>4. ASSUME Admissible(g), Inadmissible(g) PROVE FALSE
  <2>1. ~Cyclic(g)
    <3> SUFFICES ASSUME NEW S \in (SUBSET g.nodes) \ {{}}, \A n \in S : g.deps[n] \cap S # {}
                 PROVE  FALSE
      BY DEF Cyclic
    <3>1. M \in 0 .. Rounds
      BY <1>1
    <3>2. P[M] \cap S = {}
      BY <3>1, CyclesAreNotPeeled DEF P
    <3> QED BY <1>3, <1>4, <3>2
  <2>2. ~TooDeep(g)
    <3> SUFFICES ASSUME NEW c \in [1 .. MaxGraphDepth + 1 -> g.nodes],
                        \A i \in 1 .. MaxGraphDepth : c[i] \in g.deps[c[i + 1]]
                 PROVE  FALSE
      BY DEF TooDeep
    <3>1. c[L + 1] \notin P[L]
      BY <1>1, <1>2, ChainsAreNotPeeled DEF P
    <3>2. L + 1 \in 1 .. MaxGraphDepth + 1
      BY <1>1, <1>2
    <3> QED BY <1>3, <1>4, <3>1, <3>2
  <2> QED BY <1>1, <1>3, <1>4, <2>1, <2>2 DEF Inadmissible
<1>5. ASSUME ~Inadmissible(g) PROVE Admissible(g)
  <2>1. /\ ~Cyclic(g) /\ ~TooDeep(g) /\ M <= MaxGraphNodes
        /\ \A n \in g.nodes : g.deps[n] \subseteq g.nodes
    BY <1>1, <1>5 DEF Inadmissible
  <2>2. \A n \in g.nodes : n \notin g.deps[n]
    <3> SUFFICES ASSUME NEW n \in g.nodes, n \in g.deps[n] PROVE FALSE
      OBVIOUS
    <3>1. {n} \in (SUBSET g.nodes) \ {{}} /\ \A k \in {n} : g.deps[k] \cap {n} # {}
      OBVIOUS
    <3> QED BY <2>1, <3>1 DEF Cyclic
  <2>3. P[M] = g.nodes
    BY <2>1, UnpeeledIsCyclic DEF P
  <2>4. P[L] = g.nodes
    <3>1. CASE L = M
      BY <2>3, <3>1
    <3>2. CASE L = MaxGraphDepth
      <4> SUFFICES ASSUME P[L] # g.nodes PROVE FALSE
        OBVIOUS
      <4>1. P[L] \subseteq g.nodes
        BY <1>2, PeeledGrows DEF P
      <4>2. PICK n \in g.nodes : n \notin P[L]
        BY <4>1
      <4>3. ChainTo(g, n, L)
        BY <1>2, <2>1, <4>2, UnpeeledEndChains DEF P
      <4> QED BY <2>1, <3>2, <4>3 DEF ChainTo, TooDeep
    <3> QED BY <1>2, <3>1, <3>2
  <2> QED BY <1>3, <2>1, <2>2, <2>3, <2>4
<1> QED BY <1>4, <1>5

\* A call that got past the breaker was rejected exactly when its graph is not admissible.
Admitted(g) ==
    g.status \notin {"idle", "blocked"} => (g.status = "rejected" <=> Inadmissible(g))

\* The graph of a call and whether it was rejected do not change once it has begun.
LEMMA AdmittedStays ==
    ASSUME NEW g, NEW h, Admitted(g), h.nodes = g.nodes, h.deps = g.deps,
           g.status \notin {"idle", "blocked"}, h.status \notin {"idle", "blocked"},
           h.status = "rejected" <=> g.status = "rejected"
    PROVE  Admitted(h)
BY DEF Admitted, Inadmissible, Cyclic, TooDeep

\* #buildGraph throws for a new call's graph, or lets it through.
LEMMA RunDelegationAdmits ==
    ASSUME Inv, NEW d \in Delegations, NEW r \in Requests[d], RunDelegation(d, r)
    PROVE  Admitted(run'[d]) /\ \A e \in Delegations \ {d} : run'[e] = run[e]
<1> DEFINE given == [run[d] EXCEPT !.nodes = r.nodes, !.deps = r.deps]
           js == [n \in Nodes |-> IF n \in r.nodes THEN QueuedJob ELSE NoJob]
           us == [n \in Nodes |-> IF n \in r.nodes THEN r.deps[n] ELSE {}]
           built == [given EXCEPT !.jobs = js, !.unmet = us, !.pending = r.nodes]
<1>1. PICK h \in {IF r.nodes = {} THEN [given EXCEPT !.status = "done"]
                  ELSE IF BreakerOpen THEN [given EXCEPT !.status = "blocked"]
                  ELSE IF ~Admissible(r) THEN [given EXCEPT !.status = "rejected"]
                  ELSE NextRound(built)} :
         run' = [run EXCEPT ![d] = h]
  BY DEF RunDelegation
<1>2. run[d] = NoRun /\ run[d] \in Runs /\ run \in [Delegations -> Runs]
  BY DEF RunDelegation, Inv, Sound, TypeOK
<1>3. r.nodes \in SUBSET Nodes /\ r.deps \in [Nodes -> SUBSET Nodes]
  BY OrchestrationAssumption DEF IsRequest
<1>4. run'[d] = h /\ \A e \in Delegations \ {d} : run'[e] = run[e]
  BY <1>1, <1>2
<1>5. Admissible(r) <=> ~Inadmissible(r)
  BY <1>3, AdmissibleMeans DEF IsGraph
<1>6. ASSUME NEW s \in Statuses, h = [given EXCEPT !.status = s]
      PROVE  h.nodes = r.nodes /\ h.deps = r.deps /\ h.status = s
  BY <1>2, <1>3, <1>6 DEF Runs
<1>7. ASSUME h = NextRound(built)
      PROVE  h.nodes = r.nodes /\ h.deps = r.deps /\ h.status \in {"awaiting", "done"}
  <2>1. QueuedJob \in Jobs /\ NoJob \in Jobs /\ QueuedJob.state = "queued"
        /\ NoJob.state = "none"
    <3>1. NoJob \in Jobs /\ NoJob.state = "none"
      BY DEF NoJob, Jobs
    <3> QED BY <3>1 DEF QueuedJob, Jobs
  <2>2. js \in [Nodes -> Jobs] /\ us \in [Nodes -> SUBSET Nodes]
    BY <1>3, <2>1
  <2>3. \A n \in Nodes :
           /\ n \in r.nodes => js[n].state = "queued" /\ us[n] = r.deps[n]
           /\ n \notin r.nodes => js[n].state = "none" /\ us[n] = {}
    BY <2>1
  <2> HIDE DEF js, us
  <2>4. /\ NoRun.wave = {}
        /\ \A n \in Nodes : NoRun.outcome[n] = "none"
    BY DEF NoRun
  <2>5. /\ built \in Runs /\ built.nodes = r.nodes /\ built.deps = r.deps
        /\ built.jobs = js /\ built.unmet = us /\ built.pending = r.nodes
        /\ built.wave = {} /\ built.outcome = NoRun.outcome
    BY <1>2, <1>3, <2>2, <2>4 DEF Runs
  <2> HIDE DEF built
  <2>6. \A n \in Nodes : State(built, n) = IF n \in r.nodes THEN "queued" ELSE "none"
    BY <2>3, <2>5 DEF State
  <2>7. Loop(built)
    BY <1>3, <2>3, <2>4, <2>5, <2>6 DEF Loop
  <2>8. /\ h.nodes = built.nodes /\ h.deps = built.deps
        /\ h.status \in {"awaiting", "done"}
    BY <1>7, <2>5, <2>7, NextRoundRun
  <2> QED BY <2>5, <2>8
<1>8. ~Inadmissible(r) \/ r.nodes # {}
  <2> SUFFICES ASSUME r.nodes = {} PROVE ~Inadmissible(r)
    OBVIOUS
  <2>1. ~Cyclic(r)
    BY DEF Cyclic
  <2>2. ~TooDeep(r)
    <3> SUFFICES ASSUME NEW c \in [1 .. MaxGraphDepth + 1 -> r.nodes] PROVE FALSE
      BY DEF TooDeep
    <3>1. 1 \in 1 .. MaxGraphDepth + 1
      BY OrchestrationAssumption
    <3>2. c[1] \in r.nodes
      BY <3>1
    <3> QED BY <3>2
  <2>3. ~(Cardinality(r.nodes) > MaxGraphNodes)
    BY OrchestrationAssumption, FS_EmptySet
  <2> QED BY <2>1, <2>2, <2>3 DEF Inadmissible
<1> HIDE DEF given, built
<1>9. /\ h.nodes = r.nodes /\ h.deps = r.deps
      /\ \/ h.status = "blocked"
         \/ h.status = "rejected" /\ Inadmissible(r)
         \/ h.status \in {"awaiting", "done"} /\ ~Inadmissible(r)
  <2>1. {"done", "blocked", "rejected"} \subseteq Statuses
    BY DEF Statuses
  <2>2. CASE r.nodes = {}
    <3>1. h = [given EXCEPT !.status = "done"]
      BY <1>1, <2>2
    <3> QED BY <1>6, <1>8, <2>1, <2>2, <3>1
  <2>3. CASE r.nodes # {} /\ BreakerOpen
    <3>1. h = [given EXCEPT !.status = "blocked"]
      BY <1>1, <2>3
    <3> QED BY <1>6, <2>1, <3>1
  <2>4. CASE r.nodes # {} /\ ~BreakerOpen /\ ~Admissible(r)
    <3>1. h = [given EXCEPT !.status = "rejected"]
      BY <1>1, <2>4
    <3> QED BY <1>5, <1>6, <2>1, <2>4, <3>1
  <2>5. CASE r.nodes # {} /\ ~BreakerOpen /\ Admissible(r)
    <3>1. h = NextRound(built)
      BY <1>1, <2>5
    <3> QED BY <1>5, <1>7, <2>5, <3>1
  <2> QED BY <2>2, <2>3, <2>4, <2>5
<1>10. Inadmissible(h) <=> Inadmissible(r)
  BY <1>9 DEF Inadmissible, Cyclic, TooDeep
<1>11. Admitted(h)
  BY <1>9, <1>10 DEF Admitted
<1> QED BY <1>4, <1>11

\* A job's step leaves the graph of its call, which has begun.
LEMMA JobAdmits ==
    ASSUME Inv, \A e \in Delegations : Admitted(run[e]), NEW d \in Delegations,
           NEW n \in Nodes, State(run[d], n) # "none", NEW s \in {run[d].status, "threw"},
           run'[d].nodes = run[d].nodes, run'[d].deps = run[d].deps, run'[d].status = s
    PROVE  Admitted(run'[d])
<1>1. run[d].status \notin {"idle", "blocked", "rejected"}
  BY InTheLoop DEF Inv, Sound
<1> QED BY <1>1, AdmittedStays

\* Every step of a call keeps the verdict on its graph.
LEMMA StepAdmits ==
    ASSUME Inv, \A e \in Delegations : Admitted(run[e]), [Next]_vars
    PROVE  \A e \in Delegations : Admitted(run'[e])
<1>1. run \in [Delegations -> Runs]
  BY DEF Inv, TypeOK
<1>2. ASSUME NEW d \in Delegations, NEW r \in Requests[d], RunDelegation(d, r)
      PROVE  \A e \in Delegations : Admitted(run'[e])
  BY <1>2, RunDelegationAdmits
<1>3. ASSUME NEW d \in Delegations, Resume(d)
      PROVE  \A e \in Delegations : Admitted(run'[e])
  <2> DEFINE g == run[d]
             p == Processed(g)
  <2>1. PICK h : /\ h = (IF p.wave # {} THEN Launched(p, p.wave) ELSE NextRound(p))
                 /\ run' = [run EXCEPT ![d] = h]
    BY <1>3 DEF Resume
  <2>2. g \in Runs /\ Loop(g) /\ g.status = "awaiting"
    BY <1>3 DEF Inv, Sound, TypeOK, Resume
  <2>3. p \in Runs /\ Loop(p) /\ p.nodes = g.nodes /\ p.deps = g.deps
    BY <2>2, ProcessedRun
  <2> HIDE DEF p
  <2>4. h.nodes = p.nodes /\ h.deps = p.deps /\ h.status \in {"awaiting", "done", "threw"}
    <3>1. CASE p.wave # {}
      <4>1. h = Launched(p, p.wave) /\ p.wave \in SUBSET Nodes
        BY <2>1, <2>3, <3>1 DEF Runs
      <4> QED BY <2>3, <4>1, LaunchedRun
    <3>2. CASE p.wave = {}
      <4>1. h = NextRound(p)
        BY <2>1, <3>2
      <4> QED BY <2>3, <3>2, <4>1, NextRoundRun
    <3> QED BY <3>1, <3>2
  <2>5. Admitted(g)
    OBVIOUS
  <2>6. Admitted(h)
    BY <2>2, <2>3, <2>4, <2>5, AdmittedStays
  <2> QED BY <1>1, <2>1, <2>6
<1>4. ASSUME NEW d \in Delegations, NEW n \in Nodes,
             Finish(d, n) \/ Reject(d, n) \/ Timeout(d, n) \/ Refuse(d, n) \/ Cancel(d, n)
      PROVE  \A e \in Delegations : Admitted(run'[e])
  <2>1. State(run[d], n) # "none"
    BY <1>4 DEF Finish, Reject, Timeout, Refuse, Cancel, Inv, TypeOK
  <2>2. /\ run'[d].nodes = run[d].nodes /\ run'[d].deps = run[d].deps
        /\ run'[d].status \in {run[d].status, "threw"}
        /\ \A e \in Delegations \ {d} : run'[e] = run[e]
    <3>1. CASE Finish(d, n) \/ Cancel(d, n)
      BY <1>1, <3>1 DEF Finish, Cancel, Runs
    <3>2. CASE Reject(d, n) \/ Timeout(d, n) \/ Refuse(d, n)
      <4>1. PICK abort \in BOOLEAN : AttemptFails(d, n, abort)
        BY <3>2 DEF Reject, Timeout, Refuse
      <4> QED BY <1>1, <4>1 DEF AttemptFails, Runs
    <3> QED BY <1>4, <3>1, <3>2
  <2>3. Admitted(run'[d])
    BY <2>1, <2>2, JobAdmits
  <2> QED BY <2>2, <2>3
<1>5. ASSUME NEW c \in calls, AbandonedEnds(c)
      PROVE  \A e \in Delegations : Admitted(run'[e])
  BY <1>5 DEF AbandonedEnds
<1>6. CASE UNCHANGED vars
  BY <1>6 DEF vars
<1> QED BY <1>2, <1>3, <1>4, <1>5, <1>6 DEF Next, Step

\* #buildGraph throws exactly for the graphs with a cycle, a missing node, too many
\* nodes or too long a chain, whatever the graph and the limits.
THEOREM AdmissionIsExact == Spec => []AdmissionExact
<1> DEFINE Verdicts == \A d \in Delegations : Admitted(run[d])
<1>1. Init => Verdicts
  BY DEF Init, NoRun, Admitted
<1>2. Inv /\ Verdicts /\ [Next]_vars => Verdicts'
  BY StepAdmits
<1>3. Verdicts => AdmissionExact
  BY DEF Admitted, Inadmissible, AdmissionExact
<1> QED BY <1>1, <1>2, <1>3, Invariance, PTL DEF Spec

=============================================================================
