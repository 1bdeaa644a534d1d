-------------------------- MODULE BackgroundProofs --------------------------
(***************************************************************************)
(* Proofs about the jobs, the event stream and the browser, as parts of     *)
(* Runtime, for any jobs, clients and topics, any number of runs and of     *)
(* requests at a time and any number of snapshots kept.                     *)
(***************************************************************************)
EXTENDS Runtime, FiniteSetTheorems, SequenceTheorems, TLAPS

LEMMA JobsPart == [Next]_vars => [Scheduler!Next]_SchedulerVars
BY DEF Next, Rest, vars

LEMMA HubPart == [Next]_vars => [Hub!Next]_HubVars
BY DEF Next, Rest, vars

LEMMA BrowserPart == [Next]_vars => [Browser!Next]_BrowserVars
BY DEF Next, Rest, vars

(***************************************************************************)
(* Jobs.                                                                    *)
(***************************************************************************)

Entries == [registered : BOOLEAN, task : BOOLEAN, status : {"idle", "running", "error", "stopped"},
            error : BOOLEAN, entry : Nat]
JobsTypes ==
    /\ jJob \in [Jobs -> Entries]
    /\ jRun \in [Slots -> [at : {"none", "log", "handler", "failed", "alert"}, job : Jobs \cup {"none"}, entry : Nat]]
    /\ jFailed \in [Jobs -> Nat] /\ jAlerted \in [Jobs -> Nat] /\ jMissed \in [Jobs -> Nat]

RunSound(r) == jRun[r].at # "none" => jRun[r].job \in Jobs
JobSound(j) == /\ jJob[j].status = "running" => Scheduler!Running(j) # {}
               /\ jJob[j].task => jJob[j].registered /\ jJob[j].status # "stopped"
Reported(j) == jFailed[j] = jAlerted[j] + jMissed[j] + Cardinality(Scheduler!Failing(j))

JobsInv == /\ JobsTypes
           /\ \A r \in Slots : RunSound(r)
           /\ \A j \in Jobs : JobSound(j) /\ Reported(j)

LEMMA JobsInitially == Init => JobsInv
<1> SUFFICES ASSUME Scheduler!Init PROVE JobsInv
  BY DEF Init
<1> USE DEF Scheduler!Init
<1>1. JobsTypes
  BY DEF JobsTypes, Entries, Scheduler!NoRun, Scheduler!Zero
<1>2. ASSUME NEW r \in Slots PROVE RunSound(r)
  BY DEF RunSound, Scheduler!NoRun
<1>3. ASSUME NEW j \in Jobs PROVE JobSound(j) /\ Reported(j)
  <2>1. Scheduler!Failing(j) = {}
    BY DEF Scheduler!Failing, Scheduler!NoRun
  <2>2. Cardinality(Scheduler!Failing(j)) = 0
    BY <2>1, FS_EmptySet
  <2> QED
    BY <2>2 DEF JobSound, Reported, Scheduler!Zero
<1> QED
  BY <1>1, <1>2, <1>3 DEF JobsInv

LEMMA JobsTogether ==
    ASSUME JobsTypes', \A r \in Slots : RunSound(r)', \A j \in Jobs : JobSound(j)', \A j \in Jobs : Reported(j)'
    PROVE  JobsInv'
<1>1. (\A r \in Slots : RunSound(r))' /\ (\A j \in Jobs : JobSound(j) /\ Reported(j))'
  OBVIOUS
<1> QED
  BY <1>1 DEF JobsInv

\* How many failures are under way.
LEMMA FailingIsFinite == \A j \in Jobs : IsFiniteSet(Scheduler!Failing(j)) /\ Cardinality(Scheduler!Failing(j)) \in Nat
<1>1. \A j \in Jobs : Scheduler!Failing(j) \subseteq Slots
  BY DEF Scheduler!Failing
<1> QED
  BY <1>1, FS_Subset, FS_CardinalityType, RuntimeAssumption

LEMMA RunsKept ==
    ASSUME JobsInv, UNCHANGED jRun
    PROVE  /\ \A r \in Slots : RunSound(r)'
           /\ \A j \in Jobs : Scheduler!Failing(j)' = Scheduler!Failing(j)
BY DEF JobsInv, RunSound, Scheduler!Failing

LEMMA ReportsKept ==
    ASSUME JobsInv, UNCHANGED <<jFailed, jAlerted, jMissed>>,
           \A j \in Jobs : Scheduler!Failing(j)' = Scheduler!Failing(j)
    PROVE  \A j \in Jobs : Reported(j)'
BY DEF JobsInv, Reported

\* A call of the scheduler: each entry stays, or what becomes of it has no run, and is not
\* shown stopped with a task.
Changed(e, f) == \/ f = e
                 \/ /\ f.status # "running"
                    /\ f.task => f.registered /\ f.status # "stopped"
                 \/ f.status = e.status /\ ~f.task /\ f.entry = e.entry

LEMMA CallOfScheduler ==
    ASSUME JobsInv, jJob' \in [Jobs -> Entries], \A j \in Jobs : Changed(jJob[j], jJob'[j]),
           UNCHANGED <<jRun, jFailed, jAlerted, jMissed>>
    PROVE  JobsInv'
<1>1. JobsTypes'
  BY DEF JobsInv, JobsTypes
<1>2. ASSUME NEW j \in Jobs PROVE JobSound(j)'
  <2>1. JobSound(j) /\ Changed(jJob[j], jJob'[j])
    BY DEF JobsInv
  <2>2. jJob'[j].entry = jJob[j].entry => Scheduler!Running(j)' = Scheduler!Running(j)
    BY DEF Scheduler!Running, Scheduler!Mine
  <2> QED
    BY <2>1, <2>2 DEF JobSound, Changed
<1> QED
  BY <1>1, <1>2, RunsKept, ReportsKept, JobsTogether

LEMMA RegisterStep == ASSUME JobsInv, NEW j \in Jobs, NEW auto \in BOOLEAN, Scheduler!Register(j, auto) PROVE JobsInv'
<1> USE DEF Scheduler!Register, Scheduler!KeepRuns
<1> DEFINE f == [registered |-> TRUE, task |-> auto, status |-> "idle", error |-> FALSE, entry |-> jJob[j].entry + 1]
<1>1. jJob' = [jJob EXCEPT ![j] = f]
  BY DEF JobsInv, JobsTypes
<1>2. f \in Entries /\ Changed(jJob[j], f)
  BY DEF JobsInv, JobsTypes, Entries, Changed
<1> HIDE DEF f
<1>3. jJob' \in [Jobs -> Entries] /\ \A z \in Jobs : Changed(jJob[z], jJob'[z])
  BY <1>1, <1>2 DEF JobsInv, JobsTypes, Changed
<1> QED
  BY <1>3, CallOfScheduler

LEMMA UnregisterStep == ASSUME JobsInv, NEW j \in Jobs, Scheduler!Unregister(j) PROVE JobsInv'
<1> USE DEF Scheduler!Unregister, Scheduler!KeepRuns
<1> DEFINE f == [jJob[j] EXCEPT !.registered = FALSE, !.task = FALSE]
<1>1. jJob' = [jJob EXCEPT ![j] = f]
  BY DEF JobsInv, JobsTypes, Entries
<1>2. f \in Entries /\ Changed(jJob[j], f)
  BY DEF JobsInv, JobsTypes, Entries, Changed
<1> HIDE DEF f
<1>3. jJob' \in [Jobs -> Entries] /\ \A z \in Jobs : Changed(jJob[z], jJob'[z])
  BY <1>1, <1>2 DEF JobsInv, JobsTypes, Changed
<1> QED
  BY <1>3, CallOfScheduler

LEMMA StartedFacts ==
    ASSUME NEW e \in Entries
    PROVE  /\ Scheduler!Started(e) \in Entries /\ Changed(e, Scheduler!Started(e))
           /\ Scheduler!Stopped(e) \in Entries /\ Changed(e, Scheduler!Stopped(e))
BY DEF Scheduler!Started, Scheduler!Stopped, Entries, Changed

LEMMA StartStopStep ==
    ASSUME JobsInv, NEW js, Scheduler!Start(js) \/ Scheduler!Stop(js)
    PROVE  JobsInv'
<1>1. UNCHANGED <<jRun, jFailed, jAlerted, jMissed>>
  BY DEF Scheduler!Start, Scheduler!Stop, Scheduler!KeepRuns
<1>2. DOMAIN jJob' = Jobs /\ jJob' = [j \in Jobs |-> jJob'[j]]
  BY DEF Scheduler!Start, Scheduler!Stop
<1>3. ASSUME NEW j \in Jobs PROVE jJob'[j] \in Entries /\ Changed(jJob[j], jJob'[j])
  <2>1. jJob'[j] \in {jJob[j], Scheduler!Started(jJob[j]), Scheduler!Stopped(jJob[j])}
    BY DEF Scheduler!Start, Scheduler!Stop
  <2>2. jJob[j] \in Entries /\ Changed(jJob[j], jJob[j])
    BY DEF JobsInv, JobsTypes, Changed
  <2> QED
    BY <2>1, <2>2, StartedFacts
<1>4. jJob' \in [Jobs -> Entries]
  BY <1>2, <1>3
<1> QED
  BY <1>1, <1>3, <1>4, CallOfScheduler

LEMMA SetEnabledStep == ASSUME JobsInv, Scheduler!SetEnabled PROVE JobsInv'
<1>1. UNCHANGED <<jJob, jRun, jFailed, jAlerted, jMissed>>
  BY DEF Scheduler!SetEnabled
<1>2. jJob' \in [Jobs -> Entries] /\ \A j \in Jobs : Changed(jJob[j], jJob'[j])
  BY <1>1 DEF JobsInv, JobsTypes, Changed
<1> QED
  BY <1>1, <1>2, CallOfScheduler

\* A step of run r, which goes on to x.
LEMMA RunMoves ==
    ASSUME JobsInv, NEW r \in Slots,
           NEW x \in [at : {"none", "log", "handler", "failed", "alert"}, job : Jobs \cup {"none"}, entry : Nat],
           x.at # "none" => x.job \in Jobs, jRun' = [jRun EXCEPT ![r] = x]
    PROVE  /\ jRun' \in [Slots -> [at : {"none", "log", "handler", "failed", "alert"}, job : Jobs \cup {"none"}, entry : Nat]]
           /\ jRun'[r] = x /\ \A z \in Slots \ {r} : jRun'[z] = jRun[z]
           /\ \A z \in Slots : RunSound(z)'
<1>1. /\ jRun' \in [Slots -> [at : {"none", "log", "handler", "failed", "alert"}, job : Jobs \cup {"none"}, entry : Nat]]
      /\ jRun'[r] = x /\ \A z \in Slots \ {r} : jRun'[z] = jRun[z]
  BY DEF JobsInv, JobsTypes
<1>2. ASSUME NEW z \in Slots PROVE RunSound(z)'
  BY <1>1 DEF JobsInv, RunSound
<1> QED
  BY <1>1, <1>2

RunRecords == [at : {"none", "log", "handler", "failed", "alert"}, job : Jobs \cup {"none"}, entry : Nat]

LEMMA FailingAfter ==
    ASSUME JobsInv, NEW r \in Slots, NEW x, jRun'[r] = x, \A z \in Slots \ {r} : jRun'[z] = jRun[z], NEW j \in Jobs
    PROVE  /\ x.job = j /\ x.at \in {"failed", "alert"} => Scheduler!Failing(j)' = Scheduler!Failing(j) \cup {r}
           /\ ~(x.job = j /\ x.at \in {"failed", "alert"}) => Scheduler!Failing(j)' = Scheduler!Failing(j) \ {r}
BY DEF Scheduler!Failing

\* The entries of the other runs stay, and so do those of the others of this job.
LEMMA RunningAfter ==
    ASSUME JobsInv, NEW r \in Slots, NEW x, jRun'[r] = x, \A z \in Slots \ {r} : jRun'[z] = jRun[z],
           \A j \in Jobs : jJob'[j].entry = jJob[j].entry, NEW j \in Jobs
    PROVE  Scheduler!Running(j) \ {r} \subseteq Scheduler!Running(j)'
<1> SUFFICES ASSUME NEW z \in Scheduler!Running(j), z # r PROVE z \in Scheduler!Running(j)'
  OBVIOUS
<1>1. z \in Slots /\ jRun[z].job = j /\ jRun[z].at \in {"log", "handler"} /\ jJob[j].entry = jRun[z].entry
  BY DEF Scheduler!Running, Scheduler!Mine
<1>2. jRun'[z] = jRun[z] /\ jJob'[j].entry = jJob[j].entry
  BY <1>1
<1> QED
  BY <1>1, <1>2 DEF Scheduler!Running, Scheduler!Mine

LEMMA FireStep == ASSUME JobsInv, NEW j \in Jobs, NEW r \in Slots, Scheduler!Fire(r, j) PROVE JobsInv'
<1> DEFINE x == [at |-> "log", job |-> j, entry |-> jJob[j].entry]
<1>1. /\ jRun[r].at = "none" /\ jJob[j].task /\ jJob' = [jJob EXCEPT ![j].status = "running"]
      /\ jRun' = [jRun EXCEPT ![r] = x]
      /\ UNCHANGED <<jFailed, jAlerted, jMissed>>
  BY DEF Scheduler!Fire, Scheduler!NoRun, Scheduler!KeepHistory
<1>2. x \in RunRecords /\ x.at = "log" /\ x.job = j /\ x.entry = jJob[j].entry
  BY DEF JobsInv, JobsTypes, Entries, RunRecords
<1> HIDE DEF x
<1>3. /\ jRun' \in [Slots -> RunRecords] /\ jRun'[r] = x /\ \A z \in Slots \ {r} : jRun'[z] = jRun[z]
      /\ \A z \in Slots : RunSound(z)'
  BY <1>1, <1>2, RunMoves DEF RunRecords
<1>4. /\ jJob' \in [Jobs -> Entries] /\ jJob'[j].status = "running" /\ jJob'[j].registered = jJob[j].registered
      /\ \A z \in Jobs : jJob'[z].entry = jJob[z].entry
      /\ \A z \in Jobs \ {j} : jJob'[z] = jJob[z]
  BY <1>1 DEF JobsInv, JobsTypes, Entries
<1>5. JobsTypes'
  BY <1>1, <1>3, <1>4 DEF JobsInv, JobsTypes, RunRecords
<1>6. ASSUME NEW z \in Jobs PROVE JobSound(z)'
  <2>1. JobSound(z) /\ JobSound(j)
    BY DEF JobsInv
  <2>2. r \in Scheduler!Running(j)'
    BY <1>2, <1>3, <1>4 DEF Scheduler!Running, Scheduler!Mine
  <2>3. Scheduler!Running(z) \subseteq Scheduler!Running(z)'
    <3>1. r \notin Scheduler!Running(z)
      BY <1>1 DEF Scheduler!Running
    <3> QED
      BY <1>3, <1>4, <3>1, RunningAfter
  <2>4. CASE z = j
    BY <1>1, <1>4, <2>1, <2>2, <2>4 DEF JobSound
  <2>5. CASE z # j
    BY <1>4, <2>1, <2>3, <2>5 DEF JobSound
  <2> QED
    BY <2>4, <2>5
<1>7. ASSUME NEW z \in Jobs PROVE Scheduler!Failing(z)' = Scheduler!Failing(z)
  <2>1. Scheduler!Failing(z)' = Scheduler!Failing(z) \ {r}
    BY <1>2, <1>3, FailingAfter
  <2>2. r \notin Scheduler!Failing(z)
    BY <1>1 DEF Scheduler!Failing
  <2> QED
    BY <2>1, <2>2
<1> QED
  BY <1>1, <1>3, <1>5, <1>6, <1>7, ReportsKept, JobsTogether

\* A step of a run that changes only where it is.
LEMMA RunGoes ==
    ASSUME JobsInv, NEW r \in Slots, NEW a \in {"handler", "alert"}, jRun[r].at # "none", Scheduler!Go(r, a)
    PROVE  \E x \in RunRecords : /\ x.at = a /\ x.job = jRun[r].job /\ x.entry = jRun[r].entry
                                 /\ jRun' \in [Slots -> RunRecords] /\ jRun'[r] = x
                                 /\ \A z \in Slots \ {r} : jRun'[z] = jRun[z]
                                 /\ \A z \in Slots : RunSound(z)'
<1> DEFINE x == [jRun[r] EXCEPT !.at = a]
<1>1. jRun' = [jRun EXCEPT ![r] = x] /\ jRun[r] \in RunRecords /\ RunSound(r)
  BY DEF Scheduler!Go, JobsInv, JobsTypes, RunRecords
<1>2. x \in RunRecords /\ x.at = a /\ x.job = jRun[r].job /\ x.entry = jRun[r].entry
  BY <1>1 DEF RunRecords
<1>3. x.job \in Jobs
  BY <1>1, <1>2 DEF RunSound
<1> HIDE DEF x
<1> QED
  BY <1>1, <1>2, <1>3, RunMoves DEF RunRecords

LEMMA RunHandlerStep == ASSUME JobsInv, NEW r \in Slots, Scheduler!RunHandler(r) PROVE JobsInv'
<1>1. jRun[r].at = "log" /\ Scheduler!Go(r, "handler") /\ UNCHANGED <<jJob, jFailed, jAlerted, jMissed>>
  BY DEF Scheduler!RunHandler, Scheduler!KeepHistory
<1>2. PICK x \in RunRecords : /\ x.at = "handler" /\ x.job = jRun[r].job /\ x.entry = jRun[r].entry
                              /\ jRun' \in [Slots -> RunRecords] /\ jRun'[r] = x
                              /\ \A z \in Slots \ {r} : jRun'[z] = jRun[z]
                              /\ \A z \in Slots : RunSound(z)'
  BY <1>1, RunGoes
<1>3. JobsTypes'
  BY <1>1, <1>2 DEF JobsInv, JobsTypes, RunRecords
<1>4. ASSUME NEW j \in Jobs PROVE JobSound(j)' /\ Scheduler!Failing(j)' = Scheduler!Failing(j)
  <2>1. Scheduler!Running(j)' = Scheduler!Running(j)
    BY <1>1, <1>2 DEF Scheduler!Running, Scheduler!Mine
  <2>2. Scheduler!Failing(j)' = Scheduler!Failing(j)
    BY <1>1, <1>2 DEF Scheduler!Failing
  <2> QED
    BY <1>1, <2>1, <2>2 DEF JobsInv, JobSound
<1> QED
  BY <1>1, <1>2, <1>3, <1>4, ReportsKept, JobsTogether

\* What becomes of the entries when run r, which was running, ends with a status.
LEMMA Marked ==
    ASSUME JobsInv, NEW r \in Slots, jRun[r].at \in {"log", "handler"}, NEW s \in {"idle", "error"}, NEW e \in BOOLEAN,
           Scheduler!Mark(r, s, e),
           jRun'[r].at \notin {"log", "handler"}, \A z \in Slots \ {r} : jRun'[z] = jRun[z]
    PROVE  jJob' \in [Jobs -> Entries] /\ \A j \in Jobs : JobSound(j)'
<1> DEFINE i == jRun[r].job
           f == [jJob[i] EXCEPT !.status = s, !.error = e]
<1>1. i \in Jobs
  BY DEF JobsInv, RunSound
<1>2. jJob \in [Jobs -> Entries] /\ jJob' = IF Scheduler!Mine(r) THEN [jJob EXCEPT ![i] = f] ELSE jJob
  BY <1>1 DEF JobsInv, JobsTypes, Scheduler!Mark
<1>3. /\ f \in Entries /\ f.status \in {"idle", "error"} /\ f.task = jJob[i].task
      /\ f.registered = jJob[i].registered /\ f.entry = jJob[i].entry
  BY <1>1, <1>2 DEF Entries
<1> HIDE DEF f
<1>4. jJob' \in [Jobs -> Entries] /\ \A j \in Jobs : jJob'[j].entry = jJob[j].entry
  BY <1>1, <1>2, <1>3
<1>5. ASSUME NEW j \in Jobs PROVE JobSound(j)'
  <2>1. JobSound(j)
    BY DEF JobsInv
  <2>2. CASE j = i /\ Scheduler!Mine(r)
    BY <1>1, <1>2, <1>3, <2>1, <2>2 DEF JobSound
  <2>3. CASE ~(j = i /\ Scheduler!Mine(r))
    <3>1. jJob'[j] = jJob[j]
      BY <1>1, <1>2, <2>3
    <3>2. r \notin Scheduler!Running(j)
      BY <2>3 DEF Scheduler!Running
    <3>3. Scheduler!Running(j) \subseteq Scheduler!Running(j)'
      BY <1>4, <3>2, RunningAfter
    <3> QED
      BY <2>1, <3>1, <3>3 DEF JobSound
  <2> QED
    BY <2>2, <2>3
<1> QED
  BY <1>4, <1>5

LEMMA NoRunFacts == Scheduler!NoRun \in RunRecords /\ Scheduler!NoRun.at = "none"
BY DEF Scheduler!NoRun, RunRecords

LEMMA RunLeaves ==
    ASSUME JobsInv, NEW r \in Slots, Scheduler!Leave(r)
    PROVE  /\ jRun' \in [Slots -> RunRecords] /\ jRun'[r].at = "none" /\ \A z \in Slots \ {r} : jRun'[z] = jRun[z]
           /\ \A z \in Slots : RunSound(z)'
           /\ \A j \in Jobs : Scheduler!Failing(j)' = Scheduler!Failing(j) \ {r}
<1>1. /\ jRun' \in [Slots -> RunRecords] /\ jRun'[r] = Scheduler!NoRun /\ \A z \in Slots \ {r} : jRun'[z] = jRun[z]
      /\ \A z \in Slots : RunSound(z)'
  BY NoRunFacts, RunMoves DEF Scheduler!Leave, RunRecords
<1>2. ASSUME NEW j \in Jobs PROVE Scheduler!Failing(j)' = Scheduler!Failing(j) \ {r}
  BY <1>1, NoRunFacts, FailingAfter
<1> QED
  BY <1>1, <1>2, NoRunFacts

LEMMA DoneStep == ASSUME JobsInv, NEW r \in Slots, Scheduler!Done(r) PROVE JobsInv'
<1>1. /\ jRun[r].at = "handler" /\ Scheduler!Mark(r, "idle", FALSE) /\ Scheduler!Leave(r)
      /\ UNCHANGED <<jFailed, jAlerted, jMissed>>
  BY DEF Scheduler!Done, Scheduler!KeepHistory
<1>2. /\ jRun' \in [Slots -> RunRecords] /\ jRun'[r].at = "none" /\ \A z \in Slots \ {r} : jRun'[z] = jRun[z]
      /\ \A z \in Slots : RunSound(z)'
      /\ \A j \in Jobs : Scheduler!Failing(j)' = Scheduler!Failing(j) \ {r}
  BY <1>1, RunLeaves
<1>3. jJob' \in [Jobs -> Entries] /\ \A j \in Jobs : JobSound(j)'
  BY <1>1, <1>2, Marked
<1>4. JobsTypes'
  BY <1>1, <1>2, <1>3 DEF JobsInv, JobsTypes, RunRecords
<1>5. \A j \in Jobs : Scheduler!Failing(j)' = Scheduler!Failing(j)
  BY <1>1, <1>2 DEF Scheduler!Failing
<1> QED
  BY <1>1, <1>2, <1>3, <1>4, <1>5, ReportsKept, JobsTogether

LEMMA FailStep == ASSUME JobsInv, NEW r \in Slots, Scheduler!Fail(r) PROVE JobsInv'
<1> DEFINE x == [jRun[r] EXCEPT !.at = "failed"]
           i == jRun[r].job
<1>1. /\ jRun[r].at \in {"log", "handler"} /\ Scheduler!Mark(r, "error", TRUE) /\ jRun' = [jRun EXCEPT ![r] = x]
      /\ jFailed' = [jFailed EXCEPT ![i] = @ + 1] /\ UNCHANGED <<jAlerted, jMissed>>
  BY DEF Scheduler!Fail, Scheduler!Count, Scheduler!Go, JobsInv, JobsTypes
<1>2. jRun[r] \in RunRecords /\ i \in Jobs
  BY <1>1 DEF JobsInv, JobsTypes, RunSound, RunRecords
<1>3. x \in RunRecords /\ x.at = "failed" /\ x.job = i
  BY <1>2 DEF RunRecords
<1> HIDE DEF x
<1>4. /\ jRun' \in [Slots -> RunRecords] /\ jRun'[r] = x /\ \A z \in Slots \ {r} : jRun'[z] = jRun[z]
      /\ \A z \in Slots : RunSound(z)'
  BY <1>1, <1>2, <1>3, RunMoves DEF RunRecords
<1>5. jJob' \in [Jobs -> Entries] /\ \A j \in Jobs : JobSound(j)'
  BY <1>1, <1>3, <1>4, Marked
<1>6. jFailed' \in [Jobs -> Nat] /\ jFailed'[i] = jFailed[i] + 1 /\ \A j \in Jobs \ {i} : jFailed'[j] = jFailed[j]
  BY <1>1, <1>2 DEF JobsInv, JobsTypes
<1>7. JobsTypes'
  BY <1>1, <1>4, <1>5, <1>6 DEF JobsInv, JobsTypes, RunRecords
<1>8. ASSUME NEW j \in Jobs PROVE Reported(j)'
  <2>1. Reported(j) /\ IsFiniteSet(Scheduler!Failing(j)) /\ Cardinality(Scheduler!Failing(j)) \in Nat
    BY FailingIsFinite DEF JobsInv
  <2>2. r \notin Scheduler!Failing(j)
    BY <1>1 DEF Scheduler!Failing
  <2>3. CASE j = i
    <3>1. Scheduler!Failing(j)' = Scheduler!Failing(j) \cup {r}
      BY <1>3, <1>4, <2>3, FailingAfter
    <3>2. Cardinality(Scheduler!Failing(j)') = Cardinality(Scheduler!Failing(j)) + 1
      BY <2>1, <2>2, <3>1, FS_AddElement
    <3> QED
      BY <1>1, <1>6, <2>1, <2>3, <3>2 DEF Reported, JobsInv, JobsTypes
  <2>4. CASE j # i
    <3>1. Scheduler!Failing(j)' = Scheduler!Failing(j)
      BY <1>3, <1>4, <2>2, <2>4 DEF Scheduler!Failing
    <3> QED
      BY <1>1, <1>6, <2>1, <2>4, <3>1 DEF Reported
  <2> QED
    BY <2>3, <2>4
<1> QED
  BY <1>4, <1>5, <1>7, <1>8, JobsTogether

\* A run that failed leaves, reported or not.
LEMMA Settled ==
    ASSUME JobsInv, NEW r \in Slots, jRun[r].at \in {"failed", "alert"}, Scheduler!Leave(r), UNCHANGED <<jJob, jFailed>>,
           \/ jAlerted' = Scheduler!Count(jAlerted, r) /\ UNCHANGED jMissed
           \/ jMissed' = Scheduler!Count(jMissed, r) /\ UNCHANGED jAlerted
    PROVE  JobsInv'
<1> DEFINE i == jRun[r].job
<1>1. i \in Jobs
  BY DEF JobsInv, RunSound
<1>2. /\ jRun' \in [Slots -> RunRecords] /\ jRun'[r].at = "none" /\ \A z \in Slots \ {r} : jRun'[z] = jRun[z]
      /\ \A z \in Slots : RunSound(z)'
      /\ \A j \in Jobs : Scheduler!Failing(j)' = Scheduler!Failing(j) \ {r}
  BY RunLeaves
<1>3. /\ jAlerted' \in [Jobs -> Nat] /\ jMissed' \in [Jobs -> Nat]
      /\ \A j \in Jobs : jAlerted'[j] + jMissed'[j] = IF j = i THEN jAlerted[j] + jMissed[j] + 1 ELSE jAlerted[j] + jMissed[j]
  BY <1>1 DEF JobsInv, JobsTypes, Scheduler!Count
<1>4. JobsTypes'
  BY <1>2, <1>3 DEF JobsInv, JobsTypes, RunRecords
<1>5. ASSUME NEW j \in Jobs PROVE JobSound(j)'
  <2>1. r \notin Scheduler!Running(j)
    BY DEF Scheduler!Running
  <2>2. Scheduler!Running(j) \subseteq Scheduler!Running(j)'
    BY <1>2, <2>1, RunningAfter
  <2> QED
    BY <2>2 DEF JobsInv, JobSound
<1>6. ASSUME NEW j \in Jobs PROVE Reported(j)'
  <2>1. Reported(j) /\ IsFiniteSet(Scheduler!Failing(j)) /\ Cardinality(Scheduler!Failing(j)) \in Nat
    BY FailingIsFinite DEF JobsInv
  <2>2. jFailed'[j] = jFailed[j] /\ jFailed[j] \in Nat /\ jAlerted[j] \in Nat /\ jMissed[j] \in Nat
    BY DEF JobsInv, JobsTypes
  <2>3. CASE j = i
    <3>1. r \in Scheduler!Failing(j)
      BY <2>3 DEF Scheduler!Failing
    <3>2. Cardinality(Scheduler!Failing(j)') = Cardinality(Scheduler!Failing(j)) - 1
      BY <1>2, <2>1, <3>1, FS_RemoveElement
    <3>3. jAlerted'[j] + jMissed'[j] = jAlerted[j] + jMissed[j] + 1
      BY <1>3, <2>3
    <3> QED
      BY <2>1, <2>2, <3>2, <3>3 DEF Reported
  <2>4. CASE j # i
    <3>1. Scheduler!Failing(j)' = Scheduler!Failing(j)
      BY <1>2, <2>4 DEF Scheduler!Failing
    <3>2. jAlerted'[j] + jMissed'[j] = jAlerted[j] + jMissed[j]
      BY <1>3, <2>4
    <3> QED
      BY <2>1, <2>2, <3>1, <3>2 DEF Reported
  <2> QED
    BY <2>3, <2>4
<1> QED
  BY <1>2, <1>4, <1>5, <1>6, JobsTogether

LEMMA ReportStep == ASSUME JobsInv, NEW r \in Slots, Scheduler!Report(r) PROVE JobsInv'
<1>1. /\ jRun[r].at = "failed" /\ UNCHANGED <<jJob, jFailed, jAlerted>>
      /\ \/ Scheduler!Go(r, "alert") /\ UNCHANGED jMissed
         \/ Scheduler!Leave(r) /\ jMissed' = Scheduler!Count(jMissed, r)
  BY DEF Scheduler!Report
<1>2. CASE Scheduler!Go(r, "alert") /\ UNCHANGED jMissed
  <2>1. PICK x \in RunRecords : /\ x.at = "alert" /\ x.job = jRun[r].job /\ x.entry = jRun[r].entry
                                /\ jRun' \in [Slots -> RunRecords] /\ jRun'[r] = x
                                /\ \A z \in Slots \ {r} : jRun'[z] = jRun[z]
                                /\ \A z \in Slots : RunSound(z)'
    BY <1>1, <1>2, RunGoes
  <2>2. JobsTypes'
    BY <1>1, <1>2, <2>1 DEF JobsInv, JobsTypes, RunRecords
  <2>3. ASSUME NEW j \in Jobs PROVE JobSound(j)' /\ Scheduler!Failing(j)' = Scheduler!Failing(j)
    <3>1. Scheduler!Running(j)' = Scheduler!Running(j)
      BY <1>1, <2>1 DEF Scheduler!Running, Scheduler!Mine
    <3>2. Scheduler!Failing(j)' = Scheduler!Failing(j)
      BY <1>1, <2>1 DEF Scheduler!Failing
    <3> QED
      BY <1>1, <3>1, <3>2 DEF JobsInv, JobSound
  <2> QED
    BY <1>1, <1>2, <2>1, <2>2, <2>3, ReportsKept, JobsTogether
<1>3. CASE Scheduler!Leave(r) /\ jMissed' = Scheduler!Count(jMissed, r)
  BY <1>1, <1>3, Settled
<1> QED
  BY <1>1, <1>2, <1>3

LEMMA AlertStep == ASSUME JobsInv, NEW r \in Slots, Scheduler!Alert(r) \/ Scheduler!Unreported(r) PROVE JobsInv'
BY Settled DEF Scheduler!Alert, Scheduler!Unreported

LEMMA JobsStep == JobsInv /\ [Scheduler!Next]_SchedulerVars => JobsInv'
<1> SUFFICES ASSUME JobsInv, [Scheduler!Next]_SchedulerVars PROVE JobsInv'
  OBVIOUS
<1>1. CASE Scheduler!Next
  BY <1>1, RegisterStep, UnregisterStep, StartStopStep, SetEnabledStep, FireStep, RunHandlerStep, DoneStep,
     FailStep, ReportStep, AlertStep DEF Scheduler!Next
<1>2. CASE UNCHANGED SchedulerVars
  <2>1. UNCHANGED <<jJob, jRun, jFailed, jAlerted, jMissed>>
    BY <1>2 DEF SchedulerVars
  <2>2. jJob' \in [Jobs -> Entries] /\ \A j \in Jobs : Changed(jJob[j], jJob'[j])
    BY <2>1 DEF JobsInv, JobsTypes, Changed
  <2> QED
    BY <2>1, <2>2, CallOfScheduler
<1> QED
  BY <1>1, <1>2

LEMMA JobsAreSafe == JobsInv => Scheduler!JobsSafe
<1> SUFFICES ASSUME JobsInv PROVE Scheduler!JobsSafe
  OBVIOUS
<1>1. \A j \in Jobs : JobSound(j) /\ Reported(j)
  BY DEF JobsInv
<1>2. \A j \in Jobs : Scheduler!Cardinality(Scheduler!Failing(j)) = Cardinality(Scheduler!Failing(j))
  BY DEF Scheduler!Cardinality, Cardinality
<1> QED
  BY <1>1, <1>2 DEF JobSound, Reported, Scheduler!JobsSafe

\* The bounds on the calls and the runs are kept.
JobsCounted == jChanges \in 0..MaxChanges /\ jRuns \in 0..MaxRuns /\ jFaults \in 0..Faults + 1

LEMMA JobsCount == (Init => JobsCounted) /\ (JobsCounted /\ [Scheduler!Next]_SchedulerVars => JobsCounted')
<1> USE RuntimeAssumption
<1>1. Init => JobsCounted
  BY DEF Init, Scheduler!Init, JobsCounted
<1>2. ASSUME JobsCounted, [Scheduler!Next]_SchedulerVars PROVE JobsCounted'
  <2>1. CASE UNCHANGED SchedulerVars
    BY <1>2, <2>1 DEF SchedulerVars, JobsCounted
  <2>2. ASSUME NEW js, Scheduler!Start(js) \/ Scheduler!Stop(js) PROVE JobsCounted'
    BY <1>2, <2>2 DEF Scheduler!Start, Scheduler!Stop, Scheduler!Change, Scheduler!KeepRuns, JobsCounted
  <2>3. ASSUME NEW j, NEW auto, Scheduler!Register(j, auto) \/ Scheduler!Unregister(j) \/ Scheduler!SetEnabled PROVE JobsCounted'
    BY <1>2, <2>3 DEF Scheduler!Register, Scheduler!Unregister, Scheduler!SetEnabled, Scheduler!Change, Scheduler!KeepRuns,
                      JobsCounted
  <2>4. ASSUME NEW r, NEW j, Scheduler!Fire(r, j) PROVE JobsCounted'
    <3>1. jRuns < MaxRuns /\ jRuns' = jRuns + 1 /\ jChanges' = jChanges /\ jFaults' = jFaults
      BY <2>4 DEF Scheduler!Fire, Scheduler!KeepCalls
    <3> QED
      BY <1>2, <3>1 DEF JobsCounted
  <2>5. ASSUME NEW r, Scheduler!RunHandler(r) \/ Scheduler!Done(r) \/ Scheduler!Report(r) \/ Scheduler!Alert(r) PROVE JobsCounted'
    <3>1. jRuns' = jRuns /\ jChanges' = jChanges /\ jFaults' = jFaults
      BY <2>5 DEF Scheduler!RunHandler, Scheduler!Done, Scheduler!Report, Scheduler!Alert, Scheduler!KeepCalls
    <3> QED
      BY <1>2, <3>1 DEF JobsCounted
  <2>6. ASSUME NEW r, Scheduler!Fail(r) \/ Scheduler!Unreported(r) PROVE JobsCounted'
    <3>1. jRuns' = jRuns /\ jChanges' = jChanges /\ jFaults < Faults + 1 /\ jFaults' = jFaults + 1
      BY <2>6 DEF Scheduler!Fail, Scheduler!Unreported, Scheduler!Fault, Scheduler!KeepCalls
    <3> QED
      BY <1>2, <3>1 DEF JobsCounted
  <2> QED
    BY <1>2, <2>1, <2>2, <2>3, <2>4, <2>5, <2>6 DEF Scheduler!Next
<1> QED
  BY <1>1, <1>2

LEMMA JobsTyped == JobsInv /\ JobsCounted => Scheduler!TypeOK
BY DEF JobsInv, JobsTypes, JobsCounted, Entries, Scheduler!TypeOK

(***************************************************************************)
(* The event stream.                                                        *)
(***************************************************************************)

Peers == [socket : {"none", "open", "closing", "leaving", "gone"}, registered : BOOLEAN, authenticated : BOOLEAN,
          subs : SUBSET Topics, alive : BOOLEAN, timer : BOOLEAN, pinged : BOOLEAN, full : BOOLEAN]
Sayings == [type : {"auth_ok", "error", "subscribed", "snapshot", "event"}, topic : Topics \cup {"none"}, seq : Nat]
HubTypes == /\ hClient \in [Clients -> Peers]
            /\ hInbox \in [Clients -> Seq(Sayings)]
            /\ hSeq \in Nat

\* The registry holds those whose socket is open or being closed by its peer.
Standing(e) == /\ e.registered => e.socket \in {"open", "leaving"}
               /\ e.socket = "open" => e.registered
               /\ e.timer => e.registered /\ ~e.authenticated

\* A registered client was told what the registry says of it, unless it missed something.
Has(c, type, topic) == \E k \in DOMAIN hInbox[c] : hInbox[c][k].type = type /\ hInbox[c][k].topic = topic
Told(c) == hClient[c].registered /\ c \notin hDropped =>
               /\ hClient[c].authenticated => Has(c, "auth_ok", "none")
               /\ \A t \in hClient[c].subs : /\ Has(c, "subscribed", t)
                                             /\ t \in Produced => Has(c, "snapshot", t)
Empty(c) == hClient[c].socket = "none" => hInbox[c] = <<>>

\* Of an event: its number and its topic, and what came before it.
Since(c, i) == /\ Hub!Before(c, i, "auth_ok", "none")
               /\ Hub!Before(c, i, "subscribed", hInbox[c][i].topic)
               /\ Hub!Before(c, i, "snapshot", hInbox[c][i].topic)
EventSound(c, i) == /\ hInbox[c][i].seq <= hSeq
                    /\ hInbox[c][i].topic \in hClient[c].subs
                    /\ \A k \in Hub!Events(c) : k < i => hInbox[c][k].seq < hInbox[c][i].seq
                    /\ c \notin hDropped => Since(c, i)
Heard(c) == \A i \in Hub!Events(c) : EventSound(c, i)

HubInv == /\ HubTypes
          /\ \A c \in Clients : Standing(hClient[c]) /\ Told(c) /\ Empty(c) /\ Heard(c)

LEMMA HubInitially == Init => HubInv
<1> SUFFICES ASSUME Hub!Init PROVE HubInv
  BY DEF Init
<1>1. Hub!Fresh \in Peers /\ Standing(Hub!Fresh) /\ Hub!Fresh.registered = FALSE
  BY DEF Hub!Fresh, Peers, Standing
<1>2. HubTypes
  BY <1>1 DEF HubTypes, Hub!Init
<1>3. ASSUME NEW c \in Clients PROVE Standing(hClient[c]) /\ Told(c) /\ Empty(c) /\ Heard(c)
  <2>1. hClient[c] = Hub!Fresh /\ hInbox[c] = <<>>
    BY DEF Hub!Init
  <2>2. Hub!Events(c) = {}
    BY <2>1 DEF Hub!Events
  <2> QED
    BY <1>1, <2>1, <2>2 DEF Told, Empty, Heard
<1> QED
  BY <1>2, <1>3 DEF HubInv

\* The inbox of a client only grows.
Grew(c) == \A i \in DOMAIN hInbox[c] : i \in DOMAIN hInbox'[c] /\ hInbox'[c][i] = hInbox[c][i]
News(c) == DOMAIN hInbox'[c] \ DOMAIN hInbox[c]

LEMMA HasStays == ASSUME NEW c, NEW type, NEW topic, Grew(c), Has(c, type, topic) PROVE Has(c, type, topic)'
BY DEF Grew, Has

LEMMA SinceStays ==
    ASSUME HubTypes, HubTypes', NEW c \in Clients, NEW i \in DOMAIN hInbox[c], Grew(c), Since(c, i)
    PROVE  Since(c, i)'
<1>1. DOMAIN hInbox[c] = 1..Len(hInbox[c]) /\ Len(hInbox[c]) \in Nat
  BY DEF HubTypes
<1>2. \A k \in 1..i - 1 : k \in DOMAIN hInbox[c]
  BY <1>1
<1> QED
  BY <1>2 DEF Grew, Since, Hub!Before

LEMMA HeardStays ==
    ASSUME HubTypes, HubTypes', NEW c \in Clients, Heard(c), Grew(c),
           \A i \in News(c) : hInbox'[c][i].type # "event",
           hSeq <= hSeq', hClient[c].subs \subseteq hClient'[c].subs, c \in hDropped => c \in hDropped'
    PROVE  Heard(c)'
<1>1. \A i \in Hub!Events(c)' : i \in Hub!Events(c) /\ hInbox'[c][i] = hInbox[c][i]
  BY DEF Hub!Events, News, Grew
<1> SUFFICES ASSUME NEW i \in Hub!Events(c)' PROVE EventSound(c, i)'
  BY DEF Heard
<1>2. i \in Hub!Events(c) /\ hInbox'[c][i] = hInbox[c][i] /\ EventSound(c, i)
  BY <1>1 DEF Heard
<1>3. hInbox[c][i].seq \in Nat /\ hSeq \in Nat /\ hSeq' \in Nat /\ i \in DOMAIN hInbox[c]
  <2>1. i \in DOMAIN hInbox[c] /\ hInbox[c] \in Seq(Sayings)
    BY <1>2 DEF HubTypes, Hub!Events
  <2>2. hInbox[c][i] \in Sayings
    BY <2>1
  <2> QED
    BY <2>1, <2>2 DEF HubTypes, Sayings
<1>4. hInbox'[c][i].seq <= hSeq' /\ hInbox'[c][i].topic \in hClient'[c].subs
  BY <1>2, <1>3 DEF EventSound
<1>5. \A k \in Hub!Events(c)' : k < i => hInbox'[c][k].seq < hInbox'[c][i].seq
  BY <1>1, <1>2 DEF EventSound
<1>6. c \notin hDropped' => Since(c, i)'
  BY <1>2, <1>3, SinceStays DEF EventSound
<1> QED
  BY <1>4, <1>5, <1>6 DEF EventSound

LEMMA HubTogether ==
    ASSUME HubTypes', \A c \in Clients : (Standing(hClient[c]) /\ Told(c) /\ Empty(c) /\ Heard(c))'
    PROVE  HubInv'
<1>1. (\A c \in Clients : Standing(hClient[c]) /\ Told(c) /\ Empty(c) /\ Heard(c))'
  OBVIOUS
<1> QED
  BY <1>1 DEF HubInv

\* A client that is told nothing stays what it is to the registry, or leaves it.
Quiet(e, f) == /\ f \in Peers /\ Standing(f)
               /\ f.socket = "none" => e.socket = "none"
               /\ f.registered => e.registered /\ f.authenticated = e.authenticated
               /\ f.subs = e.subs

LEMMA QuietClient ==
    ASSUME HubInv, HubTypes', NEW c \in Clients, Quiet(hClient[c], hClient'[c]), hInbox'[c] = hInbox[c], hSeq' = hSeq,
           hDropped' = hDropped
    PROVE  (Standing(hClient[c]) /\ Told(c) /\ Empty(c) /\ Heard(c))'
<1>1. Grew(c) /\ News(c) = {}
  BY DEF Grew, News
<1>2. HubTypes /\ Told(c) /\ Empty(c) /\ Heard(c)
  BY DEF HubInv
<1>3. Heard(c)'
  <2>1. hSeq <= hSeq' /\ hClient[c].subs \subseteq hClient'[c].subs /\ (c \in hDropped => c \in hDropped')
    BY <1>2 DEF HubTypes, Quiet
  <2> QED
    BY <1>1, <1>2, <2>1, HeardStays
<1>4. Told(c)'
  <2>1. \A type, topic : Has(c, type, topic)' = Has(c, type, topic)
    BY DEF Has
  <2> QED
    BY <1>2, <2>1 DEF Told, Quiet
<1>5. Empty(c)'
  BY <1>2 DEF Empty, Quiet
<1> QED
  BY <1>3, <1>4, <1>5 DEF Quiet

LEMMA QuietStep ==
    ASSUME HubInv, hClient' = [c \in Clients |-> hClient'[c]], \A c \in Clients : Quiet(hClient[c], hClient'[c]),
           hInbox' = hInbox, hSeq' = hSeq, hDropped' = hDropped
    PROVE  HubInv'
<1>1. \A c \in Clients : hClient'[c] \in Peers
  BY DEF Quiet
<1>2. HubTypes'
  BY <1>1 DEF HubInv, HubTypes
<1>3. \A c \in Clients : (Standing(hClient[c]) /\ Told(c) /\ Empty(c) /\ Heard(c))'
  BY <1>2, QuietClient
<1> QED
  BY <1>2, <1>3, HubTogether

LEMMA QuietFacts ==
    ASSUME NEW e \in Peers, Standing(e)
    PROVE  /\ Quiet(e, e) /\ Quiet(e, Hub!Closed(e)) /\ Quiet(e, Hub!Beat(e))
           /\ Quiet(e, [e EXCEPT !.alive = TRUE, !.pinged = FALSE])
           /\ Quiet(e, [e EXCEPT !.timer = FALSE])
           /\ e.socket = "open" => Quiet(e, [e EXCEPT !.socket = "leaving"]) /\ Quiet(e, [e EXCEPT !.full = ~@])
           /\ Quiet(e, [Hub!Closed(e) EXCEPT !.socket = "gone"])
<1>1. Quiet(e, e)
  BY DEF Quiet
<1>2. Quiet(e, Hub!Closed(e)) /\ Hub!Closed(e) \in Peers
  BY DEF Quiet, Hub!Closed, Peers, Standing
<1>3. Quiet(e, [e EXCEPT !.alive = FALSE, !.pinged = e.socket = "open"])
  BY DEF Quiet, Peers, Standing
<1>4. Quiet(e, Hub!Beat(e))
  BY <1>1, <1>2, <1>3 DEF Hub!Beat
<1>5. Quiet(e, [e EXCEPT !.alive = TRUE, !.pinged = FALSE])
  BY DEF Quiet, Peers, Standing
<1>6. Quiet(e, [e EXCEPT !.timer = FALSE])
  BY DEF Quiet, Peers, Standing
<1>7. e.socket = "open" => Quiet(e, [e EXCEPT !.socket = "leaving"])
  BY DEF Quiet, Peers, Standing
<1>8. Quiet(e, [e EXCEPT !.full = ~@])
  BY DEF Quiet, Peers, Standing
<1>9. Quiet(e, [Hub!Closed(e) EXCEPT !.socket = "gone"])
  BY DEF Quiet, Hub!Closed, Peers, Standing
<1> QED
  BY <1>1, <1>2, <1>4, <1>5, <1>6, <1>7, <1>8, <1>9

LEMMA OneQuiet ==
    ASSUME HubInv, NEW c \in Clients, NEW f, Quiet(hClient[c], f), hClient' = [hClient EXCEPT ![c] = f],
           hInbox' = hInbox, hSeq' = hSeq, hDropped' = hDropped
    PROVE  HubInv'
<1>1. \A d \in Clients : hClient[d] \in Peers /\ Quiet(hClient[d], hClient[d])
  BY QuietFacts DEF HubInv, HubTypes
<1>2. DOMAIN hClient = Clients
  BY DEF HubInv, HubTypes
<1>3. hClient' = [d \in Clients |-> hClient'[d]] /\ \A d \in Clients : Quiet(hClient[d], hClient'[d])
  BY <1>1, <1>2
<1> QED
  BY <1>3, QuietStep

LEMMA QuietSteps ==
    ASSUME HubInv, NEW c \in Clients,
           Hub!AuthTimeout(c) \/ Hub!Pong(c) \/ Hub!PeerCloses(c) \/ Hub!CloseEvent(c) \/ Hub!Buffer(c)
    PROVE  HubInv'
<1> DEFINE e == hClient[c]
<1>1. e \in Peers /\ Standing(e) /\ DOMAIN hClient = Clients
  BY DEF HubInv, HubTypes
<1>2. hInbox' = hInbox /\ hSeq' = hSeq /\ hDropped' = hDropped
  BY DEF Hub!AuthTimeout, Hub!Pong, Hub!PeerCloses, Hub!CloseEvent, Hub!Buffer
<1>3. PICK f : Quiet(e, f) /\ hClient' = [hClient EXCEPT ![c] = f]
  <2>1. CASE Hub!AuthTimeout(c)
    BY <1>1, <2>1, QuietFacts DEF Hub!AuthTimeout
  <2>2. CASE Hub!Pong(c)
    <3>1. hClient' = [hClient EXCEPT ![c] = [e EXCEPT !.alive = TRUE, !.pinged = FALSE]]
      BY <1>1, <2>2 DEF Hub!Pong, Peers
    <3> QED
      BY <1>1, <3>1, QuietFacts
  <2>3. CASE Hub!PeerCloses(c)
    <3>1. hClient' = [hClient EXCEPT ![c] = [e EXCEPT !.socket = "leaving"]] /\ e.socket = "open"
      BY <1>1, <2>3 DEF Hub!PeerCloses
    <3> QED
      BY <1>1, <3>1, QuietFacts
  <2>4. CASE Hub!CloseEvent(c)
    BY <1>1, <2>4, QuietFacts DEF Hub!CloseEvent
  <2>5. CASE Hub!Buffer(c)
    <3>1. hClient' = [hClient EXCEPT ![c] = [e EXCEPT !.full = ~@]] /\ e.socket = "open"
      BY <1>1, <2>5 DEF Hub!Buffer
    <3> QED
      BY <1>1, <3>1, QuietFacts
  <2> QED
    BY <2>1, <2>2, <2>3, <2>4, <2>5
<1> QED
  BY <1>2, <1>3, OneQuiet

LEMMA EvictionSteps == ASSUME HubInv, Hub!RunHeartbeat \/ Hub!Stop \/ UNCHANGED <<hClient, hInbox, hSeq, hDropped>> PROVE HubInv'
<1>1. hInbox' = hInbox /\ hSeq' = hSeq /\ hDropped' = hDropped
  BY DEF Hub!RunHeartbeat, Hub!Stop
<1>2. hClient' = [c \in Clients |-> hClient'[c]]
  BY DEF Hub!RunHeartbeat, Hub!Stop, HubInv, HubTypes
<1>3. ASSUME NEW c \in Clients PROVE Quiet(hClient[c], hClient'[c])
  <2>1. hClient'[c] \in {hClient[c], Hub!Beat(hClient[c]), Hub!Closed(hClient[c])}
    BY DEF Hub!RunHeartbeat, Hub!Stop
  <2>2. hClient[c] \in Peers /\ Standing(hClient[c])
    BY DEF HubInv, HubTypes
  <2> QED
    BY <2>1, <2>2, QuietFacts
<1> QED
  BY <1>1, <1>2, <1>3, QuietStep

LEMMA HubConnectStep == ASSUME HubInv, NEW c \in Clients, Hub!Connect(c) PROVE HubInv'
<1> DEFINE f == [Hub!Fresh EXCEPT !.socket = "open", !.registered = TRUE, !.timer = TRUE]
<1>1. /\ hClient[c].socket = "none" /\ hClient' = [hClient EXCEPT ![c] = f]
      /\ hInbox' = hInbox /\ hSeq' = hSeq /\ hDropped' = hDropped
  BY DEF Hub!Connect
<1>2. f \in Peers /\ Standing(f) /\ f.socket = "open" /\ ~f.authenticated /\ f.subs = {}
  BY DEF Hub!Fresh, Peers, Standing
<1> HIDE DEF f
<1>3. HubTypes /\ HubTypes'
  BY <1>1, <1>2 DEF HubInv, HubTypes
<1>4. hClient'[c] = f /\ \A d \in Clients \ {c} : hClient'[d] = hClient[d]
  BY <1>1, <1>3 DEF HubTypes
<1>5. ASSUME NEW d \in Clients PROVE (Standing(hClient[d]) /\ Told(d) /\ Empty(d) /\ Heard(d))'
  <2>1. CASE d = c
    <3>1. hInbox'[c] = <<>>
      BY <1>1 DEF HubInv, Empty
    <3>2. Hub!Events(c)' = {}
      BY <3>1 DEF Hub!Events
    <3> QED
      BY <1>2, <1>4, <2>1, <3>1, <3>2 DEF Told, Empty, Heard
  <2>2. CASE d # c
    <3>1. Quiet(hClient[d], hClient'[d]) /\ hInbox'[d] = hInbox[d]
      <4>1. hClient[d] \in Peers /\ Standing(hClient[d])
        BY <1>3 DEF HubInv, HubTypes
      <4> QED
        BY <1>1, <1>4, <2>2, <4>1, QuietFacts
    <3> QED
      BY <1>1, <1>3, <3>1, QuietClient
  <2> QED
    BY <2>1, <2>2
<1> QED
  BY <1>3, <1>5, HubTogether

\* What a sequence of messages adds to an inbox.
LEMMA Added ==
    ASSUME NEW q \in Seq(Sayings), NEW ms \in Seq(Sayings)
    PROVE  /\ q \o ms \in Seq(Sayings)
           /\ \A i \in DOMAIN q : i \in DOMAIN (q \o ms) /\ (q \o ms)[i] = q[i]
           /\ \A i \in DOMAIN (q \o ms) \ DOMAIN q : \E k \in DOMAIN ms : (q \o ms)[i] = ms[k]
           /\ \A k \in DOMAIN ms : \E i \in DOMAIN (q \o ms) : (q \o ms)[i] = ms[k]
<1>1. DOMAIN q = 1..Len(q) /\ DOMAIN ms = 1..Len(ms) /\ Len(q) \in Nat /\ Len(ms) \in Nat
  OBVIOUS
<1>2. /\ q \o ms \in Seq(Sayings) /\ Len(q \o ms) = Len(q) + Len(ms)
      /\ \A i \in 1..Len(q) + Len(ms) : (q \o ms)[i] = IF i <= Len(q) THEN q[i] ELSE ms[i - Len(q)]
  BY ConcatProperties
<1>3. DOMAIN (q \o ms) = 1..Len(q) + Len(ms)
  BY <1>2
<1>4. \A i \in DOMAIN q : i \in DOMAIN (q \o ms) /\ (q \o ms)[i] = q[i]
  BY <1>1, <1>2, <1>3
<1>5. ASSUME NEW i \in DOMAIN (q \o ms) \ DOMAIN q PROVE \E k \in DOMAIN ms : (q \o ms)[i] = ms[k]
  <2>1. i - Len(q) \in DOMAIN ms /\ (q \o ms)[i] = ms[i - Len(q)]
    BY <1>1, <1>2, <1>3
  <2> QED
    BY <2>1
<1>6. ASSUME NEW k \in DOMAIN ms PROVE \E i \in DOMAIN (q \o ms) : (q \o ms)[i] = ms[k]
  <2>1. k + Len(q) \in DOMAIN (q \o ms) /\ (q \o ms)[k + Len(q)] = ms[k]
    BY <1>1, <1>2, <1>3
  <2> QED
    BY <2>1
<1> QED
  BY <1>2, <1>4, <1>5, <1>6

\* Client c becomes f, and is told ms, which are no events.
LEMMA SentStep ==
    ASSUME HubInv, NEW c \in Clients, NEW f \in Peers, NEW ms \in Seq(Sayings), \A k \in DOMAIN ms : ms[k].type # "event",
           hClient' = [hClient EXCEPT ![c] = f], Standing(f), f.socket # "none", hClient[c].subs \subseteq f.subs,
           Hub!Sent(c, ms), hSeq' = hSeq, Standing(hClient[c]), Hub!Receives(c),
           f.registered => /\ hClient[c].registered
                           /\ f.authenticated => hClient[c].authenticated \/ \E k \in DOMAIN ms :
                                                     ms[k].type = "auth_ok" /\ ms[k].topic = "none"
                           /\ \A t \in f.subs \ hClient[c].subs :
                                  /\ \E k \in DOMAIN ms : ms[k].type = "subscribed" /\ ms[k].topic = t
                                  /\ t \in Produced => \E k \in DOMAIN ms : ms[k].type = "snapshot" /\ ms[k].topic = t
    PROVE  HubInv'
<1> DEFINE e == hClient[c]
<1>1. HubTypes
  BY DEF HubInv
<1>2. hClient' \in [Clients -> Peers] /\ hClient'[c] = f /\ \A d \in Clients \ {c} : hClient'[d] = hClient[d]
  BY <1>1 DEF HubTypes
<1>3. \/ Hub!Sends(c) /\ hInbox' = [hInbox EXCEPT ![c] = @ \o ms] /\ hDropped' = hDropped
      \/ ~Hub!Sends(c) /\ hInbox' = hInbox /\ hDropped' = IF e.socket = "open" THEN hDropped \cup {c} ELSE hDropped
  BY DEF Hub!Sent
<1>4. /\ hInbox' \in [Clients -> Seq(Sayings)] /\ \A d \in Clients \ {c} : hInbox'[d] = hInbox[d]
      /\ Grew(c) /\ \A i \in News(c) : \E k \in DOMAIN ms : hInbox'[c][i] = ms[k]
      /\ Hub!Sends(c) => \A k \in DOMAIN ms : \E i \in DOMAIN hInbox'[c] : hInbox'[c][i] = ms[k]
  <2>1. PICK q : q = hInbox[c]
    OBVIOUS
  <2>2. PICK p : p = q \o ms
    OBVIOUS
  <2>3. q \in Seq(Sayings) /\ hInbox \in [Clients -> Seq(Sayings)]
    BY <1>1, <2>1 DEF HubTypes
  <2>4. /\ p \in Seq(Sayings) /\ \A i \in DOMAIN q : i \in DOMAIN p /\ p[i] = q[i]
        /\ \A i \in DOMAIN p \ DOMAIN q : \E k \in DOMAIN ms : p[i] = ms[k]
        /\ \A k \in DOMAIN ms : \E i \in DOMAIN p : p[i] = ms[k]
    BY <2>2, <2>3, Added
  <2>5. CASE Hub!Sends(c)
    <3>1. hInbox' = [hInbox EXCEPT ![c] = p]
      BY <1>3, <2>1, <2>2, <2>5
    <3>2. hInbox'[c] = p /\ hInbox' \in [Clients -> Seq(Sayings)] /\ \A d \in Clients \ {c} : hInbox'[d] = hInbox[d]
      BY <2>3, <2>4, <3>1
    <3> QED
      BY <2>1, <2>4, <3>2 DEF Grew, News
  <2>6. CASE ~Hub!Sends(c)
    BY <1>3, <2>3, <2>6 DEF Grew, News
  <2> QED
    BY <2>5, <2>6
<1>5. HubTypes'
  BY <1>1, <1>2, <1>4 DEF HubTypes
<1>6. ASSUME NEW d \in Clients, d # c PROVE (Standing(hClient[d]) /\ Told(d) /\ Empty(d) /\ Heard(d))'
  <2>1. Quiet(hClient[d], hClient'[d]) /\ hInbox'[d] = hInbox[d] /\ (d \in hDropped' <=> d \in hDropped)
    <3>1. hClient[d] \in Peers /\ Standing(hClient[d])
      BY <1>1 DEF HubInv, HubTypes
    <3>2. Quiet(hClient[d], hClient[d])
      BY <3>1, QuietFacts
    <3>3. hClient'[d] = hClient[d]
      BY <1>2, <1>6
    <3>4. hInbox'[d] = hInbox[d]
      BY <1>4, <1>6
    <3>5. d \in hDropped' <=> d \in hDropped
      BY <1>3, <1>6
    <3> QED
      BY <3>2, <3>3, <3>4, <3>5
  <2>2. Grew(d) /\ News(d) = {}
    BY <2>1 DEF Grew, News
  <2>3. Told(d) /\ Empty(d) /\ Heard(d)
    BY DEF HubInv
  <2>4. Heard(d)'
    <3>1. hSeq <= hSeq' /\ hClient[d].subs \subseteq hClient'[d].subs
      BY <1>1, <2>1 DEF HubTypes, Quiet
    <3> QED
      BY <1>1, <1>5, <2>1, <2>2, <2>3, <3>1, HeardStays
  <2>5. \A type, topic : Has(d, type, topic)' = Has(d, type, topic)
    BY <2>1 DEF Has
  <2>6. Told(d)'
    BY <2>1, <2>3, <2>5 DEF Told, Quiet
  <2> QED
    BY <2>1, <2>3, <2>4, <2>6 DEF Empty, Quiet
<1>8. Heard(c)'
  <2>1. hSeq <= hSeq' /\ hClient[c].subs \subseteq hClient'[c].subs /\ (c \in hDropped => c \in hDropped')
    BY <1>1, <1>2, <1>3 DEF HubTypes
  <2>2. \A i \in News(c) : hInbox'[c][i].type # "event"
    BY <1>4
  <2>3. Heard(c)
    BY DEF HubInv
  <2> QED
    BY <1>1, <1>5, <1>4, <2>1, <2>2, <2>3, HeardStays
<1>9. Told(c)'
  <2> SUFFICES ASSUME f.registered, c \notin hDropped' PROVE Told(c)'
    BY <1>2 DEF Told
  <2>1. e.registered /\ e.socket = "open"
    BY DEF Standing, Hub!Receives
  <2>2. Hub!Sends(c) /\ c \notin hDropped
    BY <1>3, <2>1
  <2>3. Told(c)
    BY DEF HubInv
  <2>4. f.authenticated => Has(c, "auth_ok", "none")'
    <3>1. CASE e.authenticated
      BY <1>4, <2>1, <2>2, <2>3, <3>1, HasStays DEF Told
    <3>2. CASE f.authenticated /\ ~e.authenticated
      BY <1>4, <2>2, <3>2 DEF Has
    <3> QED
      BY <3>1, <3>2
  <2>5. ASSUME NEW t \in f.subs
        PROVE  Has(c, "subscribed", t)' /\ (t \in Produced => Has(c, "snapshot", t)')
    <3>1. CASE t \in e.subs
      BY <1>4, <2>1, <2>2, <2>3, <3>1, HasStays DEF Told
    <3>2. CASE t \notin e.subs
      BY <1>4, <2>2, <3>2 DEF Has
    <3> QED
      BY <3>1, <3>2
  <2> QED
    BY <1>2, <2>4, <2>5 DEF Told
<1> QED
  BY <1>2, <1>5, <1>6, <1>8, <1>9, HubTogether DEF Empty

LEMMA AuthStep == ASSUME HubInv, NEW c \in Clients, Hub!Auth(c) \/ Hub!AuthFails(c) PROVE HubInv'
<1> DEFINE e == hClient[c]
<1>1. e \in Peers /\ Standing(e) /\ Hub!Receives(c) /\ hSeq' = hSeq /\ DOMAIN hClient = Clients
  BY DEF HubInv, HubTypes, Hub!Auth, Hub!AuthFails
<1>2. CASE Hub!Auth(c)
  <2> DEFINE f == [e EXCEPT !.authenticated = TRUE, !.timer = FALSE]
             m == Hub!Message("auth_ok", "none", 0)
  <2>1. hClient' = [hClient EXCEPT ![c] = f] /\ Hub!Sent(c, <<m>>)
    BY <1>1, <1>2 DEF Hub!Auth, Peers
  <2>2. f \in Peers /\ Standing(f) /\ f.socket = e.socket /\ f.subs = e.subs /\ f.registered = e.registered
    BY <1>1 DEF Peers, Standing
  <2>3. m \in Sayings /\ m.type = "auth_ok" /\ m.topic = "none"
    BY DEF Hub!Message, Sayings
  <2> HIDE DEF f, m
  <2>4. <<m>> \in Seq(Sayings) /\ DOMAIN <<m>> = {1} /\ <<m>>[1] = m
    BY <2>3
  <2>5. f.socket # "none"
    BY <1>1, <2>2 DEF Hub!Receives
  <2> QED
    BY <1>1, <2>1, <2>2, <2>3, <2>4, <2>5, SentStep
<1>3. CASE Hub!AuthFails(c)
  <2> DEFINE f == Hub!Closed(e)
             m == Hub!Message("error", "none", 0)
  <2>1. hClient' = [hClient EXCEPT ![c] = f] /\ Hub!Sent(c, <<m>>)
    BY <1>3 DEF Hub!AuthFails
  <2>2. f \in Peers /\ Standing(f) /\ f.socket # "none" /\ f.subs = e.subs /\ ~f.registered
    BY <1>1 DEF Peers, Standing, Hub!Closed, Hub!Receives
  <2>3. m \in Sayings /\ m.type = "error"
    BY DEF Hub!Message, Sayings
  <2> HIDE DEF f, m
  <2>4. <<m>> \in Seq(Sayings) /\ DOMAIN <<m>> = {1} /\ <<m>>[1] = m
    BY <2>3
  <2> QED
    BY <1>1, <2>1, <2>2, <2>3, <2>4, SentStep
<1> QED
  BY <1>2, <1>3

LEMMA SubscribeStep == ASSUME HubInv, NEW c \in Clients, NEW t \in Topics, Hub!Subscribe(c, t) PROVE HubInv'
<1> DEFINE e == hClient[c]
           f == [e EXCEPT !.subs = @ \cup {t}]
           m == Hub!Message("subscribed", t, 0)
           n == Hub!Message("snapshot", t, hSeq)
           ms == <<m>> \o Hub!Snapshot(c, t)
<1>1. /\ e \in Peers /\ Standing(e) /\ Hub!Receives(c) /\ hSeq' = hSeq /\ hSeq \in Nat /\ DOMAIN hClient = Clients
      /\ e.authenticated /\ Hub!Sent(c, ms)
  BY DEF HubInv, HubTypes, Hub!Subscribe
<1>2. hClient' = [hClient EXCEPT ![c] = f]
  BY <1>1 DEF Hub!Subscribe, Peers
<1>3. /\ f \in Peers /\ Standing(f) /\ f.socket # "none" /\ f.subs = e.subs \cup {t}
      /\ f.registered = e.registered /\ f.authenticated = e.authenticated
  BY <1>1 DEF Peers, Standing, Hub!Receives
<1>4. m \in Sayings /\ m.type = "subscribed" /\ m.topic = t
  BY DEF Hub!Message, Sayings
<1>5. n \in Sayings /\ n.type = "snapshot" /\ n.topic = t
  BY <1>1 DEF Hub!Message, Sayings
<1>6. ms = IF e.registered /\ t \in Produced THEN <<m, n>> ELSE <<m>>
  <2>1. Hub!Snapshot(c, t) = IF e.registered /\ t \in Produced THEN <<n>> ELSE <<>>
    BY DEF Hub!Snapshot
  <2> HIDE DEF m, n
  <2>2. <<m>> \o <<>> = <<m>>
    <3>1. <<m>> \in Seq(Sayings)
      BY <1>4
    <3> QED
      BY <3>1, ConcatEmptySeq
  <2>3. <<m>> \o <<n>> = <<m, n>>
    <3>1. <<m>> \in Seq(Sayings) /\ <<n>> \in Seq(Sayings) /\ <<m, n>> \in Seq(Sayings)
      BY <1>4, <1>5
    <3>2. /\ Len(<<m>>) = 1 /\ Len(<<n>>) = 1 /\ Len(<<m, n>>) = 2
          /\ <<m>>[1] = m /\ <<n>>[1] = n /\ <<m, n>>[1] = m /\ <<m, n>>[2] = n
      OBVIOUS
    <3> QED
      <4>1. /\ <<m>> \o <<n>> \in Seq(Sayings) /\ Len(<<m>> \o <<n>>) = Len(<<m>>) + Len(<<n>>)
            /\ \A i \in 1..Len(<<m>>) + Len(<<n>>) :
                   (<<m>> \o <<n>>)[i] = IF i <= Len(<<m>>) THEN <<m>>[i] ELSE <<n>>[i - Len(<<m>>)]
        BY <3>1, ConcatProperties
      <4>2. Len(<<m>> \o <<n>>) = 2 /\ (<<m>> \o <<n>>)[1] = m /\ (<<m>> \o <<n>>)[2] = n
        BY <3>2, <4>1
      <4>3. \A i \in 1..2 : i = 1 \/ i = 2
        OBVIOUS
      <4> QED
        BY <3>1, <3>2, <4>1, <4>2, <4>3, SeqEqual, ZenonT(60)
  <2> QED
    BY <2>1, <2>2, <2>3
<1> HIDE DEF f, m, n, ms
<1>7. ms \in Seq(Sayings) /\ 1 \in DOMAIN ms /\ ms[1] = m /\ \A k \in DOMAIN ms : ms[k] \in {m, n}
  BY <1>4, <1>5, <1>6
<1>8. e.registered /\ t \in Produced => 2 \in DOMAIN ms /\ ms[2] = n
  BY <1>6
<1>9. \A k \in DOMAIN ms : ms[k].type # "event"
  BY <1>4, <1>5, <1>7
<1>10. \A z \in f.subs \ e.subs : z = t
  BY <1>3
<1> QED
  BY <1>1, <1>2, <1>3, <1>4, <1>5, <1>7, <1>8, <1>9, <1>10, SentStep

\* Everyone who is told of an event has been told what comes before it.
LEMMA PublishStep == ASSUME HubInv, NEW t \in Produced, Hub!Publish(t) PROVE HubInv'
<1> DEFINE Gets(c) == Hub!Hears(c, t) /\ hClient[c].socket = "open" /\ Hub!Sends(c)
           m == Hub!Message("event", t, hSeq + 1)
<1>1. /\ hClient' = hClient /\ hSeq' = hSeq + 1
      /\ hInbox' = [c \in Clients |-> IF Gets(c) THEN Append(hInbox[c], m) ELSE hInbox[c]]
      /\ hDropped \subseteq hDropped'
  BY DEF Hub!Publish
<1>2. HubTypes /\ hSeq \in Nat
  BY DEF HubInv, HubTypes
<1>3. \A c \in Clients : Gets(c) => t \in hClient[c].subs /\ hClient[c].registered /\ hClient[c].authenticated
  BY DEF Hub!Hears
<1>4. ASSUME NEW c \in Clients, Gets(c) PROVE m \in Sayings /\ m.type = "event" /\ m.topic = t /\ m.seq = hSeq + 1
  <2>1. t \in Topics
    BY <1>2, <1>3, <1>4 DEF HubTypes, Peers
  <2> QED
    BY <1>2, <2>1 DEF Hub!Message, Sayings
<1> HIDE DEF m
<1>5. ASSUME NEW c \in Clients
      PROVE  /\ hInbox'[c] \in Seq(Sayings) /\ hInbox[c] \in Seq(Sayings) /\ Grew(c)
             /\ ~Gets(c) => hInbox'[c] = hInbox[c]
             /\ Gets(c) => /\ Len(hInbox'[c]) = Len(hInbox[c]) + 1 /\ hInbox'[c][Len(hInbox[c]) + 1] = m
  <2>1. hInbox[c] \in Seq(Sayings) /\ hInbox'[c] = IF Gets(c) THEN Append(hInbox[c], m) ELSE hInbox[c]
    BY <1>1, <1>2 DEF HubTypes
  <2> HIDE DEF Gets
  <2>2. CASE Gets(c)
    <3>1. PICK q : q = hInbox[c]
      OBVIOUS
    <3>2. q \in Seq(Sayings) /\ hInbox'[c] = Append(q, m) /\ m \in Sayings
      BY <1>4, <2>1, <2>2, <3>1
    <3>3. /\ Append(q, m) \in Seq(Sayings) /\ Len(Append(q, m)) = Len(q) + 1
          /\ \A i \in 1..Len(q) : Append(q, m)[i] = q[i]
          /\ Append(q, m)[Len(q) + 1] = m /\ Len(q) \in Nat
      BY <3>2
    <3>4. DOMAIN q = 1..Len(q) /\ DOMAIN Append(q, m) = 1..Len(q) + 1
      BY <3>2, <3>3
    <3> QED
      BY <2>1, <2>2, <3>1, <3>2, <3>3, <3>4 DEF Grew
  <2>3. CASE ~Gets(c)
    BY <2>1, <2>3 DEF Grew
  <2> QED
    BY <2>2, <2>3
<1> HIDE DEF Gets
<1>6. HubTypes'
  <2>1. hInbox' = [c \in Clients |-> hInbox'[c]]
    BY <1>1
  <2>2. hInbox' \in [Clients -> Seq(Sayings)]
    BY <1>5, <2>1
  <2> QED
    BY <1>1, <1>2, <2>2 DEF HubTypes
<1>7. ASSUME NEW c \in Clients PROVE (Standing(hClient[c]) /\ Told(c) /\ Empty(c) /\ Heard(c))'
  <2>1. Standing(hClient[c]) /\ Told(c) /\ Empty(c) /\ Heard(c) /\ Grew(c) /\ hClient'[c] = hClient[c]
    BY <1>1, <1>5 DEF HubInv
  <2>2. Told(c)'
    <3>1. \A type, topic : Has(c, type, topic) => Has(c, type, topic)'
      BY <2>1, HasStays
    <3> QED
      BY <1>1, <2>1, <3>1 DEF Told
  <2>3. CASE ~Gets(c)
    <3>1. News(c) = {} /\ hSeq <= hSeq' /\ hClient[c].subs \subseteq hClient'[c].subs /\ (c \in hDropped => c \in hDropped')
      BY <1>1, <1>2, <1>5, <2>3 DEF News
    <3>2. Heard(c)'
      BY <1>2, <1>6, <2>1, <3>1, HeardStays
    <3>3. Empty(c)'
      BY <1>5, <2>1, <2>3 DEF Empty
    <3> QED
      BY <2>1, <2>2, <3>2, <3>3
  <2>4. CASE Gets(c)
    <3> DEFINE N == Len(hInbox[c]) + 1
    <3>1. /\ DOMAIN hInbox[c] = 1..Len(hInbox[c]) /\ Len(hInbox[c]) \in Nat
          /\ DOMAIN hInbox'[c] = 1..N /\ hInbox'[c][N] = m
          /\ \A i \in 1..Len(hInbox[c]) : hInbox'[c][i] = hInbox[c][i]
      BY <1>5, <2>4 DEF Grew
    <3>2. \A i \in Hub!Events(c)' : i = N \/ i \in Hub!Events(c)
      BY <3>1 DEF Hub!Events
    <3>3. \A i \in Hub!Events(c) : i \in 1..Len(hInbox[c]) /\ hInbox[c][i].seq <= hSeq /\ hInbox[c][i].seq \in Nat
      <4>1. ASSUME NEW i \in Hub!Events(c) PROVE hInbox[c][i] \in Sayings
        BY <1>5, <4>1 DEF Hub!Events
      <4> QED
        BY <2>1, <3>1, <4>1 DEF Heard, EventSound, Hub!Events, Sayings
    <3>4. ASSUME NEW i \in Hub!Events(c)' PROVE EventSound(c, i)'
      <4>1. CASE i = N
        <5>1. hInbox'[c][i].seq = hSeq' /\ hInbox'[c][i].topic = t /\ hSeq' \in Nat
          BY <1>1, <1>2, <1>4, <2>4, <3>1, <4>1
        <5>2. \A k \in Hub!Events(c)' : k < i => hInbox'[c][k].seq < hInbox'[c][i].seq
          <6> SUFFICES ASSUME NEW k \in Hub!Events(c)', k < N PROVE hInbox'[c][k].seq < hSeq'
            BY <4>1, <5>1
          <6>1. k \in Hub!Events(c)
            BY <3>1, <3>2
          <6>2. hInbox'[c][k].seq <= hSeq /\ hInbox'[c][k].seq \in Nat
            BY <3>1, <3>3, <6>1
          <6> QED
            <7>1. PICK z : z = hInbox'[c][k].seq
              OBVIOUS
            <7>2. z <= hSeq /\ z \in Nat /\ hSeq' = hSeq + 1 /\ hSeq \in Nat
              BY <1>1, <1>2, <6>2, <7>1
            <7>3. z < hSeq'
              BY <7>2
            <7> QED
              BY <7>1, <7>3
        <5>3. c \notin hDropped' => Since(c, i)'
          <6> SUFFICES ASSUME c \notin hDropped' PROVE Since(c, i)'
            OBVIOUS
          <6>1. Has(c, "auth_ok", "none") /\ Has(c, "subscribed", t) /\ Has(c, "snapshot", t)
            BY <1>1, <1>3, <2>1, <2>4 DEF Told
          <6>2. \A type, topic : Has(c, type, topic) => Hub!Before(c, i, type, topic)'
            BY <3>1, <4>1 DEF Has, Hub!Before
          <6> QED
            BY <5>1, <6>1, <6>2 DEF Since
        <5> QED
          <6>1. hInbox'[c][i].seq <= hSeq' /\ hInbox'[c][i].topic \in hClient'[c].subs
            BY <1>3, <2>1, <2>4, <5>1
          <6> QED
            BY <5>2, <5>3, <6>1 DEF EventSound
      <4>2. CASE i \in Hub!Events(c)
        <5>1. EventSound(c, i) /\ i \in 1..Len(hInbox[c]) /\ hInbox'[c][i] = hInbox[c][i]
          BY <2>1, <3>1, <3>3, <4>2 DEF Heard
        <5>2. \A k \in Hub!Events(c)' : k < i => hInbox'[c][k].seq < hInbox'[c][i].seq
          <6> SUFFICES ASSUME NEW k \in Hub!Events(c)', k < i PROVE hInbox'[c][k].seq < hInbox'[c][i].seq
            OBVIOUS
          <6>1. k # N
            BY <3>1, <5>1
          <6>2. k \in Hub!Events(c)
            BY <3>2, <6>1
          <6> QED
            BY <3>1, <3>3, <5>1, <6>2 DEF EventSound
        <5>3. c \notin hDropped' => Since(c, i)'
          BY <1>1, <1>2, <1>6, <2>1, <3>1, <5>1, SinceStays DEF EventSound
        <5>4. hInbox'[c][i].seq <= hSeq'
          BY <1>1, <1>2, <3>3, <4>2, <5>1
        <5> QED
          BY <2>1, <5>1, <5>2, <5>3, <5>4 DEF EventSound
      <4> QED
        BY <3>2, <4>1, <4>2
    <3>5. Heard(c)'
      BY <3>4 DEF Heard
    <3>6. Empty(c)'
      BY <1>1, <2>4 DEF Empty, Gets
    <3> QED
      BY <2>1, <2>2, <3>5, <3>6
  <2> QED
    BY <2>3, <2>4
<1> QED
  BY <1>6, <1>7, HubTogether

LEMMA HubStep == HubInv /\ [Hub!Next]_HubVars => HubInv'
<1> SUFFICES ASSUME HubInv, [Hub!Next]_HubVars PROVE HubInv'
  OBVIOUS
<1>1. CASE Hub!Next
  <2>1. ASSUME NEW c \in Clients, Hub!FallSilent(c) PROVE HubInv'
    BY <2>1, EvictionSteps DEF Hub!FallSilent
  <2> QED
    BY <1>1, <2>1, HubConnectStep, QuietSteps, AuthStep, SubscribeStep, PublishStep, EvictionSteps DEF Hub!Next
<1>2. CASE UNCHANGED HubVars
  BY <1>2, EvictionSteps DEF HubVars
<1> QED
  BY <1>1, <1>2

LEMMA HubIsSafe == HubInv => Hub!HubSafe
<1> SUFFICES ASSUME HubInv, NEW c \in Clients
             PROVE  /\ \A i \in Hub!Events(c) :
                           /\ \A k \in Hub!Events(c) : k < i => hInbox[c][k].seq < hInbox[c][i].seq
                           /\ c \notin hDropped => Since(c, i)
                           /\ hInbox[c][i].topic \in hClient[c].subs
                    /\ hClient[c].registered => hClient[c].socket # "gone"
                    /\ hClient[c].socket = "open" => hClient[c].registered
                    /\ hClient[c].timer => hClient[c].registered /\ ~hClient[c].authenticated
  BY DEF Hub!HubSafe, Since
<1>1. Heard(c) /\ Standing(hClient[c])
  BY DEF HubInv
<1> QED
  BY <1>1 DEF Heard, EventSound, Standing

\* The numbers of the events stay below their bound.
HubCounted == hSeq \in 0..MaxSeq

LEMMA HubCounts == (Init => HubCounted) /\ (HubCounted /\ [Hub!Next]_HubVars => HubCounted')
<1> USE RuntimeAssumption
<1>1. Init => HubCounted
  BY DEF Init, Hub!Init, HubCounted
<1>2. ASSUME HubCounted, [Hub!Next]_HubVars PROVE HubCounted'
  <2>1. CASE UNCHANGED HubVars
    BY <1>2, <2>1 DEF HubVars, HubCounted
  <2>2. ASSUME NEW c, Hub!Connect(c) \/ Hub!AuthTimeout(c) \/ Hub!Auth(c) \/ Hub!AuthFails(c) \/ \E t \in Topics : Hub!Subscribe(c, t)
        PROVE  hSeq' = hSeq
    BY <2>2 DEF Hub!Connect, Hub!AuthTimeout, Hub!Auth, Hub!AuthFails, Hub!Subscribe
  <2>3. ASSUME NEW c, Hub!Pong(c) \/ Hub!PeerCloses(c) \/ Hub!CloseEvent(c) \/ Hub!Buffer(c) \/ Hub!FallSilent(c)
        PROVE  hSeq' = hSeq
    BY <2>3 DEF Hub!Pong, Hub!PeerCloses, Hub!CloseEvent, Hub!Buffer, Hub!FallSilent
  <2>4. Hub!RunHeartbeat \/ Hub!Stop => hSeq' = hSeq
    BY DEF Hub!RunHeartbeat, Hub!Stop
  <2>5. ASSUME NEW t, Hub!Publish(t) PROVE hSeq < MaxSeq /\ hSeq' = hSeq + 1
    BY <2>5 DEF Hub!Publish
  <2>6. hSeq' = hSeq \/ (hSeq < MaxSeq /\ hSeq' = hSeq + 1)
    BY <1>2, <2>1, <2>2, <2>3, <2>4, <2>5 DEF Hub!Next, HubVars
  <2> QED
    BY <1>2, <2>6 DEF HubCounted
<1> QED
  BY <1>1, <1>2

LEMMA HubTyped == HubInv /\ HubCounted => Hub!TypeOK
BY DEF HubInv, HubTypes, HubCounted, Peers, Hub!TypeOK

(***************************************************************************)
(* The browser.                                                             *)
(***************************************************************************)

Shots == [id : Nat, page : Nat]
Uses == [at : {"none", "launch", "context", "new page", "page", "close"}, op : {"none", "work", "capture", "click"},
         own : Nat, want : Nat, snap : Shots]
Pending == {"context", "new page"}
BrowserTypes ==
    /\ bLaunched \in Nat /\ bCaptured \in Nat
    /\ bBrowser \in 0..bLaunched /\ bPage \in 0..bLaunched /\ bOpen \subseteq 1..bLaunched
    /\ bSnapshots \in Seq(Shots)
    /\ bCall \in [Slots -> Uses]
    /\ bTangled \in BOOLEAN /\ bBroken \in BOOLEAN

\* The last snapshots are kept, under the numbers they got.
Shown == /\ \A i \in DOMAIN bSnapshots : bSnapshots[i].id = bCaptured - Len(bSnapshots) + i
         /\ Len(bSnapshots) <= SNAPSHOT_CONTEXT_LIMIT

\* A use that is in a browser, and one that names a snapshot.
Owned(r) == r.at \in Pending \cup {"page", "close"} => r.own \in 1..bLaunched
Wanted(r) == /\ r.op # "click" => r.want = 0
             /\ r.at = "page" /\ r.want # 0 => r.snap.id = r.want

\* As long as no first requests and no closes overlapped, all state is of one browser.
Whole == /\ bOpen \subseteq {bBrowser}
         /\ bBrowser # 0 /\ bPage = 0 => bBroken \/ \E c \in Slots : bCall[c].at \in Pending
         /\ bPage # 0 => bPage = bBrowser
         /\ bPage = 0 => bSnapshots = <<>>
         /\ \A i \in DOMAIN bSnapshots : bSnapshots[i].page = bPage
UseFits(r) == /\ r.at = "launch" => bBrowser = 0
              /\ r.at = "close" => bBrowser # 0 /\ r.own = bBrowser
              /\ r.at \in Pending /\ r.own = bBrowser => bPage = 0
              /\ r.at = "page" /\ r.own = bBrowser => bPage = r.own
              /\ r.at = "page" /\ r.op = "click" => r.snap.page = r.own
\* Two uses launch, close or set up one browser one after the other.
Apart(r, s) == /\ ~(r.at = "launch" /\ s.at = "launch")
               /\ ~(r.at = "close" /\ s.at = "close")
               /\ r.at \in Pending /\ s.at \in Pending => r.own # s.own
Untangled == /\ Whole
             /\ \A c \in Slots : UseFits(bCall[c])
             /\ \A c, d \in Slots : c # d => Apart(bCall[c], bCall[d])

BrowserInv == /\ BrowserTypes /\ Shown
              /\ \A c \in Slots : Owned(bCall[c]) /\ Wanted(bCall[c])
              /\ ~bTangled => Untangled

LEMMA NoCallFacts ==
    /\ Browser!NoCall \in Uses /\ Browser!NoCall.at = "none" /\ Browser!NoCall.op = "none" /\ Browser!NoCall.own = 0
    /\ Browser!NoCall.want = 0 /\ Browser!NoCall.snap \in Shots
    /\ Owned(Browser!NoCall) /\ Wanted(Browser!NoCall) /\ UseFits(Browser!NoCall)
    /\ \A s : Apart(Browser!NoCall, s) /\ Apart(s, Browser!NoCall)
BY DEF Browser!NoCall, Uses, Shots, Owned, Wanted, UseFits, Apart, Pending

LEMMA BrowserInitially == Init => BrowserInv
<1> SUFFICES ASSUME Browser!Init PROVE BrowserInv
  BY DEF Init
<1>1. /\ bBrowser = 0 /\ bPage = 0 /\ bOpen = {} /\ bSnapshots = <<>> /\ bLaunched = 0 /\ bCaptured = 0
      /\ bCall = [c \in Slots |-> Browser!NoCall] /\ bTangled = FALSE /\ bBroken = FALSE
  BY DEF Browser!Init
<1>2. BrowserTypes
  <2>1. 0 \in Nat /\ 0 \in 0..0 /\ {} \subseteq 1..0 /\ <<>> \in Seq(Shots)
    OBVIOUS
  <2>2. bCall \in [Slots -> Uses]
    BY <1>1, NoCallFacts
  <2> QED
    BY <1>1, <2>1, <2>2 DEF BrowserTypes
<1>3. Shown
  BY <1>1, RuntimeAssumption DEF Shown
<1>4. \A c \in Slots : Owned(bCall[c]) /\ Wanted(bCall[c]) /\ UseFits(bCall[c])
  BY <1>1, NoCallFacts
<1>5. \A c, d \in Slots : Apart(bCall[c], bCall[d])
  BY <1>1, NoCallFacts
<1>6. Whole
  BY <1>1 DEF Whole
<1> QED
  BY <1>2, <1>3, <1>4, <1>5, <1>6 DEF BrowserInv, Untangled

\* A step in which the use of c becomes r: what has to be seen of the rest.
LEMMA UseStep ==
    ASSUME BrowserInv, NEW c \in Slots, NEW r \in Uses, bCall' = [bCall EXCEPT ![c] = r],
           bLaunched' \in Nat, bLaunched <= bLaunched', bCaptured' \in Nat,
           bBrowser' \in 0..bLaunched', bPage' \in 0..bLaunched', bOpen' \subseteq 1..bLaunched',
           bSnapshots' \in Seq(Shots), bTangled' \in BOOLEAN, bBroken' \in BOOLEAN, Shown',
           Wanted(r), r.at \in Pending \cup {"page", "close"} => r.own \in 1..bLaunched',
           bTangled => bTangled',
           ~bTangled' /\ Untangled => /\ Whole'
                                      /\ UseFits(bCall[c])'
                                      /\ \A d \in Slots \ {c} : UseFits(bCall[d])' /\ Apart(bCall[d], r)
    PROVE  BrowserInv'
<1>1. BrowserTypes
  BY DEF BrowserInv
<1>2. bCall' \in [Slots -> Uses] /\ bCall'[c] = r /\ \A d \in Slots \ {c} : bCall'[d] = bCall[d]
  BY <1>1 DEF BrowserTypes
<1>3. BrowserTypes'
  BY <1>2 DEF BrowserTypes
<1>4. ASSUME NEW d \in Slots PROVE Owned(bCall[d])' /\ Wanted(bCall[d])'
  <2>1. CASE d = c
    BY <1>2, <2>1 DEF Owned, Wanted
  <2>2. CASE d # c
    <3>1. Owned(bCall[d]) /\ Wanted(bCall[d]) /\ bCall'[d] = bCall[d]
      BY <1>2, <2>2 DEF BrowserInv
    <3>2. \A n : n \in 1..bLaunched => n \in 1..bLaunched'
      BY <1>1 DEF BrowserTypes
    <3> QED
      BY <3>1, <3>2 DEF Owned, Wanted
  <2> QED
    BY <2>1, <2>2
<1>5. ASSUME ~bTangled' PROVE Untangled'
  <2>1. Untangled
    BY <1>5 DEF BrowserInv
  <2>2. /\ Whole' /\ \A d \in Slots : UseFits(bCall[d])'
        /\ \A d \in Slots \ {c} : Apart(bCall[d], r)
    BY <1>5, <2>1
  <2>3. ASSUME NEW d \in Slots, NEW e \in Slots, d # e PROVE Apart(bCall'[d], bCall'[e])
    <3>1. CASE d = c
      BY <1>2, <2>2, <2>3, <3>1 DEF Apart
    <3>2. CASE e = c
      BY <1>2, <2>2, <2>3, <3>2
    <3>3. CASE d # c /\ e # c
      BY <1>2, <2>1, <2>3, <3>3 DEF Untangled
    <3> QED
      BY <3>1, <3>2, <3>3
  <2>4. (\A d \in Slots : UseFits(bCall[d]))' /\ (\A d, e \in Slots : d # e => Apart(bCall[d], bCall[e]))'
    BY <2>2, <2>3
  <2> QED
    BY <2>2, <2>4 DEF Untangled
<1>6. (\A d \in Slots : Owned(bCall[d]) /\ Wanted(bCall[d]))'
  BY <1>4
<1> QED
  BY <1>3, <1>5, <1>6 DEF BrowserInv

\* A step that leaves the browser and the snapshots alone.
LEMMA OnlyUse ==
    ASSUME BrowserInv, NEW c \in Slots, NEW r \in Uses, bCall' = [bCall EXCEPT ![c] = r],
           UNCHANGED <<bBrowser, bPage, bOpen, bSnapshots, bLaunched, bCaptured>>,
           bTangled' \in BOOLEAN, bTangled => bTangled', bBroken' \in BOOLEAN, bBroken => bBroken',
           Wanted(r), Owned(r), bCall[c].at \in Pending => r.at \in Pending \/ bBroken',
           ~bTangled' /\ Untangled => UseFits(r) /\ \A d \in Slots \ {c} : Apart(bCall[d], r)
    PROVE  BrowserInv'
<1>1. BrowserTypes /\ Shown
  BY DEF BrowserInv
<1>2. bCall'[c] = r /\ \A d \in Slots \ {c} : bCall'[d] = bCall[d]
  BY <1>1 DEF BrowserTypes
<1>3. Shown'
  BY <1>1 DEF Shown
<1>4. ASSUME ~bTangled', Untangled
      PROVE  /\ Whole' /\ UseFits(bCall[c])'
             /\ \A d \in Slots \ {c} : UseFits(bCall[d])' /\ Apart(bCall[d], r)
  <2>1. Whole'
    <3>1. ASSUME NEW d \in Slots, bCall[d].at \in Pending PROVE bBroken' \/ \E e \in Slots : bCall'[e].at \in Pending
      BY <1>2, <3>1
    <3> QED
      BY <1>4, <3>1 DEF Untangled, Whole
  <2>2. UseFits(bCall[c])'
    BY <1>2, <1>4 DEF UseFits
  <2>3. \A d \in Slots \ {c} : UseFits(bCall[d])'
    BY <1>2, <1>4 DEF Untangled, UseFits
  <2> QED
    BY <1>4, <2>1, <2>2, <2>3
<1>5. /\ bLaunched' \in Nat /\ bLaunched <= bLaunched' /\ bCaptured' \in Nat
      /\ bBrowser' \in 0..bLaunched' /\ bPage' \in 0..bLaunched' /\ bOpen' \subseteq 1..bLaunched'
      /\ bSnapshots' \in Seq(Shots)
  BY <1>1 DEF BrowserTypes
<1>6. r.at \in Pending \cup {"page", "close"} => r.own \in 1..bLaunched'
  BY DEF Owned
<1> QED
  BY <1>3, <1>4, <1>5, <1>6, UseStep

\* What is asked of page p: a click means one of the snapshots that are kept.
LEMMA AskedFacts ==
    ASSUME BrowserTypes, NEW op \in {"work", "capture", "click"}, NEW want \in Nat, op # "click" => want = 0, NEW p \in Nat,
           NEW r, r = Browser!Asked(op, want, p)
    PROVE  /\ r \in Uses /\ Wanted(r) /\ r.at \in {"none", "page"}
           /\ r.at = "page" => r.own = p
           /\ r.at = "page" /\ r.op = "click" => \E i \in DOMAIN bSnapshots : r.snap = bSnapshots[i]
<1>1. bSnapshots \in Seq(Shots) /\ DOMAIN bSnapshots = 1..Len(bSnapshots) /\ Len(bSnapshots) \in Nat
  BY DEF BrowserTypes
<1>2. CASE op = "click" /\ Browser!Meant(want) = {}
  BY <1>2, NoCallFacts DEF Browser!Asked
<1>3. CASE op = "click" /\ Browser!Meant(want) # {}
  <2>1. PICK s : s \in Browser!Meant(want) /\ r = [at |-> "page", op |-> op, own |-> p, want |-> want, snap |-> s]
    <3>1. PICK s : s = CHOOSE z \in Browser!Meant(want) : TRUE
      OBVIOUS
    <3>2. s \in Browser!Meant(want)
      BY <1>3, <3>1
    <3>3. r = [at |-> "page", op |-> op, own |-> p, want |-> want, snap |-> s]
      BY <1>3, <3>1 DEF Browser!Asked
    <3> QED
      BY <3>2, <3>3
  <2>2. (\E i \in DOMAIN bSnapshots : s = bSnapshots[i]) /\ (want # 0 => s.id = want)
    <3>1. CASE want = 0
      <4>1. bSnapshots # <<>> /\ s = bSnapshots[Len(bSnapshots)]
        BY <2>1, <3>1 DEF Browser!Meant, Browser!Last
      <4>2. Len(bSnapshots) \in DOMAIN bSnapshots
        BY <1>1, <4>1
      <4> QED
        BY <3>1, <4>1, <4>2
    <3>2. CASE want # 0
      BY <2>1, <3>2 DEF Browser!Meant, Browser!ToSet
    <3> QED
      BY <3>1, <3>2
  <2>3. s \in Shots
    BY <1>1, <2>2
  <2>4. r \in Uses /\ r.at = "page" /\ r.own = p /\ r.op = "click" /\ r.want = want /\ r.snap = s
    <3>1. r.at = "page" /\ r.own = p /\ r.op = "click" /\ r.want = want /\ r.snap = s
      BY <1>3, <2>1
    <3>2. [at |-> "page", op |-> op, own |-> p, want |-> want, snap |-> s] \in Uses
      BY <2>3 DEF Uses
    <3> QED
      BY <2>1, <3>1, <3>2
  <2> QED
    BY <2>2, <2>4 DEF Wanted
<1>4. CASE op # "click"
  <2>1. r = [at |-> "page", op |-> op, own |-> p, want |-> want, snap |-> Browser!NoCall.snap]
    BY <1>4 DEF Browser!Asked
  <2>2. r \in Uses /\ r.at = "page" /\ r.own = p /\ r.op = op /\ r.want = 0
    <3>1. r.at = "page" /\ r.own = p /\ r.op = op /\ r.want = 0
      BY <1>4, <2>1
    <3>2. [at |-> "page", op |-> op, own |-> p, want |-> want, snap |-> Browser!NoCall.snap] \in Uses
      <4>1. Browser!NoCall.snap \in Shots
        BY NoCallFacts
      <4> QED
        BY <4>1 DEF Uses
    <3> QED
      BY <2>1, <3>1, <3>2
  <2> QED
    BY <1>4, <2>2 DEF Wanted
<1> QED
  BY <1>2, <1>3, <1>4

\* A method of the service in a step that leaves the browser and the snapshots alone.
LEMMA MethodStep ==
    ASSUME BrowserInv, NEW c \in Slots, NEW op \in {"work", "capture", "click"}, NEW want \in Nat,
           op # "click" => want = 0, Browser!Method(c, op, want),
           UNCHANGED <<bBrowser, bPage, bOpen, bSnapshots, bLaunched, bCaptured, bBroken>>, bCall[c].at \notin Pending
    PROVE  BrowserInv'
<1>1. BrowserTypes
  BY DEF BrowserInv
<1>2. bBroken' \in BOOLEAN /\ (bBroken => bBroken')
  BY <1>1 DEF BrowserTypes
<1>3. CASE bPage # 0
  <2>1. PICK r : r = Browser!Asked(op, want, bPage)
    OBVIOUS
  <2>2. bCall' = [bCall EXCEPT ![c] = r] /\ bTangled' = bTangled
    BY <1>3, <2>1 DEF Browser!Method, Browser!Step
  <2>3. /\ r \in Uses /\ Wanted(r) /\ r.at \in {"none", "page"}
        /\ r.at = "page" => r.own = bPage
        /\ r.at = "page" /\ r.op = "click" => \E i \in DOMAIN bSnapshots : r.snap = bSnapshots[i]
    <3>1. bPage \in Nat
      BY <1>1 DEF BrowserTypes
    <3> QED
      BY <1>1, <2>1, <3>1, AskedFacts
  <2>4. Owned(r)
    <3>1. bPage \in 1..bLaunched
      BY <1>1, <1>3 DEF BrowserTypes
    <3> QED
      BY <2>3, <3>1 DEF Owned, Pending
  <2>5. ASSUME Untangled PROVE UseFits(r) /\ \A d \in Slots \ {c} : Apart(bCall[d], r)
    <3>1. r.at = "page" /\ r.op = "click" => r.snap.page = r.own
      BY <2>3, <2>5 DEF Untangled, Whole
    <3> QED
      BY <2>3, <3>1 DEF UseFits, Apart, Pending
  <2> QED
    BY <1>1, <1>2, <2>2, <2>3, <2>4, <2>5, OnlyUse DEF BrowserTypes
<1>4. CASE bPage = 0 /\ bBrowser # 0
  <2>1. bCall' = [bCall EXCEPT ![c] = Browser!NoCall] /\ bTangled' = bTangled
    BY <1>4 DEF Browser!Method, Browser!Over, Browser!Step
  <2>2. bTangled' \in BOOLEAN /\ (bTangled => bTangled')
    BY <1>1, <2>1 DEF BrowserTypes
  <2> QED
    BY <1>2, <2>1, <2>2, NoCallFacts, OnlyUse
<1>5. CASE bPage = 0 /\ bBrowser = 0
  <2> DEFINE r == [Browser!NoCall EXCEPT !.at = "launch", !.op = op, !.want = want]
  <2>1. /\ bCall' = [bCall EXCEPT ![c] = r]
        /\ bTangled' = (bTangled \/ {d \in Slots : bCall[d].at = "launch"} \ {c} # {})
    BY <1>5 DEF Browser!Method, Browser!Step, Browser!At
  <2>2. r \in Uses /\ r.at = "launch" /\ r.op = op /\ r.want = want
    BY NoCallFacts DEF Uses, Browser!NoCall
  <2> HIDE DEF r
  <2>3. Owned(r) /\ Wanted(r) /\ UseFits(r)
    BY <1>5, <2>2 DEF Owned, Wanted, UseFits, Pending
  <2>4. ASSUME ~bTangled' PROVE \A d \in Slots \ {c} : Apart(bCall[d], r)
    BY <2>1, <2>2, <2>4 DEF Apart, Pending
  <2>5. bTangled' \in BOOLEAN /\ (bTangled => bTangled')
    BY <1>1, <2>1 DEF BrowserTypes
  <2> QED
    BY <1>2, <2>1, <2>2, <2>3, <2>4, <2>5, OnlyUse
<1> QED
  BY <1>3, <1>4, <1>5

\* A use ends, and leaves the browser and the snapshots alone.
LEMMA OverStep ==
    ASSUME BrowserInv, NEW c \in Slots, Browser!Over(c), bBroken' \in BOOLEAN, bBroken => bBroken',
           UNCHANGED <<bBrowser, bPage, bOpen, bSnapshots, bLaunched, bCaptured, bTangled>>,
           bCall[c].at \in Pending => bBroken'
    PROVE  BrowserInv'
<1>1. bCall' = [bCall EXCEPT ![c] = Browser!NoCall] /\ bTangled' \in BOOLEAN /\ (bTangled => bTangled')
  BY DEF Browser!Over, Browser!Step, BrowserInv, BrowserTypes
<1> QED
  BY <1>1, NoCallFacts, OnlyUse

LEMMA UseBegins == ASSUME BrowserInv, NEW c \in Slots, Browser!Begin(c) \/ Browser!Works(c) PROVE BrowserInv'
<1>1. UNCHANGED <<bBrowser, bPage, bOpen, bSnapshots, bLaunched, bCaptured, bBroken>> /\ bCall[c].at \notin Pending
  BY NoCallFacts DEF Browser!Begin, Browser!Works, Browser!KeepBrowser, Pending
<1>2. bBroken' \in BOOLEAN /\ bCaptured \in Nat
  BY <1>1 DEF BrowserInv, BrowserTypes
<1>3. CASE Browser!Method(c, "work", 0) \/ Browser!Method(c, "capture", 0)
  BY <1>1, <1>3, MethodStep
<1>4. CASE \E want \in 0..bCaptured : Browser!Method(c, "click", want)
  BY <1>1, <1>2, <1>4, MethodStep
<1>5. CASE Browser!Over(c) /\ UNCHANGED bTangled
  BY <1>1, <1>2, <1>5, OverStep
<1> QED
  BY <1>3, <1>4, <1>5 DEF Browser!Begin, Browser!Works

LEMMA ClickStep == ASSUME BrowserInv, NEW c \in Slots, Browser!Click(c) PROVE BrowserInv'
<1>1. /\ UNCHANGED <<bBrowser, bPage, bOpen, bSnapshots, bLaunched, bCaptured, bBroken, bTangled>>
      /\ bCall[c].at \notin Pending /\ Browser!Over(c) /\ bBroken' \in BOOLEAN
  BY DEF Browser!Click, Browser!KeepBrowser, Pending, BrowserInv, BrowserTypes
<1> QED
  BY <1>1, OverStep

LEMMA FailsStep == ASSUME BrowserInv, NEW c \in Slots, Browser!Fails(c) PROVE BrowserInv'
<1>1. /\ UNCHANGED <<bBrowser, bPage, bOpen, bSnapshots, bLaunched, bCaptured, bTangled>> /\ Browser!Over(c)
      /\ bBroken' = (bBroken \/ bCall[c].at \in {"context", "new page"})
  BY DEF Browser!Fails
<1>2. bBroken' \in BOOLEAN /\ (bBroken => bBroken') /\ (bCall[c].at \in Pending => bBroken')
  BY <1>1 DEF Pending, BrowserInv, BrowserTypes
<1> QED
  BY <1>1, <1>2, OverStep

LEMMA NewContextStep == ASSUME BrowserInv, NEW c \in Slots, Browser!NewContext(c) PROVE BrowserInv'
<1> DEFINE r == [bCall[c] EXCEPT !.at = "new page"]
<1>1. /\ UNCHANGED <<bBrowser, bPage, bOpen, bSnapshots, bLaunched, bCaptured, bBroken, bTangled>>
      /\ bCall[c].at = "context" /\ bCall' = [bCall EXCEPT ![c] = r]
  BY DEF Browser!NewContext, Browser!Step, Browser!KeepBrowser
<1>2. bCall[c] \in Uses /\ Owned(bCall[c]) /\ Wanted(bCall[c])
  BY DEF BrowserInv, BrowserTypes
<1>3. /\ r \in Uses /\ r.at = "new page" /\ r.own = bCall[c].own /\ r.op = bCall[c].op /\ r.want = bCall[c].want
  BY <1>2 DEF Uses
<1> HIDE DEF r
<1>4. Wanted(r) /\ Owned(r) /\ r.at \in Pending
  BY <1>1, <1>2, <1>3 DEF Owned, Wanted, Pending
<1>5. ASSUME Untangled PROVE UseFits(r) /\ \A d \in Slots \ {c} : Apart(bCall[d], r)
  <2>1. UseFits(bCall[c]) /\ \A d \in Slots \ {c} : Apart(bCall[d], bCall[c])
    BY <1>5 DEF Untangled
  <2> QED
    BY <1>1, <1>3, <2>1 DEF UseFits, Apart, Pending
<1>6. bTangled' \in BOOLEAN /\ (bTangled => bTangled') /\ bBroken' \in BOOLEAN /\ (bBroken => bBroken')
  BY <1>1 DEF BrowserInv, BrowserTypes
<1> QED
  BY <1>1, <1>3, <1>4, <1>5, <1>6, OnlyUse

LEMMA CloseStep == ASSUME BrowserInv, NEW c \in Slots, Browser!Close(c) PROVE BrowserInv'
<1> DEFINE r == [Browser!NoCall EXCEPT !.at = "close", !.own = bBrowser]
<1>1. /\ UNCHANGED <<bBrowser, bPage, bOpen, bSnapshots, bLaunched, bCaptured, bBroken>>
      /\ bCall[c].at \notin Pending /\ bBrowser # 0 /\ bCall' = [bCall EXCEPT ![c] = r]
      /\ bTangled' = (bTangled \/ {d \in Slots : bCall[d].at = "close"} # {})
  BY NoCallFacts DEF Browser!Close, Browser!Step, Browser!KeepBrowser, Browser!At, Pending
<1>2. bBrowser \in 1..bLaunched /\ bBrowser \in Nat
  BY <1>1 DEF BrowserInv, BrowserTypes
<1>3. r \in Uses /\ r.at = "close" /\ r.own = bBrowser /\ r.want = 0
  BY <1>2, NoCallFacts DEF Uses, Browser!NoCall
<1> HIDE DEF r
<1>4. Wanted(r) /\ Owned(r) /\ UseFits(r)
  BY <1>1, <1>2, <1>3 DEF Owned, Wanted, UseFits, Pending
<1>5. ASSUME ~bTangled' PROVE \A d \in Slots \ {c} : Apart(bCall[d], r)
  BY <1>1, <1>3, <1>5 DEF Apart, Pending
<1>6. bTangled' \in BOOLEAN /\ (bTangled => bTangled') /\ bBroken' \in BOOLEAN /\ (bBroken => bBroken')
  BY <1>1 DEF BrowserInv, BrowserTypes
<1> QED
  BY <1>1, <1>3, <1>4, <1>5, <1>6, OnlyUse

LEMMA LaunchStep == ASSUME BrowserInv, NEW c \in Slots, Browser!Launch(c) PROVE BrowserInv'
<1> DEFINE n == bLaunched + 1
           r == [bCall[c] EXCEPT !.at = "context", !.own = n]
<1>1. /\ bCall[c].at = "launch" /\ bLaunched' = n /\ bBrowser' = n /\ bOpen' = bOpen \cup {n}
      /\ bCall' = [bCall EXCEPT ![c] = r]
      /\ UNCHANGED <<bPage, bSnapshots, bCaptured, bTangled, bBroken>>
  BY DEF Browser!Launch, Browser!Step
<1>2. BrowserTypes /\ bCall[c] \in Uses /\ Wanted(bCall[c])
  BY DEF BrowserInv, BrowserTypes
<1>3. r \in Uses /\ r.at = "context" /\ r.own = n /\ r.op = bCall[c].op /\ r.want = bCall[c].want /\ n \in Nat
  <2>1. n \in Nat
    BY <1>2 DEF BrowserTypes
  <2> HIDE DEF n
  <2> QED
    BY <1>2, <2>1 DEF Uses
<1> HIDE DEF r
<1>4. bCall'[c] = r /\ \A d \in Slots \ {c} : bCall'[d] = bCall[d]
  BY <1>1, <1>2 DEF BrowserTypes
<1>5. Wanted(r)
  BY <1>2, <1>3 DEF Wanted
<1>6. /\ bLaunched' \in Nat /\ bLaunched <= bLaunched' /\ bCaptured' \in Nat
      /\ bBrowser' \in 0..bLaunched' /\ bPage' \in 0..bLaunched' /\ bOpen' \subseteq 1..bLaunched'
      /\ bSnapshots' \in Seq(Shots) /\ bTangled' \in BOOLEAN /\ bBroken' \in BOOLEAN
      /\ n \in 1..bLaunched'
  BY <1>1, <1>2 DEF BrowserTypes
<1>7. Shown'
  BY <1>1 DEF BrowserInv, Shown
<1>8. ASSUME Untangled
      PROVE  /\ Whole' /\ UseFits(bCall[c])'
             /\ \A d \in Slots \ {c} : UseFits(bCall[d])' /\ Apart(bCall[d], r)
  <2>1. Whole /\ UseFits(bCall[c]) /\ bBrowser = 0
    BY <1>1, <1>8 DEF Untangled, UseFits
  <2>2. bOpen = {} /\ bPage = 0 /\ bSnapshots = <<>>
    BY <1>2, <2>1 DEF BrowserTypes, Whole
  <2>3. Whole'
    <3>1. bOpen' = {n} /\ bBrowser' = n /\ bPage' = 0 /\ bSnapshots' = <<>> /\ DOMAIN <<>> = {}
      BY <1>1, <2>2
    <3>2. bCall'[c].at \in Pending
      BY <1>3, <1>4 DEF Pending
    <3> QED
      BY <3>1, <3>2 DEF Whole
  <2>4. UseFits(bCall[c])'
    BY <1>1, <1>3, <1>4, <2>2 DEF UseFits, Pending
  <2>5. ASSUME NEW d \in Slots, d # c PROVE UseFits(bCall[d])' /\ Apart(bCall[d], r)
    <3>1. UseFits(bCall[d]) /\ Apart(bCall[d], bCall[c]) /\ Owned(bCall[d]) /\ bCall'[d] = bCall[d]
      BY <1>4, <1>8, <2>5 DEF Untangled, BrowserInv
    <3>2. bCall[d].at # "launch" /\ bCall[d].at # "close"
      BY <1>1, <2>1, <3>1 DEF Apart, UseFits
    <3>3. bCall[d].at \in Pending \cup {"page"} => bCall[d].own # n
      BY <1>2, <3>1 DEF Owned, BrowserTypes
    <3>4. UseFits(bCall[d])'
      BY <1>1, <3>1, <3>2, <3>3 DEF UseFits
    <3> QED
      BY <1>3, <3>2, <3>3, <3>4 DEF Apart, Pending
  <2> QED
    BY <2>3, <2>4, <2>5
<1>9. r.at \in Pending \cup {"page", "close"} => r.own \in 1..bLaunched'
  BY <1>3, <1>6
<1> QED
  BY <1>1, <1>3, <1>5, <1>6, <1>7, <1>8, <1>9, UseStep

LEMMA NewPageStep == ASSUME BrowserInv, NEW c \in Slots, Browser!NewPage(c) PROVE BrowserInv'
<1> DEFINE p == bCall[c].own
<1>1. PICK r : r = Browser!Asked(bCall[c].op, bCall[c].want, p)
  OBVIOUS
<1>2. /\ bCall[c].at = "new page" /\ p \in bOpen /\ bPage' = p
      /\ bCall' = [bCall EXCEPT ![c] = r]
      /\ UNCHANGED <<bBrowser, bOpen, bSnapshots, bLaunched, bCaptured, bTangled, bBroken>>
  BY <1>1 DEF Browser!NewPage, Browser!Step
<1>3. BrowserTypes /\ bCall[c] \in Uses /\ Wanted(bCall[c]) /\ p \in 1..bLaunched
  BY <1>2 DEF BrowserInv, BrowserTypes
<1>4. /\ r \in Uses /\ Wanted(r) /\ r.at \in {"none", "page"}
      /\ r.at = "page" => r.own = p
      /\ r.at = "page" /\ r.op = "click" => \E i \in DOMAIN bSnapshots : r.snap = bSnapshots[i]
  <2>1. bCall[c].want \in Nat /\ p \in Nat /\ (bCall[c].op # "click" => bCall[c].want = 0)
    BY <1>3 DEF Uses, Wanted
  <2>2. CASE bCall[c].op \in {"work", "capture", "click"}
    BY <1>1, <1>3, <2>1, <2>2, AskedFacts
  <2>3. CASE bCall[c].op = "none"
    <3>1. r = [at |-> "page", op |-> "none", own |-> p, want |-> 0, snap |-> Browser!NoCall.snap]
      BY <1>1, <2>1, <2>3 DEF Browser!Asked
    <3>2. [at |-> "page", op |-> "none", own |-> p, want |-> 0, snap |-> Browser!NoCall.snap] \in Uses
      <4>1. Browser!NoCall.snap \in Shots
        BY NoCallFacts
      <4> QED
        BY <2>1, <4>1 DEF Uses
    <3> QED
      BY <3>1, <3>2 DEF Wanted
  <2> QED
    BY <1>3, <2>2, <2>3 DEF Uses
<1>5. bCall'[c] = r /\ \A d \in Slots \ {c} : bCall'[d] = bCall[d]
  BY <1>2, <1>3 DEF BrowserTypes
<1>6. /\ bLaunched' \in Nat /\ bLaunched <= bLaunched' /\ bCaptured' \in Nat
      /\ bBrowser' \in 0..bLaunched' /\ bPage' \in 0..bLaunched' /\ bOpen' \subseteq 1..bLaunched'
      /\ bSnapshots' \in Seq(Shots) /\ bTangled' \in BOOLEAN /\ bBroken' \in BOOLEAN
  <2>1. /\ bLaunched' = bLaunched /\ bLaunched \in Nat /\ bCaptured' = bCaptured /\ bCaptured \in Nat
        /\ bBrowser' = bBrowser /\ bBrowser \in 0..bLaunched /\ bPage' \in 1..bLaunched
        /\ bOpen' = bOpen /\ bOpen \subseteq 1..bLaunched /\ bSnapshots' = bSnapshots /\ bSnapshots \in Seq(Shots)
    BY <1>2, <1>3 DEF BrowserTypes
  <2>2. bTangled' \in BOOLEAN /\ bBroken' \in BOOLEAN
    BY <1>2, <1>3 DEF BrowserTypes
  <2>3. bPage' \in 0..bLaunched
    BY <2>1
  <2> QED
    BY <2>1, <2>2, <2>3
<1>7. Shown'
  BY <1>2 DEF BrowserInv, Shown
<1>8. r.at \in Pending \cup {"page", "close"} => r.own \in 1..bLaunched'
  BY <1>2, <1>3, <1>4 DEF Pending
<1>9. ASSUME Untangled
      PROVE  /\ Whole' /\ UseFits(bCall[c])'
             /\ \A d \in Slots \ {c} : UseFits(bCall[d])' /\ Apart(bCall[d], r)
  <2>1. Whole /\ UseFits(bCall[c]) /\ p = bBrowser /\ p # 0
    <3>1. Whole /\ UseFits(bCall[c])
      BY <1>9 DEF Untangled
    <3>2. p = bBrowser
      BY <1>2, <3>1 DEF Whole
    <3>3. p # 0
      BY <1>3 DEF BrowserTypes
    <3> QED
      BY <3>1, <3>2, <3>3
  <2>2. bPage = 0 /\ bSnapshots = <<>>
    BY <1>2, <2>1 DEF UseFits, Whole, Pending
  <2>3. ~(r.at = "page" /\ r.op = "click")
    BY <1>4, <2>2
  <2>4. Whole'
    <3>1. DOMAIN <<>> = {}
      OBVIOUS
    <3>2. bOpen' = bOpen /\ bBrowser' = bBrowser /\ bSnapshots' = <<>> /\ bPage' = bBrowser
      BY <1>2, <2>1, <2>2
    <3> QED
      BY <2>1, <3>1, <3>2 DEF Whole
  <2>5. UseFits(bCall[c])'
    BY <1>2, <1>4, <1>5, <2>3 DEF UseFits, Pending
  <2>6. ASSUME NEW d \in Slots, d # c PROVE UseFits(bCall[d])' /\ Apart(bCall[d], r)
    <3>1. UseFits(bCall[d]) /\ Apart(bCall[d], bCall[c]) /\ bCall'[d] = bCall[d]
      BY <1>5, <1>9, <2>6 DEF Untangled
    <3>2. bCall[d].at \in Pending => bCall[d].own # bBrowser
      BY <1>2, <2>1, <3>1 DEF Apart, Pending
    <3>3. UseFits(bCall[d])'
      BY <1>2, <2>1, <3>1, <3>2 DEF UseFits
    <3> QED
      BY <1>4, <3>3 DEF Apart, Pending
  <2> QED
    BY <2>4, <2>5, <2>6
<1> QED
  BY <1>2, <1>4, <1>6, <1>7, <1>8, <1>9, UseStep

\* The oldest snapshots go.
LEMMA KeptFacts ==
    ASSUME NEW s \in Seq(Shots), Len(s) <= SNAPSHOT_CONTEXT_LIMIT + 1
    PROVE  /\ Browser!Kept(s) \in Seq(Shots) /\ Len(Browser!Kept(s)) <= SNAPSHOT_CONTEXT_LIMIT
           /\ \A i \in DOMAIN Browser!Kept(s) : /\ i + Len(s) - Len(Browser!Kept(s)) \in DOMAIN s
                                               /\ Browser!Kept(s)[i] = s[i + Len(s) - Len(Browser!Kept(s))]
<1> DEFINE L == SNAPSHOT_CONTEXT_LIMIT
           m == Len(s) - L + 1
<1>1. L \in Nat \ {0} /\ Len(s) \in Nat /\ DOMAIN s = 1..Len(s)
  BY RuntimeAssumption
<1>2. CASE Len(s) <= L
  <2>1. Browser!Kept(s) = s
    BY <1>1, <1>2 DEF Browser!Kept
  <2> QED
    BY <1>1, <1>2, <2>1
<1>3. CASE Len(s) > L
  <2>1. PICK k : k = SubSeq(s, m, Len(s))
    OBVIOUS
  <2>2. Browser!Kept(s) = k
    BY <1>1, <1>3, <2>1 DEF Browser!Kept
  <2>3. m \in Int /\ Len(s) \in Int /\ m <= Len(s) /\ 1 <= m /\ \A i \in m..Len(s) : s[i] \in Shots
    BY <1>1, <1>3
  <2>4. /\ k \in Seq(Shots) /\ Len(k) = (IF m <= Len(s) THEN Len(s) - m + 1 ELSE 0)
        /\ \A i \in 1..Len(s) - m + 1 : k[i] = s[m + i - 1]
    BY <2>1, <2>3, SubSeqProperties
  <2>5. Len(k) = L
    BY <1>1, <2>3, <2>4
  <2>6. DOMAIN k = 1..L
    BY <2>4, <2>5
  <2>7. \A i \in 1..L : m + i - 1 = i + Len(s) - L /\ i + Len(s) - L \in 1..Len(s) /\ i \in 1..Len(s) - m + 1
    BY <1>1, <1>3
  <2>8. ASSUME NEW i \in DOMAIN k PROVE i + Len(s) - Len(k) \in DOMAIN s /\ k[i] = s[i + Len(s) - Len(k)]
    <3>1. i \in 1..L /\ i + Len(s) - Len(k) = i + Len(s) - L
      BY <2>5, <2>6, <2>8
    <3>2. k[i] = s[m + i - 1] /\ m + i - 1 = i + Len(s) - L /\ i + Len(s) - L \in 1..Len(s)
      BY <2>4, <2>7, <3>1
    <3> QED
      BY <1>1, <3>1, <3>2
  <2>9. Len(k) <= SNAPSHOT_CONTEXT_LIMIT
    BY <1>1, <2>5
  <2> QED
    BY <2>2, <2>4, <2>8, <2>9
<1> QED
  BY <1>1, <1>2, <1>3

LEMMA CaptureStep == ASSUME BrowserInv, NEW c \in Slots, Browser!Capture(c) PROVE BrowserInv'
<1>1. PICK x : x = [id |-> bCaptured + 1, page |-> bCall[c].own]
  OBVIOUS
<1>2. PICK s : s = Append(bSnapshots, x)
  OBVIOUS
<1>3. /\ bCall[c].at = "page" /\ bCall[c].own \in bOpen
      /\ bCaptured' = bCaptured + 1 /\ bSnapshots' = Browser!Kept(s)
      /\ bCall' = [bCall EXCEPT ![c] = Browser!NoCall]
      /\ UNCHANGED <<bBrowser, bPage, bOpen, bLaunched, bBroken, bTangled>>
  BY <1>1, <1>2 DEF Browser!Capture, Browser!Over, Browser!Step, Browser!KeepBrowser
<1>4. BrowserTypes /\ Shown /\ bCall[c] \in Uses /\ Owned(bCall[c])
  BY DEF BrowserInv, BrowserTypes
<1>5. x \in Shots /\ x.id = bCaptured + 1 /\ x.page = bCall[c].own /\ bCaptured \in Nat
  <2>1. bCaptured \in Nat /\ bCall[c].own \in Nat
    BY <1>4 DEF Uses, BrowserTypes
  <2> QED
    BY <1>1, <2>1 DEF Shots
<1>6. /\ bSnapshots \in Seq(Shots) /\ Len(bSnapshots) \in Nat /\ DOMAIN bSnapshots = 1..Len(bSnapshots)
      /\ s \in Seq(Shots) /\ Len(s) = Len(bSnapshots) + 1 /\ DOMAIN s = 1..Len(bSnapshots) + 1
      /\ s[Len(bSnapshots) + 1] = x /\ \A i \in 1..Len(bSnapshots) : s[i] = bSnapshots[i]
  <2>1. bSnapshots \in Seq(Shots)
    BY <1>4 DEF BrowserTypes
  <2> QED
    BY <1>2, <1>5, <2>1
<1>7. Len(s) <= SNAPSHOT_CONTEXT_LIMIT + 1
  BY <1>4, <1>6, RuntimeAssumption DEF Shown
<1>8. PICK k : k = Browser!Kept(s)
  OBVIOUS
<1>9. /\ k \in Seq(Shots) /\ Len(k) <= SNAPSHOT_CONTEXT_LIMIT
      /\ \A i \in DOMAIN k : i + Len(s) - Len(k) \in DOMAIN s /\ k[i] = s[i + Len(s) - Len(k)]
  BY <1>6, <1>7, <1>8, KeptFacts
<1>10. Len(k) \in Nat /\ DOMAIN k = 1..Len(k)
  BY <1>9
<1>11. \A i \in DOMAIN s : s[i].id = bCaptured + 1 - Len(s) + i
  <2> SUFFICES ASSUME NEW i \in DOMAIN s PROVE s[i].id = bCaptured + 1 - Len(s) + i
    OBVIOUS
  <2>1. CASE i = Len(bSnapshots) + 1
    BY <1>5, <1>6, <2>1
  <2>2. CASE i \in 1..Len(bSnapshots)
    <3>1. s[i] = bSnapshots[i] /\ bSnapshots[i].id = bCaptured - Len(bSnapshots) + i
      BY <1>4, <1>6, <2>2 DEF Shown
    <3> QED
      BY <1>5, <1>6, <2>2, <3>1
  <2> QED
    BY <1>6, <2>1, <2>2
<1>12. Shown'
  <2>1. ASSUME NEW i \in DOMAIN k PROVE k[i].id = bCaptured + 1 - Len(k) + i
    <3>1. PICK j : j = i + Len(s) - Len(k)
      OBVIOUS
    <3>2. j \in DOMAIN s /\ k[i] = s[j] /\ s[j].id = bCaptured + 1 - Len(s) + j
      BY <1>9, <1>11, <2>1, <3>1
    <3> QED
      BY <1>5, <1>6, <1>10, <2>1, <3>1, <3>2
  <2>2. bSnapshots' = k
    BY <1>3, <1>8
  <2> QED
    <3>1. \A i \in DOMAIN bSnapshots' : bSnapshots'[i].id = bCaptured' - Len(bSnapshots') + i
      <4> SUFFICES ASSUME NEW i \in DOMAIN k PROVE k[i].id = bCaptured' - Len(k) + i
        BY <2>2
      <4>1. k[i].id = bCaptured + 1 - Len(k) + i /\ bCaptured' = bCaptured + 1
        BY <1>3, <2>1
      <4>2. i \in Nat
        BY <1>10
      <4> QED
        BY <1>5, <1>10, <4>1, <4>2
    <3>2. Len(bSnapshots') <= SNAPSHOT_CONTEXT_LIMIT
      BY <1>9, <2>2
    <3> QED
      BY <3>1, <3>2 DEF Shown
<1>13. ASSUME Untangled
       PROVE  /\ Whole' /\ UseFits(bCall[c])'
              /\ \A d \in Slots \ {c} : UseFits(bCall[d])' /\ Apart(bCall[d], Browser!NoCall)
  <2>1. bCall'[c] = Browser!NoCall /\ \A d \in Slots \ {c} : bCall'[d] = bCall[d]
    BY <1>3, <1>4 DEF BrowserTypes
  <2>2. Whole /\ UseFits(bCall[c]) /\ bCall[c].own = bBrowser /\ bBrowser # 0
    <3>1. Whole /\ UseFits(bCall[c])
      BY <1>13 DEF Untangled
    <3>2. bCall[c].own = bBrowser
      BY <1>3, <3>1 DEF Whole
    <3>3. bCall[c].own # 0
      BY <1>3, <1>4 DEF BrowserTypes
    <3> QED
      BY <3>1, <3>2, <3>3
  <2>3. bPage = bCall[c].own
    BY <1>3, <2>2 DEF UseFits
  <2>4. \A i \in DOMAIN s : s[i].page = bPage
    BY <1>5, <1>6, <2>2, <2>3 DEF Whole
  <2>5. \A i \in DOMAIN k : k[i].page = bPage
    BY <1>9, <2>4
  <2>6. Whole'
    <3>1. ASSUME NEW d \in Slots, bCall[d].at \in Pending PROVE \E e \in Slots : bCall'[e].at \in Pending
      BY <1>3, <2>1, <3>1 DEF Pending
    <3> QED
      BY <1>3, <1>8, <2>2, <2>3, <2>5, <3>1 DEF Whole
  <2>7. \A d \in Slots \ {c} : UseFits(bCall[d])'
    BY <1>3, <1>13, <2>1 DEF Untangled, UseFits
  <2>8. UseFits(bCall[c])'
    BY <2>1, NoCallFacts DEF UseFits, Pending
  <2> QED
    BY <2>6, <2>7, <2>8, NoCallFacts
<1>14. /\ bLaunched' \in Nat /\ bLaunched <= bLaunched' /\ bCaptured' \in Nat
       /\ bBrowser' \in 0..bLaunched' /\ bPage' \in 0..bLaunched' /\ bOpen' \subseteq 1..bLaunched'
       /\ bSnapshots' \in Seq(Shots) /\ bTangled' \in BOOLEAN /\ bBroken' \in BOOLEAN
  BY <1>3, <1>4, <1>5, <1>8, <1>9 DEF BrowserTypes
<1> QED
  BY <1>3, <1>12, <1>13, <1>14, NoCallFacts, UseStep DEF Pending

LEMMA ClosedStep == ASSUME BrowserInv, NEW c \in Slots, Browser!Closed(c) PROVE BrowserInv'
<1>1. /\ bCall[c].at = "close" /\ bOpen' = bOpen \ {bCall[c].own}
      /\ bBrowser' = 0 /\ bPage' = 0 /\ bSnapshots' = <<>>
      /\ bCall' = [bCall EXCEPT ![c] = Browser!NoCall]
      /\ UNCHANGED <<bLaunched, bCaptured, bTangled, bBroken>>
  BY DEF Browser!Closed, Browser!Over, Browser!Step
<1>2. BrowserTypes /\ bCall[c] \in Uses
  BY DEF BrowserInv, BrowserTypes
<1>3. bCall'[c] = Browser!NoCall /\ \A d \in Slots \ {c} : bCall'[d] = bCall[d]
  BY <1>1, <1>2 DEF BrowserTypes
<1>4. /\ bLaunched' \in Nat /\ bLaunched <= bLaunched' /\ bCaptured' \in Nat
      /\ bBrowser' \in 0..bLaunched' /\ bPage' \in 0..bLaunched' /\ bOpen' \subseteq 1..bLaunched'
      /\ bTangled' \in BOOLEAN /\ bBroken' \in BOOLEAN
  <2>1. /\ bLaunched' = bLaunched /\ bLaunched \in Nat /\ bCaptured' = bCaptured /\ bCaptured \in Nat
        /\ bBrowser' = 0 /\ bPage' = 0 /\ bOpen' \subseteq bOpen /\ bOpen \subseteq 1..bLaunched
    BY <1>1, <1>2 DEF BrowserTypes
  <2>2. bTangled' \in BOOLEAN /\ bBroken' \in BOOLEAN
    BY <1>1, <1>2 DEF BrowserTypes
  <2>3. 0 \in 0..bLaunched
    BY <2>1
  <2> QED
    BY <2>1, <2>2, <2>3
<1>5. bSnapshots' \in Seq(Shots) /\ Shown'
  <2>1. <<>> \in Seq(Shots) /\ DOMAIN <<>> = {} /\ Len(<<>>) = 0
    OBVIOUS
  <2> QED
    BY <1>1, <2>1, RuntimeAssumption DEF Shown
<1>6. ASSUME Untangled
      PROVE  /\ Whole' /\ UseFits(bCall[c])'
             /\ \A d \in Slots \ {c} : UseFits(bCall[d])' /\ Apart(bCall[d], Browser!NoCall)
  <2>1. Whole /\ UseFits(bCall[c]) /\ bCall[c].own = bBrowser /\ bBrowser # 0
    BY <1>1, <1>6 DEF Untangled, UseFits
  <2>2. bOpen' = {} /\ DOMAIN <<>> = {}
    BY <1>1, <2>1 DEF Whole
  <2>3. Whole'
    BY <1>1, <2>2 DEF Whole
  <2>4. UseFits(bCall[c])'
    BY <1>3, NoCallFacts DEF UseFits, Pending
  <2>5. ASSUME NEW d \in Slots, d # c PROVE UseFits(bCall[d])'
    <3>1. UseFits(bCall[d]) /\ Apart(bCall[d], bCall[c]) /\ Owned(bCall[d]) /\ bCall'[d] = bCall[d]
      BY <1>3, <1>6, <2>5 DEF Untangled, BrowserInv
    <3>2. bCall[d].at # "close"
      BY <1>1, <3>1 DEF Apart
    <3>3. bCall[d].at \in Pending \cup {"page"} => bCall[d].own # 0
      BY <1>2, <3>1 DEF Owned, BrowserTypes
    <3> QED
      BY <1>1, <3>1, <3>2, <3>3 DEF UseFits
  <2> QED
    BY <2>3, <2>4, <2>5, NoCallFacts
<1> QED
  BY <1>1, <1>4, <1>5, <1>6, NoCallFacts, UseStep DEF Pending

LEMMA BrowserStep == BrowserInv /\ [Browser!Next]_BrowserVars => BrowserInv'
<1> SUFFICES ASSUME BrowserInv, [Browser!Next]_BrowserVars PROVE BrowserInv'
  OBVIOUS
<1>1. CASE Browser!Next
  BY <1>1, UseBegins, LaunchStep, NewContextStep, NewPageStep, CaptureStep, ClickStep, CloseStep, ClosedStep,
     FailsStep DEF Browser!Next
<1>2. CASE UNCHANGED BrowserVars
  BY <1>2 DEF BrowserVars, BrowserInv, BrowserTypes, Shown, Owned, Wanted, Untangled, Whole, UseFits
<1> QED
  BY <1>1, <1>2

LEMMA BrowserIsSafe == BrowserInv => Browser!BrowserSafe
<1> SUFFICES ASSUME BrowserInv PROVE Browser!BrowserSafe
  OBVIOUS
<1>1. ASSUME ~bTangled
      PROVE  /\ bOpen \subseteq {bBrowser}
             /\ bBrowser # 0 /\ bPage = 0 => bBroken \/ Browser!At("context") \cup Browser!At("new page") # {}
             /\ bPage # 0 => bPage = bBrowser
             /\ \A s \in Browser!ToSet(bSnapshots) : s.page = bPage
             /\ \A c \in Slots : bCall[c].op = "click" /\ bCall[c].at = "page" => bCall[c].snap.page = bCall[c].own
  <2>1. Untangled
    BY <1>1 DEF BrowserInv
  <2>2. \A c \in Slots : bCall[c].at \in Pending => c \in Browser!At("context") \cup Browser!At("new page")
    BY DEF Pending, Browser!At
  <2> QED
    BY <2>1, <2>2 DEF Untangled, Whole, UseFits, Browser!ToSet
<1>2. \A c \in Slots : bCall[c].at = "page" /\ bCall[c].want # 0 => bCall[c].snap.id = bCall[c].want
  BY DEF BrowserInv, Wanted
<1> QED
  BY <1>1, <1>2 DEF BrowserInv, Shown, Browser!BrowserSafe

\* The bounds on the launches, the snapshots and the failures are kept.
BrowserCounted == bLaunched \in 0..MaxLaunches /\ bCaptured \in 0..MaxCaptures /\ bFaults \in 0..Faults

LEMMA BrowserCounts == (Init => BrowserCounted) /\ (BrowserCounted /\ [Browser!Next]_BrowserVars => BrowserCounted')
<1> USE RuntimeAssumption
<1>1. Init => BrowserCounted
  BY DEF Init, Browser!Init, BrowserCounted
<1>2. ASSUME BrowserCounted, [Browser!Next]_BrowserVars PROVE BrowserCounted'
  <2>1. CASE UNCHANGED BrowserVars
    BY <1>2, <2>1 DEF BrowserVars, BrowserCounted
  <2>2. ASSUME NEW c, Browser!Launch(c) PROVE BrowserCounted'
    <3>1. bLaunched < MaxLaunches /\ bLaunched' = bLaunched + 1 /\ bCaptured' = bCaptured /\ bFaults' = bFaults
      BY <2>2 DEF Browser!Launch
    <3> QED
      BY <1>2, <3>1 DEF BrowserCounted
  <2>3. ASSUME NEW c, Browser!Capture(c) PROVE BrowserCounted'
    <3>1. bCaptured < MaxCaptures /\ bCaptured' = bCaptured + 1 /\ bLaunched' = bLaunched /\ bFaults' = bFaults
      BY <2>3 DEF Browser!Capture, Browser!KeepBrowser
    <3> QED
      BY <1>2, <3>1 DEF BrowserCounted
  <2>4. ASSUME NEW c, Browser!Fails(c) PROVE BrowserCounted'
    <3>1. /\ bLaunched' = bLaunched /\ bCaptured' = bCaptured
          /\ bFaults' = bFaults \/ (bFaults < Faults /\ bFaults' = bFaults + 1)
      BY <2>4 DEF Browser!Fails
    <3> QED
      BY <1>2, <3>1 DEF BrowserCounted
  <2>5. ASSUME NEW c, \/ Browser!Begin(c) \/ Browser!NewContext(c) \/ Browser!NewPage(c) \/ Browser!Works(c)
                      \/ Browser!Click(c) \/ Browser!Close(c) \/ Browser!Closed(c)
        PROVE  BrowserCounted'
    <3>1. bLaunched' = bLaunched /\ bCaptured' = bCaptured /\ bFaults' = bFaults
      BY <2>5 DEF Browser!Begin, Browser!NewContext, Browser!NewPage, Browser!Works, Browser!Click, Browser!Close, Browser!Closed,
                  Browser!KeepBrowser
    <3> QED
      BY <1>2, <3>1 DEF BrowserCounted
  <2> QED
    BY <1>2, <2>1, <2>2, <2>3, <2>4, <2>5 DEF Browser!Next
<1> QED
  BY <1>1, <1>2

LEMMA BrowserTyped == BrowserInv /\ BrowserCounted => Browser!TypeOK
<1> SUFFICES ASSUME BrowserInv, BrowserCounted PROVE Browser!TypeOK
  OBVIOUS
<1>1. PICK n \in 0..MaxLaunches : n = bLaunched
  BY DEF BrowserCounted
<1>2. bBrowser \in 0..n /\ bPage \in 0..n /\ bOpen \subseteq 1..n /\ MaxLaunches \in Nat
  BY <1>1, RuntimeAssumption DEF BrowserInv, BrowserTypes
<1>3. bBrowser \in 0..MaxLaunches /\ bPage \in 0..MaxLaunches /\ bOpen \subseteq 1..MaxLaunches
  BY <1>2
<1>4. \A c \in Slots : bCall[c].at \in {"none", "launch", "context", "new page", "page", "close"}
  BY DEF BrowserInv, BrowserTypes, Uses
<1> QED
  BY <1>3, <1>4 DEF BrowserCounted, Browser!TypeOK

(***************************************************************************)
(* The three together.                                                      *)
(***************************************************************************)

\* What is shown and told of a job is so, events reach only those that may have them, in order
\* and after their snapshot, and a reference is used on its page.
THEOREM BackgroundIsSafe == Spec => []BackgroundSafe
<1>1. JobsInv /\ HubInv /\ BrowserInv => BackgroundSafe
  BY JobsAreSafe, HubIsSafe, BrowserIsSafe DEF BackgroundSafe
<1>2. Spec => []JobsInv
  BY JobsInitially, JobsStep, JobsPart, PTL DEF Spec
<1>3. Spec => []HubInv
  BY HubInitially, HubStep, HubPart, PTL DEF Spec
<1>4. Spec => []BrowserInv
  BY BrowserInitially, BrowserStep, BrowserPart, PTL DEF Spec
<1> QED
  BY <1>1, <1>2, <1>3, <1>4, PTL

=============================================================================
