------------------------------ MODULE MvpGate ------------------------------
(***************************************************************************)
(* The go/no-go gate (services/mvp-gate.ts, run by release/mvp-gate-cli.ts): *)
(* a run makes its checks one after the other, draws its verdict from their  *)
(* results, and writes a report and then the pointer latest.json.  The       *)
(* workspace changes meanwhile; runs may overlap and may die.                *)
(***************************************************************************)
EXTENDS Naturals, Sequences, FiniteSets

CONSTANTS Checks,      \* runGate: the checks in their order, [id, hard, skippable]
          Runs,        \* runs of the gate, each with a report identifier of its own
          MaxChanges   \* bound: changes of the workspace

VARIABLES good,        \* the checks the workspace would pass
          run,         \* the runs
          reports,     \* reports written
          latest,      \* latest.json
          smoke,       \* smoke configurations left in the report directory
          changes
vars == <<good, run, reports, latest, smoke, changes>>

Ids == {Checks[i].id : i \in DOMAIN Checks}
NewRun == [at |-> "new", i |-> 1, skipHealth |-> FALSE, failed |-> {}]
NoReport == [run |-> "none", verdict |-> "none"]

Init == /\ good = Ids
        /\ run = [r \in Runs |-> NewRun]
        /\ reports = {} /\ latest = NoReport
        /\ smoke = {} /\ changes = 0

Start(r, skip) == /\ run[r] = NewRun
                  /\ run' = [run EXCEPT ![r] = [@ EXCEPT !.at = "check", !.skipHealth = skip]]
                  /\ UNCHANGED <<good, reports, latest, smoke, changes>>

Advance(s) == IF s.i < Len(Checks) THEN [s EXCEPT !.i = @ + 1, !.at = "check"] ELSE [s EXCEPT !.at = "report"]

\* A check passes when the workspace is good for it: what it builds, runs, reads or probes.
Passes(id) == id \in good

\* A build that passes fills dist/.  The onboarding check leaves a configuration it removes in the
\* next step, however it ends.
Check(r) ==
    LET c == Checks[run[r].i]
        passed == Passes(c.id)
    IN /\ run[r].at = "check"
       /\ \/ /\ c.skippable /\ run[r].skipHealth
             /\ run' = [run EXCEPT ![r] = Advance(@)]
             /\ UNCHANGED <<good, smoke>>
          \/ /\ ~(c.skippable /\ run[r].skipHealth)
             /\ LET s == IF passed THEN run[r] ELSE [run[r] EXCEPT !.failed = @ \cup {c}]
                IN run' = [run EXCEPT ![r] = IF c.id = "cli-onboard" THEN [s EXCEPT !.at = "tidy"] ELSE Advance(s)]
             /\ good' = IF c.id = "build" /\ passed THEN good \cup (Ids \cap {"dist-artifact"}) ELSE good
             /\ smoke' = IF c.id = "cli-onboard" THEN smoke \cup {r} ELSE smoke
       /\ UNCHANGED <<reports, latest, changes>>

Tidy(r) == /\ run[r].at = "tidy"
           /\ smoke' = smoke \ {r}
           /\ run' = [run EXCEPT ![r] = Advance(@)]
           /\ UNCHANGED <<good, reports, latest, changes>>

\* The smoke scenarios are reported and do not count.
VerdictByCount(failed) == IF failed = {} THEN "go" ELSE IF \E c \in failed : ~c.hard THEN "advisory-only" ELSE "no-go"
Verdict(failed) == IF \E c \in failed : c.hard THEN "no-go" ELSE IF failed # {} THEN "advisory-only" ELSE "go"

WriteReport(r) == /\ run[r].at = "report"
                  /\ reports' = reports \cup {[run |-> r, verdict |-> Verdict(run[r].failed)]}
                  /\ run' = [run EXCEPT ![r].at = "latest"]
                  /\ UNCHANGED <<good, latest, smoke, changes>>

WriteLatest(r) == /\ run[r].at = "latest"
                  /\ latest' = [run |-> r, verdict |-> Verdict(run[r].failed)]
                  /\ run' = [run EXCEPT ![r].at = "over"]
                  /\ UNCHANGED <<good, reports, smoke, changes>>

Die(r) == /\ run[r].at \in {"check", "tidy", "report", "latest"}
          /\ run' = [run EXCEPT ![r].at = "dead"]
          /\ UNCHANGED <<good, reports, latest, smoke, changes>>

Change(id) == /\ changes < MaxChanges
              /\ good' = IF id \in good THEN good \ {id} ELSE good \cup {id}
              /\ changes' = changes + 1
              /\ UNCHANGED <<run, reports, latest, smoke>>

Next == \/ \E r \in Runs : \/ \E skip \in BOOLEAN : Start(r, skip)
                           \/ Check(r) \/ Tidy(r) \/ WriteReport(r) \/ WriteLatest(r) \/ Die(r)
        \/ \E id \in Ids : Change(id)

Spec == Init /\ [][Next]_vars

(***************************************************************************)
(* Properties.                                                              *)
(***************************************************************************)

TypeOK == /\ good \subseteq Ids /\ changes \in 0..MaxChanges
          /\ \A r \in Runs : run[r].i \in DOMAIN Checks
          /\ latest = NoReport \/ latest \in reports

\* The release latest.json approves failed no hard check, and its report is there and says the same,
\* whichever run wrote last or died; a smoke configuration stays only when its run died.
GateHonest ==
    /\ latest.verdict \in {"go", "advisory-only"} =>
          latest \in reports /\ \A c \in run[latest.run].failed : ~c.hard
    /\ \A r \in smoke : run[r].at \in {"tidy", "dead"}
=============================================================================
