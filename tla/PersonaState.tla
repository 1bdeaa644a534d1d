---------------------------- MODULE PersonaState ----------------------------
(***************************************************************************)
(* The persona documents (services/persona-state.ts): clients load the      *)
(* three documents with their joint revision, edit some and save them all.  *)
(* A save checks the revision, stages a temporary and a backup copy of each *)
(* changed document, then removes and renames them one by one, and rolls    *)
(* back when a step fails.  Every file operation is an await: requests      *)
(* interleave there, an operation may fail, and the process may die.        *)
(* A revision is a hash of the contents, so it is modelled by them.         *)
(***************************************************************************)
EXTENDS Naturals, Sequences, FiniteSets, FiniteSetsExt

CONSTANTS Docs,        \* PERSONA_DOCUMENT_KEYS, in their order
          Present,     \* the documents there are at the start
          Requests,    \* client sessions: one load, then one save
          MaxFaults    \* bound: file operations that fail, and deaths of the process

VARIABLES file,        \* the document files
          req,         \* the sessions
          faults,      \* failures and deaths so far
          agreed,      \* history: the files the last successful save left
          spoilt       \* history: what keeps a save from being undone
vars == <<file, req, faults, agreed, spoilt>>

DocSet == {Docs[i] : i \in DOMAIN Docs}
Absent == "absent"
Contents == Requests \cup {"first", ""}
Files == [DocSet -> Contents \cup {Absent}]
NoFiles == [d \in DocSet |-> Absent]

\* Where a session is: the await it is in, or how it ended.  It works on document number i, and
\* its plan is the numbers of those it changes, which it takes in their order.
Ended == {"invalid", "conflict", "noop", "updated", "failed", "dead"}
Swapping == {"remove", "rename", "reread", "audit", "undo", "restore"}
Saving == {"check", "stage", "copy"} \cup Swapping
Spoils == {"overlap", "late", "undo", "crash"}

NewSession == [at |-> "new", i |-> 1, rev |-> NoFiles, want |-> NoFiles, saw |-> NoFiles,
               plan |-> {}, had |-> {}, touched |-> {}, tmp |-> NoFiles, bak |-> NoFiles]

Init == /\ file = [d \in DocSet |-> IF d \in Present THEN "first" ELSE Absent]
        /\ req = [r \in Requests |-> NewSession]
        /\ faults = 0
        /\ agreed = file
        /\ spoilt = {}

(***************************************************************************)
(* Reading: the three documents, one await each.                            *)
(***************************************************************************)

\* A document that is not there reads as the empty one.
Content(d) == IF file[d] = Absent THEN "" ELSE file[d]

Doc(r) == Docs[req[r].i]

\* What a save finds once it has read everything: a conflict, nothing to do, or a plan.
Checked(s) ==
    LET plan == {k \in DOMAIN Docs : s.saw[Docs[k]] # s.want[Docs[k]]}
    IN IF s.saw # s.rev THEN [s EXCEPT !.at = "conflict"]
       ELSE IF plan = {} THEN [s EXCEPT !.at = "noop"]
       ELSE [s EXCEPT !.at = "stage", !.plan = plan, !.i = Min(plan)]

AfterRead(s) ==
    IF s.i < Len(Docs) THEN [s EXCEPT !.i = @ + 1]
    ELSE CASE s.at = "load"   -> [s EXCEPT !.at = "loaded", !.rev = s.saw]
           [] s.at = "check"  -> Checked(s)
           [] s.at = "reread" -> [s EXCEPT !.at = "audit"]

Read(r) == /\ req[r].at \in {"load", "check", "reread"}
           /\ req' = [req EXCEPT ![r] = AfterRead([@ EXCEPT !.saw[Doc(r)] = Content(Doc(r))])]
           /\ UNCHANGED <<file, faults, agreed, spoilt>>

Load(r) == /\ req[r].at = "new"
           /\ req' = [req EXCEPT ![r].at = "load"]
           /\ UNCHANGED <<file, faults, agreed, spoilt>>

\* The save: the documents as loaded, but for those the client edited.  A second save under
\* way is an overlap: nothing serialises them.
Save(r, edited) ==
    /\ req[r].at = "loaded"
    /\ req' = [req EXCEPT ![r].at = "check", ![r].i = 1,
                          ![r].want = [d \in DocSet |-> IF d \in edited THEN r ELSE req[r].rev[d]]]
    /\ spoilt' = IF \E q \in Requests : req[q].at \in Saving THEN spoilt \cup {"overlap"} ELSE spoilt
    /\ UNCHANGED <<file, faults, agreed>>

\* A body that is not three strings of bearable length and a revision.
SaveInvalid(r) == /\ req[r].at = "loaded"
                  /\ req' = [req EXCEPT ![r].at = "invalid"]
                  /\ UNCHANGED <<file, faults, agreed, spoilt>>

(***************************************************************************)
(* Writing.  The temporary and backup files carry a name of their own: no   *)
(* other session sees them, and steps on them alone are part of the step    *)
(* before.                                                                  *)
(***************************************************************************)

\* The next document of the plan, or the next phase.
Advance(s, next, i) == LET rest == {k \in s.plan : k > s.i}
                       IN IF rest = {} THEN [s EXCEPT !.at = next, !.i = i] ELSE [s EXCEPT !.i = Min(rest)]

\* The temporary file is written, and the document looked for.
Stage(r) == /\ req[r].at = "stage"
            /\ req' = LET s == [req[r] EXCEPT !.tmp[Doc(r)] = req[r].want[Doc(r)]]
                      IN [req EXCEPT ![r] = IF file[Doc(r)] # Absent
                                            THEN [s EXCEPT !.had = @ \cup {Doc(r)}, !.at = "copy"]
                                            ELSE Advance(s, "remove", Min(s.plan))]
            /\ UNCHANGED <<file, faults, agreed, spoilt>>

\* The backup copy: the document may have gone since it was looked for.
Copy(r) == /\ req[r].at = "copy"
           /\ req' = [req EXCEPT ![r] = IF file[Doc(r)] = Absent THEN [@ EXCEPT !.at = "failed"]
                                        ELSE Advance([@ EXCEPT !.bak[Doc(r)] = file[Doc(r)], !.at = "stage"],
                                                     "remove", Min(req[r].plan))]
           /\ UNCHANGED <<file, faults, agreed, spoilt>>

Remove(r) == /\ req[r].at = "remove"
             /\ file' = [file EXCEPT ![Doc(r)] = Absent]
             /\ req' = [req EXCEPT ![r].at = "rename", ![r].touched = @ \cup {Doc(r)}]
             /\ UNCHANGED <<faults, agreed, spoilt>>

\* The last rename is followed by the removal of the backups.
Rename(r) ==
    LET s == Advance([req[r] EXCEPT !.at = "remove", !.tmp[Doc(r)] = Absent], "reread", 1)
    IN /\ req[r].at = "rename"
       /\ file' = [file EXCEPT ![Doc(r)] = req[r].tmp[Doc(r)]]
       /\ req' = [req EXCEPT ![r] = IF s.at = "reread" THEN [s EXCEPT !.bak = NoFiles] ELSE s]
       /\ UNCHANGED <<faults, agreed, spoilt>>

Audit(r) == /\ req[r].at = "audit"
            /\ req' = [req EXCEPT ![r].at = "updated"]
            /\ agreed' = file
            /\ UNCHANGED <<file, faults, spoilt>>

(***************************************************************************)
(* Failing and rolling back, last document first.                           *)
(***************************************************************************)

RolledBack(s) == [s EXCEPT !.at = "failed", !.tmp = NoFiles, !.bak = NoFiles]

\* The next of the first i documents to undo: one that was removed, renamed over or not.
RollbackApplied(s, i) ==
    LET undo == {k \in 1..i : Docs[k] \in s.touched /\ s.tmp[Docs[k]] = Absent}
    IN IF undo = {} THEN RolledBack(s) ELSE [s EXCEPT !.at = "undo", !.i = Max(undo)]
Rollback(s, i) ==
    LET undo == {k \in 1..i : Docs[k] \in s.touched}
    IN IF undo = {} THEN RolledBack(s) ELSE [s EXCEPT !.at = "undo", !.i = Max(undo)]

Undone(s) == IF Docs[s.i] \in s.had THEN [s EXCEPT !.at = "restore"] ELSE Rollback(s, s.i - 1)

Undo(r) == /\ req[r].at = "undo"
           /\ file' = [file EXCEPT ![Doc(r)] = Absent]
           /\ req' = [req EXCEPT ![r] = Undone(@)]
           /\ UNCHANGED <<faults, agreed, spoilt>>

\* A backup that is gone cannot be put back: a warning.
RestoreBackup(r) ==
    /\ req[r].at = "restore"
    /\ file' = IF req[r].bak[Doc(r)] = Absent THEN file ELSE [file EXCEPT ![Doc(r)] = req[r].bak[Doc(r)]]
    /\ req' = [req EXCEPT ![r] = Rollback(@, @.i - 1)]
    /\ UNCHANGED <<faults, agreed, spoilt>>

\* What follows the failure of the operation a session awaits.  A removal that fails is a
\* warning; a failure before the swap ends the save; one in it, or after it, undoes the swap.
Failed(s) ==
    CASE s.at \in {"load", "check", "stage", "copy"} -> [s EXCEPT !.at = "failed"]
      [] s.at = "remove"  -> [s EXCEPT !.at = "rename", !.touched = @ \cup {Docs[s.i]}]
      [] s.at = "undo"    -> Undone(s)
      [] s.at = "restore" -> Rollback(s, s.i - 1)
      [] OTHER            -> Rollback(s, Len(Docs))

Fail(r) == /\ faults < MaxFaults
           /\ req[r].at \in Saving \cup {"load"}
           /\ req' = [req EXCEPT ![r] = Failed(@)]
           /\ faults' = faults + 1
           /\ spoilt' = spoilt \cup (CASE req[r].at \in {"reread", "audit"} -> {"late"}
                                       [] req[r].at \in {"undo", "restore"} -> {"undo"}
                                       [] OTHER -> {})
           /\ UNCHANGED <<file, agreed>>

\* The process dies: the sessions it served are gone, their temporary and backup files stay.
Die == /\ faults < MaxFaults
       /\ \E q \in Requests : req[q].at \in Saving
       /\ req' = [q \in Requests |-> IF req[q].at \in Saving \cup {"load"} THEN [req[q] EXCEPT !.at = "dead"] ELSE req[q]]
       /\ faults' = faults + 1
       /\ spoilt' = spoilt \cup {"crash"}
       /\ UNCHANGED <<file, agreed>>

Next == \/ \E r \in Requests : \/ Load(r) \/ Read(r) \/ SaveInvalid(r)
                               \/ \E edited \in SUBSET DocSet : Save(r, edited)
                               \/ Stage(r) \/ Copy(r) \/ Remove(r) \/ Rename(r) \/ Audit(r)
                               \/ Undo(r) \/ RestoreBackup(r) \/ Fail(r)
        \/ Die

Spec == Init /\ [][Next]_vars

(***************************************************************************)
(* Properties.                                                              *)
(***************************************************************************)

\* Shapes, and that a session past its check works on a plan.
TypeOK == /\ file \in Files /\ agreed \in Files
          /\ faults \in 0..MaxFaults
          /\ spoilt \subseteq Spoils
          /\ \A r \in Requests : /\ req[r].at \in {"new", "load", "loaded"} \cup Saving \cup Ended
                                 /\ req[r].at \in {"stage", "copy"} \cup Swapping => req[r].plan # {}
                                 /\ req[r].touched \subseteq {Docs[k] : k \in req[r].plan}

\* updateState promises "rollback applied": whatever operation of a save fails, once no save is
\* under way the documents are those of the last save that succeeded - unless saves overlapped,
\* the process died, the rollback itself failed, or the failure came after the backups went.
AllOrNothing == (spoilt = {} /\ \A r \in Requests : req[r].at \notin Saving) => file = agreed

\* Even a death in the middle of a save loses no document: one that is not there has a backup.
Recoverable == spoilt \subseteq {"crash"} =>
    \A d \in DocSet : agreed[d] = Absent \/ file[d] # Absent \/ \E r \in Requests : req[r].bak[d] # Absent
=============================================================================
