--------------------------- MODULE SkillPackages ---------------------------
(***************************************************************************)
(* Skill packages (services/skill-package-manager.ts behind                 *)
(* api/handlers/skill-packages.ts): a catalog of package versions and a     *)
(* lockfile with those installed.  A request reads both files, solves the   *)
(* dependency graph, writes a temporary file and renames it, puts back what *)
(* it had read when that fails, and reads both files again to report.       *)
(* Nothing serialises requests, and they share the temporary file.          *)
(* A version range is modelled by the set of versions that satisfy it.      *)
(***************************************************************************)
EXTENDS Naturals, FiniteSets

CONSTANTS Catalog,       \* the manifests: [name, version, deps, compatible]
          Ranges,        \* the ranges a request may name; {} when it names none
          Requests,      \* requests of the control plane
          MaxFaults,     \* bound: file operations that fail, and deaths
          MaxWithdrawn   \* bound: versions the catalog loses

VARIABLES catalog,       \* skill-packages.json
          lock,          \* skill-packages.lock.json: the entries, as the manifests they were made of
          tmp,           \* the temporary file, and the rollback file
          req,           \* the requests
          faults,
          agreed,        \* history: the lock the last successful request left
          spoilt         \* history: why the files may not be those of the last success
vars == <<catalog, lock, tmp, req, faults, agreed, spoilt>>

Names == {m.name : m \in Catalog}
Versions == UNION {{m.version} : m \in Catalog}
Missing == <<>>           \* a file is <<its contents>>
Locked(l) == {e.name : e \in l}

NewRequest == [at |-> "new", action |-> "none", name |-> "none", range |-> {}, read |-> {}, next |-> {}]
Under == {"read", "write", "rename", "undoWrite", "undoRename", "report"}
Over == [NewRequest EXCEPT !.at = "over"]

Init == /\ catalog = Catalog
        /\ lock = {} /\ agreed = {}
        /\ tmp = [next |-> Missing, rollback |-> Missing]
        /\ req = [r \in Requests |-> NewRequest]
        /\ faults = 0
        /\ spoilt = {}

(***************************************************************************)
(* The solver and the gates.                                                *)
(***************************************************************************)

\* Every dependency of l is in l, in a version its range admits; one version per package.
Closed(l) == /\ \A e \in l : \A d \in DOMAIN e.deps : \E f \in l : f.name = d /\ f.version \in e.deps[d]
             /\ \A e, f \in l : e.name = f.name => e = f

\* The selections of the catalog: installed packages keep their version, the target is in its
\* range, dependencies are met, and nothing else is taken.  The code returns the first it finds.
Selections(cat, l, name, range) ==
    {s \in SUBSET cat :
        /\ \A n \in (Locked(l) \ {name}) \cup {name} : n \in Locked(s)
        /\ \A e \in l : e.name # name => \E f \in s : f.name = e.name /\ f.version = e.version
        /\ \A f \in s : f.name = name => f.version \in range
        /\ \A f \in s : f.name \in Locked(l) \cup {name} \/ \E g \in s : f.name \in DOMAIN g.deps
        /\ Closed(s)}

\* The lock an install or an upgrade writes: a selection whose members are all compatible.
Installed(cat, l, name, range) == {s \in Selections(cat, l, name, range) : \A f \in s : f.compatible}

NoDependents(l, name) == {}
Dependents(l, name) == {e \in l : e.name # name /\ name \in DOMAIN e.deps}

\* The range an install takes when it is given none: the installed version, or any.
DefaultRange(l, action, name) ==
    IF action = "install" /\ name \in Locked(l) THEN {e.version : e \in {f \in l : f.name = name}} ELSE Versions

\* The locks a request may go on to write; none when it is refused.
Outcomes(r, cat, l) ==
    LET q == req[r]
    IN IF q.action = "uninstall"
       THEN IF q.name \in Locked(l) /\ Dependents(l, q.name) = {} THEN {{e \in l : e.name # q.name}} ELSE {}
       ELSE Installed(cat, l, q.name, IF q.range = {} THEN DefaultRange(l, q.action, q.name) ELSE q.range)

\* What runs (#buildActivationPlan): the installed packages still in the catalog, compatible, with
\* their dependencies installed.  Two packages that name one server are not modelled.
Admitted(cat, l) ==
    {e \in l : /\ e \in cat /\ e.compatible
               /\ \A d \in DOMAIN e.deps : \E f \in l : f.name = d /\ f.version \in e.deps[d]}

(***************************************************************************)
(* A request, await by await.                                               *)
(***************************************************************************)

Begin(r, action, name, range) ==
    /\ req[r] = NewRequest
    /\ req' = [req EXCEPT ![r] = [NewRequest EXCEPT !.at = "read", !.action = action, !.name = name, !.range = range]]
    /\ spoilt' = IF \E q \in Requests : req[q].at \in Under THEN spoilt \cup {"overlap"} ELSE spoilt
    /\ UNCHANGED <<catalog, lock, tmp, faults, agreed>>

Solve(r) ==
    /\ req[r].at = "read"
    /\ LET found == Outcomes(r, catalog, lock)
       IN \/ /\ found = {}
             /\ req' = [req EXCEPT ![r] = Over]
          \/ \E next \in found : req' = [req EXCEPT ![r] = [NewRequest EXCEPT !.at = "write", !.read = lock, !.next = next]]
    /\ UNCHANGED <<catalog, lock, tmp, faults, agreed, spoilt>>

Write(r) == /\ req[r].at = "write"
            /\ tmp' = [tmp EXCEPT !.next = <<req[r].next>>]
            /\ req' = [req EXCEPT ![r].at = "rename"]
            /\ UNCHANGED <<catalog, lock, faults, agreed, spoilt>>

\* The file is gone when another request has renamed it.
Rename(r) ==
    /\ req[r].at = "rename"
    /\ \/ /\ tmp.next # Missing
          /\ lock' = tmp.next[1]
          /\ tmp' = [tmp EXCEPT !.next = Missing]
          /\ req' = [req EXCEPT ![r].at = "report"]
       \/ /\ tmp.next = Missing
          /\ req' = [req EXCEPT ![r].at = "undoWrite"]
          /\ UNCHANGED <<lock, tmp>>
    /\ UNCHANGED <<catalog, faults, agreed, spoilt>>

\* The rollback writes the lock as this request had read it.
UndoWrite(r) == /\ req[r].at = "undoWrite"
                /\ tmp' = [tmp EXCEPT !.rollback = <<req[r].read>>]
                /\ req' = [req EXCEPT ![r].at = "undoRename"]
                /\ UNCHANGED <<catalog, lock, faults, agreed, spoilt>>

UndoRename(r) == /\ req[r].at = "undoRename"
                 /\ IF tmp.rollback = Missing THEN UNCHANGED <<lock, tmp>>
                    ELSE lock' = tmp.rollback[1] /\ tmp' = [tmp EXCEPT !.rollback = Missing]
                 /\ req' = [req EXCEPT ![r] = Over]
                 /\ UNCHANGED <<catalog, faults, agreed, spoilt>>

Report(r) == /\ req[r].at = "report"
             /\ req' = [req EXCEPT ![r] = Over]
             /\ agreed' = req[r].next
             /\ UNCHANGED <<catalog, lock, tmp, faults, spoilt>>

\* A file operation fails.  After the rename the request fails although the lock has changed.
Fail(r) == /\ faults < MaxFaults /\ req[r].at \in Under
           /\ req' = [req EXCEPT ![r] = IF @.at \in {"write", "rename"} THEN [@ EXCEPT !.at = "undoWrite"] ELSE Over]
           /\ spoilt' = IF req[r].at \in {"undoWrite", "undoRename", "report"} THEN spoilt \cup {"late"} ELSE spoilt
           /\ faults' = faults + 1
           /\ UNCHANGED <<catalog, lock, tmp, agreed>>

\* The process dies: a renamed file stays, a temporary one is overwritten by the next request.
Die == /\ faults < MaxFaults /\ \E r \in Requests : req[r].at \in Under
       /\ req' = [r \in Requests |-> IF req[r].at \in Under THEN Over ELSE req[r]]
       /\ spoilt' = spoilt \cup {"crash"}
       /\ faults' = faults + 1
       /\ UNCHANGED <<catalog, lock, tmp, agreed>>

\* The operator edits the catalog: a version goes.
Withdraw(m) == /\ m \in catalog /\ Cardinality(Catalog \ catalog) < MaxWithdrawn
               /\ catalog' = catalog \ {m}
               /\ UNCHANGED <<lock, tmp, req, faults, agreed, spoilt>>

Next == \/ \E r \in Requests : \/ \E action \in {"install", "upgrade"}, name \in Names, range \in Ranges :
                                    Begin(r, action, name, range)
                               \/ \E name \in Names : Begin(r, "uninstall", name, {})
                               \/ Solve(r) \/ Write(r) \/ Rename(r) \/ UndoWrite(r) \/ UndoRename(r)
                               \/ Report(r) \/ Fail(r)
        \/ \E m \in Catalog : Withdraw(m)
        \/ Die

Spec == Init /\ [][Next]_vars

(***************************************************************************)
(* Properties.                                                              *)
(***************************************************************************)

TypeOK == /\ lock \subseteq Catalog /\ agreed \subseteq Catalog /\ catalog \subseteq Catalog
          /\ \A r \in Requests : req[r].at \in {"new", "over"} \cup Under
          /\ faults \in 0..MaxFaults /\ spoilt \subseteq {"overlap", "late", "crash"}

\* Whatever requests overlap, fail or die, the lock is a closed graph of compatible packages, so
\* everything in it that the catalog still has runs; and with one request at a time it is what the
\* last success reported: a failed change leaves nothing behind ("rollback applied").
LockSound == /\ Closed(lock) /\ \A e \in lock : e.compatible
             /\ Admitted(catalog, lock) = lock \cap catalog
             /\ (spoilt = {} /\ \A r \in Requests : req[r].at \notin Under) => lock = agreed
=============================================================================
