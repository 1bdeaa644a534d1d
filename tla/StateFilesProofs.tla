-------------------------- MODULE StateFilesProofs --------------------------
(***************************************************************************)
(* Proofs about the components over files, as parts of StateFiles, for any  *)
(* clients, packages, senders, secrets, assets, checks, settings, targets   *)
(* and documents: skill packages, pairing, secrets and settings, releases   *)
(* and the gate, persona documents, and backups.                            *)
(***************************************************************************)
EXTENDS StateFiles, WellFoundedInduction, FiniteSetTheorems, SequenceTheorems, TLAPS

(***************************************************************************)
(* A step of all of them is a step of each of them, or leaves it alone.     *)
(***************************************************************************)

LEMMA PersonaPart == [Next]_vars => [Persona!Next]_PersonaVars
BY DEF Next, Rest, vars

LEMMA PairingPart == [Next]_vars => [Pairing!Next]_PairingVars
BY DEF Next, Rest, vars

LEMMA VaultPart == [Next]_vars => [Vault!Next]_VaultVars
BY DEF Next, Rest, vars

LEMMA PackagesPart == [Next]_vars => [Packages!Next]_PackagesVars
BY DEF Next, Rest, vars

LEMMA ReleasePart == [Next]_vars => [Release!Next]_ReleaseVars
BY DEF Next, Rest, vars

LEMMA GatePart == [Next]_vars => [Gate!Next]_GateVars
BY DEF Next, Rest, vars

LEMMA SetupPart == [Next]_vars => [Setup!Next]_SetupVars
BY DEF Next, Rest, vars

(***************************************************************************)
(* Skill packages.                                                         *)
(***************************************************************************)

\* The locks that a request may write: closed graphs of compatible packages.
SoundLocks == {l \in SUBSET Catalog : Packages!Closed(l) /\ \A e \in l : e.compatible}
Copies == {<<>>} \cup {<<l>> : l \in SoundLocks}
PackageRequests ==
    [at : {"new", "over"} \cup Packages!Under, action : {"none", "install", "upgrade", "uninstall"},
     name : Packages!Names \cup {"none"}, range : Ranges \cup {{}}, read : SoundLocks, next : SoundLocks]

PackagesTypes ==
    /\ kCatalog \in SUBSET Catalog
    /\ kLock \in SoundLocks /\ kAgreed \in SoundLocks
    /\ kTmp \in [next : Copies, rollback : Copies]
    /\ kReq \in [Clients -> PackageRequests]
    /\ kFaults \in 0 .. Faults
    /\ kSpoilt \in SUBSET {"overlap", "late", "crash"}

\* What a request under way has read, and will put back, is the lock last agreed on; its files are its own.
AsAgreed(r) ==
    /\ kReq[r].at \in Packages!Under \ {"report"} => kLock = kAgreed
    /\ kReq[r].at \in {"write", "rename", "undoWrite", "undoRename"} => kReq[r].read = kAgreed
    /\ kReq[r].at = "rename" => kTmp.next = <<kReq[r].next>>
    /\ kReq[r].at = "undoRename" => kTmp.rollback = <<kReq[r].read>>
    /\ kReq[r].at = "report" => kLock = kReq[r].next
OneAtATime == \A r, q \in Clients : kReq[r].at \in Packages!Under /\ kReq[q].at \in Packages!Under => r = q
Settled == (\A r \in Clients : kReq[r].at \notin Packages!Under) => kLock = kAgreed

PackagesInv ==
    /\ PackagesTypes
    /\ kSpoilt = {} => OneAtATime /\ Settled /\ \A r \in Clients : AsAgreed(r)

\* A closed lock stays closed without a package that nothing depends on.
LEMMA UninstalledIsSound ==
  ASSUME NEW l \in SoundLocks, NEW name, Packages!Dependents(l, name) = {}
  PROVE  {e \in l : e.name # name} \in SoundLocks
<1> DEFINE m == {e \in l : e.name # name}
<1>1. l \in SUBSET Catalog /\ Packages!Closed(l) /\ \A e \in l : e.compatible
  BY DEF SoundLocks
<1>2. ASSUME NEW e \in m, NEW d \in DOMAIN e.deps
      PROVE  \E f \in m : f.name = d /\ f.version \in e.deps[d]
  <2>1. PICK f \in l : f.name = d /\ f.version \in e.deps[d]
    BY <1>1 DEF Packages!Closed
  <2>2. name # d
    BY DEF Packages!Dependents
  <2> QED
    BY <2>1, <2>2
<1>3. \A e, f \in m : e.name = f.name => e = f
  BY <1>1 DEF Packages!Closed
<1>4. Packages!Closed(m)
  BY <1>2, <1>3 DEF Packages!Closed
<1> QED
  BY <1>1, <1>4 DEF SoundLocks

\* Whatever a request goes on to write is sound.
LEMMA OutcomesAreSound ==
  ASSUME PackagesInv, NEW r \in Clients
  PROVE  Packages!Outcomes(r, kCatalog, kLock) \subseteq SoundLocks
<1>1. kLock \in SoundLocks /\ kCatalog \in SUBSET Catalog
  BY DEF PackagesInv, PackagesTypes
<1>2. \A range : Packages!Installed(kCatalog, kLock, kReq[r].name, range) \subseteq SoundLocks
  BY <1>1 DEF Packages!Installed, Packages!Selections, SoundLocks
<1>3. Packages!Dependents(kLock, kReq[r].name) = {} => {e \in kLock : e.name # kReq[r].name} \in SoundLocks
  BY <1>1, UninstalledIsSound
<1> QED
  BY <1>2, <1>3 DEF Packages!Outcomes

LEMMA PackagesInitially == Init => PackagesInv
<1> SUFFICES ASSUME Init PROVE PackagesInv
  OBVIOUS
<1>1. {} \in SoundLocks
  BY DEF SoundLocks, Packages!Closed
<1>2. PackagesTypes
  BY <1>1, StateFilesAssumption
  DEF Init, Packages!Init, PackagesTypes, PackageRequests, Copies, Packages!NewRequest, Packages!Missing
<1> QED
  BY <1>2 DEF Init, Packages!Init, PackagesInv, OneAtATime, Settled, AsAgreed, Packages!NewRequest, Packages!Under

\* A step of request r, and the rest of the state that its place speaks of.
LEMMA RequestStep ==
  ASSUME PackagesInv, NEW r \in Clients, NEW q \in PackageRequests,
         kReq' = [kReq EXCEPT ![r] = q], PackagesTypes',
         kSpoilt' = {} =>
             /\ kSpoilt = {}
             /\ kReq[r].at \in Packages!Under \/ \A p \in Clients : kReq[p].at \notin Packages!Under
             /\ q.at \notin Packages!Under => kLock' = kAgreed'
             /\ AsAgreed(r)'
  PROVE  PackagesInv'
<1> SUFFICES ASSUME kSpoilt' = {} PROVE OneAtATime' /\ Settled' /\ \A p \in Clients : AsAgreed(p)'
  BY DEF PackagesInv
<1>1. kReq'[r] = q /\ \A p \in Clients \ {r} : kReq'[p] = kReq[p]
  BY DEF PackagesInv, PackagesTypes
<1>2. OneAtATime
  BY DEF PackagesInv
<1>3. \A p \in Clients \ {r} : kReq'[p].at \notin Packages!Under
  BY <1>1, <1>2 DEF OneAtATime
<1>4. OneAtATime' /\ Settled'
  BY <1>1, <1>3 DEF OneAtATime, Settled
<1>5. \A p \in Clients \ {r} : AsAgreed(p)'
  BY <1>3 DEF AsAgreed, Packages!Under
<1> QED
  BY <1>4, <1>5

LEMMA NewRequestFacts == Packages!NewRequest \in PackageRequests
<1>1. {} \in SoundLocks
  BY DEF SoundLocks, Packages!Closed
<1> QED
  BY <1>1 DEF PackageRequests, Packages!NewRequest

LEMMA BeginRequestStep ==
  ASSUME PackagesInv, NEW r \in Clients, NEW action \in {"install", "upgrade", "uninstall"},
         NEW name \in Packages!Names, NEW range \in Ranges \cup {{}}, Packages!Begin(r, action, name, range)
  PROVE  PackagesInv'
<1> DEFINE q == [Packages!NewRequest EXCEPT !.at = "read", !.action = action, !.name = name, !.range = range]
<1>1. Packages!NewRequest \in PackageRequests
  BY NewRequestFacts
<1>3. q \in PackageRequests /\ q.at = "read"
  BY <1>1 DEF PackageRequests, Packages!Under
<1> HIDE DEF q
<1>4. kReq' = [kReq EXCEPT ![r] = q] /\ UNCHANGED <<kCatalog, kLock, kTmp, kFaults, kAgreed>>
  BY DEF Packages!Begin, q
<1>5. PackagesTypes'
  BY <1>3, <1>4 DEF PackagesInv, PackagesTypes, Packages!Begin
<1>6. kSpoilt' = {} => kSpoilt = {} /\ \A p \in Clients : kReq[p].at \notin Packages!Under
  BY DEF Packages!Begin
<1>7. kReq'[r].at = "read"
  BY <1>3, <1>4 DEF PackagesInv, PackagesTypes
<1>8. kSpoilt' = {} => AsAgreed(r)'
  BY <1>4, <1>6, <1>7 DEF AsAgreed, PackagesInv, Settled, Packages!Under
<1> QED
  BY <1>3, <1>4, <1>5, <1>6, <1>8, RequestStep DEF Packages!Under

\* What the steps of a request under way have in common.
LEMMA RequestFacts ==
  ASSUME PackagesInv, NEW r \in Clients
  PROVE  /\ kReq[r] \in PackageRequests
         /\ Packages!Over \in PackageRequests /\ Packages!Over.at = "over"
         /\ \A at \in Packages!Under : [kReq[r] EXCEPT !.at = at] \in PackageRequests
         /\ \A at \in Packages!Under : /\ [kReq[r] EXCEPT !.at = at].at = at
                                       /\ [kReq[r] EXCEPT !.at = at].read = kReq[r].read
                                       /\ [kReq[r] EXCEPT !.at = at].next = kReq[r].next
         /\ \A q : [kReq EXCEPT ![r] = q][r] = q
         /\ kSpoilt = {} => AsAgreed(r)
<1>1. kReq[r] \in PackageRequests /\ \A q : [kReq EXCEPT ![r] = q][r] = q
  BY DEF PackagesInv, PackagesTypes
<1>2. {} \in SoundLocks
  BY DEF SoundLocks, Packages!Closed
<1>3. Packages!Over \in PackageRequests /\ Packages!Over.at = "over"
  BY <1>2 DEF PackageRequests, Packages!Over, Packages!NewRequest
<1>4. \A at \in Packages!Under : [kReq[r] EXCEPT !.at = at] \in PackageRequests
  BY <1>1 DEF PackageRequests
<1>5. \A at \in Packages!Under : /\ [kReq[r] EXCEPT !.at = at].at = at
                                 /\ [kReq[r] EXCEPT !.at = at].read = kReq[r].read
                                 /\ [kReq[r] EXCEPT !.at = at].next = kReq[r].next
  BY <1>1 DEF PackageRequests
<1> QED
  BY <1>1, <1>3, <1>4, <1>5 DEF PackagesInv

LEMMA SolveStep == ASSUME PackagesInv, NEW r \in Clients, Packages!Solve(r) PROVE PackagesInv'
<1>1. UNCHANGED <<kCatalog, kLock, kTmp, kFaults, kAgreed, kSpoilt>> /\ kReq[r].at = "read"
  BY DEF Packages!Solve
<1>2. PackagesTypes /\ (kReq' \in [Clients -> PackageRequests] => PackagesTypes')
  BY <1>1 DEF PackagesInv, PackagesTypes
<1>3. kSpoilt = {} => kLock = kAgreed
  BY <1>1, RequestFacts DEF AsAgreed, Packages!Under
<1>4. ASSUME NEW q \in PackageRequests, kReq' = [kReq EXCEPT ![r] = q],
             q.at = "over" \/ (q.at = "write" /\ q.read = kLock)
      PROVE  PackagesInv'
  <2>1. PackagesTypes'
    BY <1>2, <1>4 DEF PackagesTypes
  <2>2. kReq'[r] = q
    BY <1>4, RequestFacts
  <2>3. kSpoilt = {} => AsAgreed(r)'
    BY <1>1, <1>3, <1>4, <2>2 DEF AsAgreed, Packages!Under
  <2> QED
    BY <1>1, <1>3, <1>4, <2>1, <2>3, RequestStep DEF Packages!Under
<1>5. CASE kReq' = [kReq EXCEPT ![r] = Packages!Over]
  <2>1. PICK q \in PackageRequests : q = Packages!Over /\ q.at = "over"
    BY RequestFacts
  <2>2. kReq' = [kReq EXCEPT ![r] = q]
    BY <1>5, <2>1
  <2> QED
    BY <1>4, <2>1, <2>2
<1>6. ASSUME NEW next \in Packages!Outcomes(r, kCatalog, kLock),
             kReq' = [kReq EXCEPT ![r] = [Packages!NewRequest EXCEPT !.at = "write", !.read = kLock, !.next = next]]
      PROVE  PackagesInv'
  <2> DEFINE q == [Packages!NewRequest EXCEPT !.at = "write", !.read = kLock, !.next = next]
  <2>1. next \in SoundLocks /\ kLock \in SoundLocks
    BY OutcomesAreSound DEF PackagesInv, PackagesTypes
  <2>2. q \in PackageRequests /\ q.at = "write" /\ q.read = kLock
    BY <2>1, NewRequestFacts DEF PackageRequests, Packages!Under
  <2>3. kReq' = [kReq EXCEPT ![r] = q]
    BY <1>6
  <2> HIDE DEF q
  <2> QED
    BY <1>4, <2>2, <2>3
<1> QED
  BY <1>5, <1>6 DEF Packages!Solve

LEMMA WriteStep == ASSUME PackagesInv, NEW r \in Clients, Packages!Write(r) PROVE PackagesInv'
<1> DEFINE q == [kReq[r] EXCEPT !.at = "rename"]
<1>1. q \in PackageRequests /\ q.at = "rename" /\ q.read = kReq[r].read /\ q.next = kReq[r].next
  BY RequestFacts DEF Packages!Under
<1>2. kReq' = [kReq EXCEPT ![r] = q] /\ kReq[r].at = "write"
  BY DEF Packages!Write
<1>3. kReq[r].next \in SoundLocks /\ kTmp \in [next : Copies, rollback : Copies]
  BY RequestFacts DEF PackageRequests, PackagesInv, PackagesTypes
<1>4. kTmp' \in [next : Copies, rollback : Copies] /\ kTmp'.next = <<kReq[r].next>>
  BY <1>3 DEF Packages!Write, Copies
<1>5. PackagesTypes'
  BY <1>1, <1>2, <1>4 DEF PackagesInv, PackagesTypes, Packages!Write
<1>6. kReq'[r] = q
  BY <1>2, RequestFacts
<1>7. UNCHANGED <<kLock, kAgreed, kSpoilt>>
  BY DEF Packages!Write
<1>8. kSpoilt = {} => kLock = kAgreed /\ kReq[r].read = kAgreed
  BY <1>2, RequestFacts DEF AsAgreed, Packages!Under
<1>9. kSpoilt = {} => AsAgreed(r)'
  BY <1>1, <1>4, <1>6, <1>7, <1>8 DEF AsAgreed
<1> QED
  BY <1>1, <1>2, <1>5, <1>7, <1>9, RequestStep DEF Packages!Under

LEMMA RenameStep == ASSUME PackagesInv, NEW r \in Clients, Packages!Rename(r) PROVE PackagesInv'
<1>1. kReq[r].at = "rename" /\ UNCHANGED <<kCatalog, kFaults, kAgreed, kSpoilt>>
  BY DEF Packages!Rename
<1>2. kTmp \in [next : Copies, rollback : Copies]
  BY DEF PackagesInv, PackagesTypes
<1>3. CASE kTmp.next # Packages!Missing /\ kLock' = kTmp.next[1] /\ kTmp' = [kTmp EXCEPT !.next = Packages!Missing]
           /\ kReq' = [kReq EXCEPT ![r].at = "report"]
  <2> DEFINE q == [kReq[r] EXCEPT !.at = "report"]
  <2>1. q \in PackageRequests /\ q.at = "report" /\ q.next = kReq[r].next /\ kReq' = [kReq EXCEPT ![r] = q] /\ kReq'[r] = q
    BY <1>3, RequestFacts, ZenonT(60) DEF Packages!Under
  <2>2. kLock' \in SoundLocks /\ kTmp' \in [next : Copies, rollback : Copies]
    BY <1>2, <1>3 DEF Copies, Packages!Missing
  <2>3. PackagesTypes'
    BY <1>1, <2>1, <2>2 DEF PackagesInv, PackagesTypes
  <2>4. kSpoilt = {} => kLock' = kReq[r].next
    <3>1. kSpoilt = {} => kTmp.next = <<kReq[r].next>>
      BY <1>1, RequestFacts DEF AsAgreed
    <3> QED
      BY <1>3, <3>1
  <2>5. kSpoilt = {} => AsAgreed(r)'
    BY <1>1, <2>1, <2>4 DEF AsAgreed, Packages!Under
  <2> QED
    BY <1>1, <2>1, <2>3, <2>5, RequestStep DEF Packages!Under
<1>4. CASE kTmp.next = Packages!Missing /\ kReq' = [kReq EXCEPT ![r].at = "undoWrite"] /\ UNCHANGED <<kLock, kTmp>>
  <2> DEFINE q == [kReq[r] EXCEPT !.at = "undoWrite"]
  <2>1. q \in PackageRequests /\ q.at = "undoWrite" /\ q.read = kReq[r].read /\ kReq' = [kReq EXCEPT ![r] = q] /\ kReq'[r] = q
    BY <1>4, RequestFacts, ZenonT(60) DEF Packages!Under
  <2>2. PackagesTypes'
    BY <1>1, <1>4, <2>1 DEF PackagesInv, PackagesTypes
  <2>3. kSpoilt = {} => kLock = kAgreed /\ kReq[r].read = kAgreed
    BY <1>1, RequestFacts DEF AsAgreed, Packages!Under
  <2>4. kSpoilt = {} => AsAgreed(r)'
    BY <1>1, <1>4, <2>1, <2>3 DEF AsAgreed
  <2> QED
    BY <1>1, <2>1, <2>2, <2>4, RequestStep DEF Packages!Under
<1> QED
  BY <1>3, <1>4 DEF Packages!Rename

LEMMA UndoWriteStep == ASSUME PackagesInv, NEW r \in Clients, Packages!UndoWrite(r) PROVE PackagesInv'
<1> DEFINE q == [kReq[r] EXCEPT !.at = "undoRename"]
<1>1. q \in PackageRequests /\ q.at = "undoRename" /\ q.read = kReq[r].read
  BY RequestFacts DEF Packages!Under
<1>2. kReq' = [kReq EXCEPT ![r] = q] /\ kReq[r].at = "undoWrite"
  BY DEF Packages!UndoWrite
<1>3. kReq[r].read \in SoundLocks /\ kTmp \in [next : Copies, rollback : Copies]
  BY RequestFacts DEF PackageRequests, PackagesInv, PackagesTypes
<1>4. kTmp' \in [next : Copies, rollback : Copies] /\ kTmp'.rollback = <<kReq[r].read>>
  BY <1>3 DEF Packages!UndoWrite, Copies
<1>5. PackagesTypes'
  BY <1>1, <1>2, <1>4 DEF PackagesInv, PackagesTypes, Packages!UndoWrite
<1>6. kReq'[r] = q
  BY <1>2, RequestFacts
<1>7. UNCHANGED <<kLock, kAgreed, kSpoilt>>
  BY DEF Packages!UndoWrite
<1>8. kSpoilt = {} => kLock = kAgreed /\ kReq[r].read = kAgreed
  BY <1>2, RequestFacts DEF AsAgreed, Packages!Under
<1>9. kSpoilt = {} => AsAgreed(r)'
  BY <1>1, <1>4, <1>6, <1>7, <1>8 DEF AsAgreed
<1> QED
  BY <1>1, <1>2, <1>5, <1>7, <1>9, RequestStep DEF Packages!Under

LEMMA UndoRenameStep == ASSUME PackagesInv, NEW r \in Clients, Packages!UndoRename(r) PROVE PackagesInv'
<1>1. kReq[r].at = "undoRename" /\ UNCHANGED <<kCatalog, kFaults, kAgreed, kSpoilt>>
      /\ kReq' = [kReq EXCEPT ![r] = Packages!Over]
  BY DEF Packages!UndoRename
<1>2. kTmp \in [next : Copies, rollback : Copies] /\ kLock \in SoundLocks
  BY DEF PackagesInv, PackagesTypes
<1>3. kLock' \in SoundLocks /\ kTmp' \in [next : Copies, rollback : Copies]
  BY <1>2 DEF Packages!UndoRename, Copies, Packages!Missing
<1>4. PackagesTypes'
  BY <1>1, <1>3, RequestFacts DEF PackagesInv, PackagesTypes
<1>5. kSpoilt = {} => kLock' = kAgreed
  <2>1. kSpoilt = {} => kTmp.rollback = <<kReq[r].read>> /\ kReq[r].read = kAgreed
    BY <1>1, RequestFacts DEF AsAgreed
  <2> QED
    BY <2>1 DEF Packages!UndoRename, Packages!Missing
<1>6. kReq'[r].at = "over"
  BY <1>1, RequestFacts
<1>7. AsAgreed(r)'
  BY <1>6 DEF AsAgreed, Packages!Under
<1> QED
  BY <1>1, <1>4, <1>5, <1>7, RequestFacts, RequestStep DEF Packages!Under

LEMMA ReportStep == ASSUME PackagesInv, NEW r \in Clients, Packages!Report(r) PROVE PackagesInv'
<1>1. kReq[r].at = "report" /\ UNCHANGED <<kCatalog, kLock, kTmp, kFaults, kSpoilt>> /\ kAgreed' = kReq[r].next
      /\ kReq' = [kReq EXCEPT ![r] = Packages!Over]
  BY DEF Packages!Report
<1>2. kReq[r].next \in SoundLocks
  BY RequestFacts DEF PackageRequests
<1>3. PackagesTypes'
  BY <1>1, <1>2, RequestFacts DEF PackagesInv, PackagesTypes
<1>4. kSpoilt = {} => kLock = kAgreed'
  BY <1>1, RequestFacts DEF AsAgreed
<1>5. kReq'[r].at = "over"
  BY <1>1, RequestFacts
<1>6. AsAgreed(r)'
  BY <1>5 DEF AsAgreed, Packages!Under
<1> QED
  BY <1>1, <1>3, <1>4, <1>6, RequestFacts, RequestStep DEF Packages!Under

LEMMA FailedRequestStep == ASSUME PackagesInv, NEW r \in Clients, Packages!Fail(r) PROVE PackagesInv'
<1>1. kReq[r].at \in Packages!Under /\ UNCHANGED <<kCatalog, kLock, kTmp, kAgreed>> /\ kFaults' \in 0 .. Faults
      /\ kSpoilt' \in SUBSET {"overlap", "late", "crash"}
  BY StateFilesAssumption DEF Packages!Fail, PackagesInv, PackagesTypes
<1>2. kSpoilt' = {} => kSpoilt = {} /\ kReq[r].at \notin {"undoWrite", "undoRename", "report"}
  BY DEF Packages!Fail
<1>3. CASE kReq[r].at \in {"write", "rename"} /\ kReq' = [kReq EXCEPT ![r] = [kReq[r] EXCEPT !.at = "undoWrite"]]
  <2> DEFINE q == [kReq[r] EXCEPT !.at = "undoWrite"]
  <2>1. q \in PackageRequests /\ q.at = "undoWrite" /\ q.read = kReq[r].read /\ kReq'[r] = q
    BY <1>3, RequestFacts, ZenonT(60) DEF Packages!Under
  <2>2. PackagesTypes'
    BY <1>1, <1>3, <2>1 DEF PackagesInv, PackagesTypes
  <2>3. kSpoilt' = {} => AsAgreed(r)'
    BY <1>1, <1>2, <1>3, <2>1, RequestFacts DEF AsAgreed, Packages!Under
  <2> QED
    BY <1>1, <1>2, <1>3, <2>1, <2>2, <2>3, RequestStep DEF Packages!Under
<1>4. CASE kReq[r].at \notin {"write", "rename"} /\ kReq' = [kReq EXCEPT ![r] = Packages!Over]
  <2>1. PackagesTypes'
    BY <1>1, <1>4, RequestFacts DEF PackagesInv, PackagesTypes
  <2>2. kReq'[r].at = "over"
    BY <1>4, RequestFacts
  <2>3. AsAgreed(r)'
    BY <2>2 DEF AsAgreed, Packages!Under
  <2>4. kSpoilt' = {} => kLock = kAgreed
    BY <1>1, <1>2, RequestFacts DEF AsAgreed, Packages!Under
  <2> QED
    BY <1>1, <1>2, <1>4, <2>1, <2>3, <2>4, RequestFacts, RequestStep DEF Packages!Under
<1>5. kReq' = [kReq EXCEPT ![r] = IF kReq[r].at \in {"write", "rename"} THEN [kReq[r] EXCEPT !.at = "undoWrite"]
                                  ELSE Packages!Over]
  BY DEF Packages!Fail
<1> QED
  BY <1>3, <1>4, <1>5

LEMMA PackagesDieStep == ASSUME PackagesInv, Packages!Die PROVE PackagesInv'
<1>1. UNCHANGED <<kCatalog, kLock, kTmp, kAgreed>> /\ kFaults' \in 0 .. Faults
      /\ kSpoilt' \in SUBSET {"overlap", "late", "crash"} /\ kSpoilt' # {}
  BY StateFilesAssumption DEF Packages!Die, PackagesInv, PackagesTypes
<1>2. kReq' = [r \in Clients |-> IF kReq[r].at \in Packages!Under THEN Packages!Over ELSE kReq[r]]
  BY DEF Packages!Die
<1>3. kReq' \in [Clients -> PackageRequests]
  BY <1>2, RequestFacts
<1> QED
  BY <1>1, <1>3 DEF PackagesInv, PackagesTypes

LEMMA WithdrawStep == ASSUME PackagesInv, NEW m \in Catalog, Packages!Withdraw(m) PROVE PackagesInv'
BY DEF Packages!Withdraw, PackagesInv, PackagesTypes, OneAtATime, Settled, AsAgreed

LEMMA PackagesStep == PackagesInv /\ [Packages!Next]_PackagesVars => PackagesInv'
<1> SUFFICES ASSUME PackagesInv, [Packages!Next]_PackagesVars PROVE PackagesInv'
  OBVIOUS
<1>1. ASSUME NEW r \in Clients, NEW action \in {"install", "upgrade"}, NEW name \in Packages!Names,
             NEW range \in Ranges, Packages!Begin(r, action, name, range)
      PROVE  PackagesInv'
  BY <1>1, BeginRequestStep
<1>2. ASSUME NEW r \in Clients, NEW name \in Packages!Names, Packages!Begin(r, "uninstall", name, {})
      PROVE  PackagesInv'
  BY <1>2, BeginRequestStep
<1>3. CASE UNCHANGED PackagesVars
  BY <1>3 DEF PackagesVars, PackagesInv, PackagesTypes, OneAtATime, Settled, AsAgreed
<1> QED
  BY <1>1, <1>2, <1>3, SolveStep, WriteStep, RenameStep, UndoWriteStep, UndoRenameStep, ReportStep, FailedRequestStep,
     PackagesDieStep, WithdrawStep DEF Packages!Next

\* LockSound of the skill packages: whatever requests overlap, fail or die, the lock is a closed graph of
\* compatible packages, all of which run while the catalog has them; and with one request at a time a
\* failed change leaves the lock of the last success.  The invariant adds that the temporary and rollback
\* files and what each request has read and solved are sound as well: any of them may become the lock.
THEOREM LocksAreSound == Spec => []LockSound
<1>1. PackagesInv => LockSound
  <2> SUFFICES ASSUME PackagesInv PROVE Packages!TypeOK /\ Packages!LockSound
    BY DEF LockSound
  <2>1. kLock \subseteq Catalog /\ Packages!Closed(kLock) /\ \A e \in kLock : e.compatible
    BY DEF PackagesInv, PackagesTypes, SoundLocks
  <2>2. Packages!TypeOK
    <3>1. \A r \in Clients : kReq[r].at \in {"new", "over"} \cup Packages!Under
      BY RequestFacts DEF PackageRequests
    <3> QED
      BY <3>1 DEF PackagesInv, PackagesTypes, SoundLocks, Packages!TypeOK
  <2>3. Packages!Admitted(kCatalog, kLock) = kLock \cap kCatalog
    <3>1. \A e \in kLock : \A d \in DOMAIN e.deps : \E f \in kLock : f.name = d /\ f.version \in e.deps[d]
      BY <2>1 DEF Packages!Closed
    <3> QED
      BY <2>1, <3>1 DEF Packages!Admitted
  <2>4. (kSpoilt = {} /\ \A r \in Clients : kReq[r].at \notin Packages!Under) => kLock = kAgreed
    BY DEF PackagesInv, Settled
  <2> QED
    BY <2>1, <2>2, <2>3, <2>4 DEF Packages!LockSound
<1> QED
  BY <1>1, PackagesInitially, PackagesStep, PackagesPart, PTL DEF Spec

(***************************************************************************)
(* Pairing.                                                                *)
(***************************************************************************)

PairingRequests == [sender : Senders, code : Nat, expires : Nat]
PairingCalls ==
    [op : {"idle", "seed", "request", "list", "approve"},
     at : {"none", "check", "readPending", "writePending", "readAllow", "writeAllow"},
     sender : Senders \cup {"nobody"}, code : Nat, now : Nat,
     read : SUBSET (PairingRequests \cup Senders \cup Configured)]

\* Requests whose codes were drawn, and whose time is bounded.
Issued == {r \in PairingRequests : r.code \in 1 .. dCodes /\ r.expires <= dClock + Ttl}
Few(requests) == IsFiniteSet(requests) /\ Cardinality(requests) <= MaxPending

PairingTypes ==
    /\ dPending \in SUBSET Issued /\ Few(dPending)
    /\ dAllow \in SUBSET (Senders \cup Configured)
    /\ dCall \in [Pairing!Processes -> PairingCalls]
    /\ dClock \in 0 .. MaxTime /\ dCodes \in Nat /\ dDeaths \in 0 .. Faults
    /\ dChallenged \in SUBSET Issued /\ dApproved \in SUBSET Senders
    /\ dLost \in BOOLEAN

\* What a process carries from one file to the next.
CallSound(p) ==
    LET c == dCall[p]
    IN /\ c.now <= dClock
       /\ c.op = "request" => c.sender \in Senders
       /\ c.op = "seed" => c.code = 0
       /\ c.at \in {"check", "readPending", "writePending"} => c.op \in {"request", "list", "approve"}
       /\ c.at \in {"readAllow", "writeAllow"} => c.op \in {"seed", "approve"} /\ (c.op = "approve" => c.sender \in Senders)
       /\ c.at = "check" => c.op = "request"
       /\ c.at = "writePending" => c.read \in SUBSET Issued /\ Few(c.read)
       /\ c.at = "writeAllow" => c.read \in SUBSET (Senders \cup Configured)

\* The three promises of CodesHonoured.
LetIn == dApproved \subseteq dAllow
Good(r) == r \in dPending \/ Pairing!Approving(r)
StillGood == \A r \in dChallenged : r.expires > dClock => Good(r)
OneCodeEach == \A r, q \in Pairing!Active(dPending, dClock) : r.sender = q.sender => r = q

PairingInv ==
    /\ PairingTypes
    /\ \A p \in Pairing!Processes : CallSound(p)
    /\ ~dLost => LetIn /\ StillGood /\ OneCodeEach

LEMMA PairingIdle ==
  /\ Pairing!Idle \in PairingCalls
  /\ Pairing!Idle.op = "idle" /\ Pairing!Idle.at = "none" /\ Pairing!Idle.now = 0
BY DEF PairingCalls, Pairing!Idle

LEMMA PairingInitially == Init => PairingInv
<1> SUFFICES ASSUME Init PROVE PairingInv
  OBVIOUS
<1>1. IsFiniteSet({}) /\ Cardinality({}) = 0
  BY FS_EmptySet
<1>2. PairingTypes
  <2>1. dPending = {} /\ dAllow = {} /\ dChallenged = {} /\ dApproved = {} /\ dClock = 0 /\ dCodes = 0 /\ dDeaths = 0
        /\ dLost = FALSE
    BY DEF Init, Pairing!Init
  <2>2. dCall \in [Pairing!Processes -> PairingCalls]
    BY PairingIdle DEF Init, Pairing!Init
  <2>3. Few(dPending)
    BY <1>1, <2>1, StateFilesAssumption DEF Few
  <2>4. dClock \in 0 .. MaxTime /\ dDeaths \in 0 .. Faults
    BY <2>1, StateFilesAssumption
  <2> QED
    BY <2>1, <2>2, <2>3, <2>4 DEF PairingTypes
<1>3. \A p \in Pairing!Processes : dCall[p] = Pairing!Idle
  BY DEF Init, Pairing!Init
<1>4. \A p \in Pairing!Processes : CallSound(p)
  BY <1>2, <1>3, PairingIdle DEF CallSound, PairingTypes
<1>5. LetIn /\ StillGood /\ OneCodeEach
  BY DEF Init, Pairing!Init, LetIn, StillGood, OneCodeEach, Pairing!Active
<1> QED
  BY <1>2, <1>4, <1>5 DEF PairingInv

\* A step of process p: the other one is where it was.
LEMMA ProcessStep ==
  ASSUME PairingInv, NEW p \in Pairing!Processes, NEW c \in PairingCalls,
         dCall' = [dCall EXCEPT ![p] = c], dClock' = dClock, dCodes <= dCodes', PairingTypes', CallSound(p)',
         ~dLost' => LetIn' /\ StillGood' /\ OneCodeEach'
  PROVE  PairingInv'
<1>1. \A q \in Pairing!Processes \ {p} : dCall'[q] = dCall[q]
  BY DEF PairingInv, PairingTypes
<1>2. Issued \subseteq Issued'
  BY DEF Issued, PairingInv, PairingTypes
<1>3. ASSUME NEW q \in Pairing!Processes \ {p} PROVE CallSound(q)'
  BY <1>1, <1>2, <1>3 DEF PairingInv, CallSound, Few
<1> QED
  BY <1>3 DEF PairingInv

\* What the steps of a process have in common.
LEMMA PairingFacts ==
  ASSUME PairingInv, NEW p \in Pairing!Processes
  PROVE  /\ dCall[p] \in PairingCalls /\ CallSound(p) /\ PairingTypes
         /\ \A c : [dCall EXCEPT ![p] = c][p] = c
         /\ \A c \in PairingCalls : [dCall EXCEPT ![p] = c] \in [Pairing!Processes -> PairingCalls]
         /\ \A q \in Pairing!Processes \ {p} : \A c : [dCall EXCEPT ![p] = c][q] = dCall[q]
         /\ dClock \in Nat /\ dCodes \in Nat
BY DEF PairingInv, PairingTypes

\* A code being approved by one process is not lost by a step of the other, nor by one of a process that
\* approves nothing.
LEMMA ApprovingKept ==
  ASSUME PairingInv, NEW p \in Pairing!Processes, NEW c, dCall' = [dCall EXCEPT ![p] = c], NEW r \in dChallenged,
         Pairing!Approving(r),
         dCall[p].at \in {"readAllow", "writeAllow"} /\ dCall[p].op = "approve" =>
             c.at \in {"readAllow", "writeAllow"} /\ c.code = dCall[p].code
  PROVE  Pairing!Approving(r)'
<1>1. PICK q \in Pairing!Processes : dCall[q].at \in {"readAllow", "writeAllow"} /\ dCall[q].code = r.code
  BY DEF Pairing!Approving
<1>2. CASE q # p
  BY <1>1, <1>2, PairingFacts DEF Pairing!Approving
<1>3. CASE q = p
  <2>1. CallSound(p) /\ r \in Issued
    BY PairingFacts DEF PairingTypes
  <2>2. r.code # 0
    BY <2>1, PairingFacts DEF Issued
  <2>3. dCall[p].op = "approve"
    BY <1>1, <1>3, <2>1, <2>2 DEF CallSound
  <2>4. dCall'[p] = c
    BY PairingFacts
  <2> QED
    BY <1>1, <1>3, <2>3, <2>4 DEF Pairing!Approving
<1> QED
  BY <1>2, <1>3

\* A step that reads, or does nothing to the files.
LEMMA QuietProcess ==
  ASSUME PairingInv, NEW p \in Pairing!Processes, NEW c \in PairingCalls,
         dCall' = [dCall EXCEPT ![p] = c],
         UNCHANGED <<dPending, dAllow, dClock, dCodes, dChallenged, dApproved>>,
         dDeaths' \in 0 .. Faults, dLost' \in BOOLEAN, dLost => dLost',
         c.now <= dClock,
         c.op = "request" => c.sender \in Senders,
         c.op = "seed" => c.code = 0,
         c.at \in {"check", "readPending", "writePending"} => c.op \in {"request", "list", "approve"},
         c.at \in {"readAllow", "writeAllow"} => c.op \in {"seed", "approve"} /\ (c.op = "approve" => c.sender \in Senders),
         c.at = "check" => c.op = "request",
         c.at = "writePending" => c.read = dPending,
         c.at = "writeAllow" => c.read = dAllow,
         ~dLost' /\ dCall[p].at \in {"readAllow", "writeAllow"} /\ dCall[p].op = "approve" =>
             c.at \in {"readAllow", "writeAllow"} /\ c.code = dCall[p].code
  PROVE  PairingInv'
<1>1. dCall'[p] = c /\ dCall' \in [Pairing!Processes -> PairingCalls]
  BY PairingFacts
<1>2. PairingTypes' /\ Issued' = Issued
  BY <1>1 DEF PairingInv, PairingTypes, Issued, Few
<1>3. CallSound(p)'
  BY <1>1, <1>2 DEF CallSound, PairingInv, PairingTypes, Few
<1>4. ASSUME ~dLost' PROVE LetIn' /\ StillGood' /\ OneCodeEach'
  <2>1. LetIn /\ StillGood /\ OneCodeEach
    BY <1>4 DEF PairingInv
  <2>2. ASSUME NEW r \in dChallenged', r.expires > dClock' PROVE Good(r)'
    <3>1. r \in dChallenged /\ Good(r)
      BY <2>1, <2>2 DEF StillGood
    <3>2. Pairing!Approving(r) => Pairing!Approving(r)'
      BY <1>4, <3>1, ApprovingKept
    <3> QED
      BY <3>1, <3>2 DEF Good
  <2> QED
    BY <2>1, <2>2 DEF LetIn, StillGood, OneCodeEach, Pairing!Active
<1>5. dCodes <= dCodes'
  BY PairingFacts
<1> QED
  BY <1>2, <1>3, <1>4, <1>5, ProcessStep

\* A process that is done, having changed nothing.
LEMMA ProcessEnds ==
  ASSUME PairingInv, NEW p \in Pairing!Processes, dCall' = [dCall EXCEPT ![p] = Pairing!Idle],
         UNCHANGED <<dPending, dAllow, dClock, dCodes, dChallenged, dApproved>>,
         dDeaths' \in 0 .. Faults, dLost' \in BOOLEAN, dLost => dLost',
         dCall[p].at \in {"readAllow", "writeAllow"} /\ dCall[p].op = "approve" => dLost'
  PROVE  PairingInv'
<1>1. PICK c \in PairingCalls : c = Pairing!Idle /\ c.op = "idle" /\ c.at = "none" /\ c.now = 0
  BY PairingIdle
<1>2. c.now <= dClock /\ dCall' = [dCall EXCEPT ![p] = c]
  BY <1>1, PairingFacts
<1> QED
  BY <1>1, <1>2, QuietProcess

LEMMA BeginCallStep ==
  ASSUME PairingInv, NEW p \in Pairing!Processes, NEW op, NEW at, NEW sender, NEW code, Pairing!Begin(p, op, at, sender, code),
         \/ op = "seed" /\ at = "readAllow" /\ sender = "nobody" /\ code = 0
         \/ op = "request" /\ at = "check" /\ sender \in Senders /\ code = 0
         \/ op = "list" /\ at = "readPending" /\ sender = "nobody" /\ code = 0
         \/ op = "approve" /\ at = "readPending" /\ sender = "nobody" /\ code \in Nat
  PROVE  PairingInv'
<1> DEFINE c == [Pairing!Idle EXCEPT !.op = op, !.at = at, !.sender = sender, !.code = code, !.now = dClock]
<1>1. c \in PairingCalls /\ c.op = op /\ c.at = at /\ c.sender = sender /\ c.code = code /\ c.now = dClock
  BY PairingIdle, PairingFacts DEF PairingCalls
<1>2. dCall' = [dCall EXCEPT ![p] = c] /\ UNCHANGED <<dPending, dAllow, dClock, dCodes, dChallenged, dApproved>>
      /\ dDeaths' = dDeaths /\ dLost' = dLost
  BY DEF Pairing!Begin
<1>3. dCall[p].at = "none"
  BY PairingIdle DEF Pairing!Begin
<1>4. dDeaths \in 0 .. Faults /\ dLost \in BOOLEAN /\ dClock <= dClock
  BY PairingFacts DEF PairingTypes
<1> HIDE DEF c
<1> QED
  BY <1>1, <1>2, <1>3, <1>4, QuietProcess

LEMMA CheckApprovedStep ==
  ASSUME PairingInv, NEW p \in Pairing!Processes, Pairing!CheckApproved(p) PROVE PairingInv'
<1> DEFINE d == [dCall[p] EXCEPT !.at = "readPending"]
<1>1. d \in PairingCalls /\ d.op = dCall[p].op /\ d.at = "readPending" /\ d.sender = dCall[p].sender
      /\ d.code = dCall[p].code /\ d.now = dCall[p].now
  BY PairingFacts DEF PairingCalls
<1>2. CallSound(p) /\ dCall[p].at = "check" /\ UNCHANGED <<dPending, dAllow, dClock, dCodes, dChallenged, dApproved>>
      /\ dDeaths' = dDeaths /\ dLost' = dLost
  BY PairingFacts DEF Pairing!CheckApproved
<1>6. dDeaths \in 0 .. Faults /\ dLost \in BOOLEAN
  BY PairingFacts DEF PairingTypes
<1>7. dCall[p].now <= dClock /\ dCall[p].op = "request" /\ dCall[p].sender \in Senders
  BY <1>2 DEF CallSound
<1> HIDE DEF d
<1>3. CASE dCall' = [dCall EXCEPT ![p] = d]
  BY <1>1, <1>2, <1>3, <1>6, <1>7, QuietProcess
<1>4. CASE dCall' = [dCall EXCEPT ![p] = Pairing!Idle]
  BY <1>2, <1>4, <1>6, ProcessEnds
<1>5. dCall' = [dCall EXCEPT ![p] = IF dCall[p].sender \in dAllow THEN Pairing!Idle ELSE d]
  BY DEF Pairing!CheckApproved, d
<1> QED
  BY <1>3, <1>4, <1>5

LEMMA ReadPendingStep ==
  ASSUME PairingInv, NEW p \in Pairing!Processes, Pairing!ReadPending(p) PROVE PairingInv'
<1> DEFINE c == [dCall[p] EXCEPT !.at = "writePending", !.read = dPending]
<1>1. dPending \in SUBSET (PairingRequests \cup Senders \cup Configured)
  BY PairingFacts DEF PairingTypes, Issued
<1>2. c \in PairingCalls /\ c.op = dCall[p].op /\ c.at = "writePending" /\ c.sender = dCall[p].sender
      /\ c.code = dCall[p].code /\ c.now = dCall[p].now /\ c.read = dPending
  BY <1>1, PairingFacts DEF PairingCalls
<1>3. CallSound(p) /\ dCall[p].at = "readPending" /\ UNCHANGED <<dPending, dAllow, dClock, dCodes, dChallenged, dApproved>>
      /\ dDeaths' = dDeaths /\ dLost' = dLost
  BY PairingFacts DEF Pairing!ReadPending
<1>4. dCall' = [dCall EXCEPT ![p] = c]
  BY PairingFacts DEF Pairing!ReadPending
<1>5. dDeaths \in 0 .. Faults /\ dLost \in BOOLEAN
  BY PairingFacts DEF PairingTypes
<1>6. /\ dCall[p].now <= dClock /\ dCall[p].op \in {"request", "list", "approve"}
      /\ dCall[p].op = "request" => dCall[p].sender \in Senders
  BY <1>3 DEF CallSound
<1> HIDE DEF c
<1> QED
  BY <1>2, <1>3, <1>4, <1>5, <1>6, QuietProcess

LEMMA ReadAllowStep ==
  ASSUME PairingInv, NEW p \in Pairing!Processes, Pairing!ReadAllow(p) PROVE PairingInv'
<1> DEFINE c == [dCall[p] EXCEPT !.at = "writeAllow", !.read = dAllow]
<1>1. dAllow \in SUBSET (PairingRequests \cup Senders \cup Configured)
  BY PairingFacts DEF PairingTypes
<1>2. c \in PairingCalls /\ c.op = dCall[p].op /\ c.at = "writeAllow" /\ c.sender = dCall[p].sender
      /\ c.code = dCall[p].code /\ c.now = dCall[p].now /\ c.read = dAllow
  BY <1>1, PairingFacts DEF PairingCalls
<1>3. CallSound(p) /\ dCall[p].at = "readAllow" /\ UNCHANGED <<dPending, dAllow, dClock, dCodes, dChallenged, dApproved>>
      /\ dDeaths' = dDeaths /\ dLost' = dLost
  BY PairingFacts DEF Pairing!ReadAllow
<1>4. dCall' = [dCall EXCEPT ![p] = c]
  BY PairingFacts DEF Pairing!ReadAllow
<1>5. dDeaths \in 0 .. Faults /\ dLost \in BOOLEAN
  BY PairingFacts DEF PairingTypes
<1>6. /\ dCall[p].now <= dClock /\ dCall[p].op \in {"seed", "approve"}
      /\ dCall[p].op = "approve" => dCall[p].sender \in Senders
      /\ dCall[p].op = "seed" => dCall[p].code = 0
  BY <1>3 DEF CallSound
<1> HIDE DEF c
<1> QED
  BY <1>2, <1>3, <1>4, <1>5, <1>6, QuietProcess

LEMMA PairingDieStep ==
  ASSUME PairingInv, NEW p \in Pairing!Processes, Pairing!Die(p) PROVE PairingInv'
<1>1. /\ dDeaths' \in 0 .. Faults /\ dCall' = [dCall EXCEPT ![p] = Pairing!Idle]
      /\ UNCHANGED <<dPending, dAllow, dClock, dCodes, dChallenged, dApproved>>
  BY StateFilesAssumption, PairingFacts DEF Pairing!Die, PairingTypes
<1>2. dLost' \in BOOLEAN /\ (dLost => dLost')
      /\ (dCall[p].at \in {"readAllow", "writeAllow"} /\ dCall[p].op = "approve" => dLost')
  BY DEF Pairing!Die
<1> QED
  BY <1>1, <1>2, ProcessEnds

LEMMA PairingTickStep == ASSUME PairingInv, Pairing!Tick PROVE PairingInv'
<1>1. dClock' = dClock + 1 /\ dClock' \in 0 .. MaxTime
      /\ UNCHANGED <<dPending, dAllow, dCall, dCodes, dDeaths, dChallenged, dApproved, dLost>>
  BY StateFilesAssumption DEF Pairing!Tick, PairingInv, PairingTypes
<1>2. dClock \in Nat /\ Ttl \in Nat
  BY StateFilesAssumption DEF PairingInv, PairingTypes
<1>3. Issued \subseteq Issued'
  BY <1>1, <1>2 DEF Issued, PairingRequests
<1>4. PairingTypes'
  BY <1>1, <1>3 DEF PairingInv, PairingTypes, Few
<1>5. ASSUME NEW p \in Pairing!Processes PROVE CallSound(p)'
  <2>1. CallSound(p) /\ dCall[p].now \in Nat
    BY PairingFacts DEF PairingCalls
  <2> QED
    BY <1>1, <1>2, <1>3, <2>1 DEF CallSound, Few
<1>6. ASSUME ~dLost PROVE LetIn' /\ StillGood' /\ OneCodeEach'
  <2>1. LetIn /\ StillGood /\ OneCodeEach
    BY <1>6 DEF PairingInv
  <2>2. \A r \in PairingRequests : r.expires > dClock' => r.expires > dClock
    BY <1>1, <1>2 DEF PairingRequests
  <2>3. dChallenged \subseteq PairingRequests /\ dPending \subseteq PairingRequests
    BY DEF PairingInv, PairingTypes, Issued
  <2>4. \A r : Good(r)' <=> Good(r)
    BY <1>1 DEF Good, Pairing!Approving
  <2>5. StillGood'
    BY <1>1, <2>1, <2>2, <2>3, <2>4 DEF StillGood
  <2>6. Pairing!Active(dPending, dClock)' \subseteq Pairing!Active(dPending, dClock)
    BY <1>1, <2>2, <2>3 DEF Pairing!Active
  <2> QED
    BY <1>1, <2>1, <2>5, <2>6 DEF LetIn, OneCodeEach
<1> QED
  BY <1>1, <1>4, <1>5, <1>6 DEF PairingInv

\* What is left of the requests that were read, and how many they are.
LEMMA ActiveFacts ==
  ASSUME PairingInv, NEW p \in Pairing!Processes, dCall[p].at = "writePending"
  PROVE  LET active == Pairing!Active(dCall[p].read, dCall[p].now)
         IN /\ dCall[p].read \in SUBSET Issued /\ active \subseteq dCall[p].read
            /\ \A part \in SUBSET dCall[p].read : Few(part)
            /\ \A r \in dCall[p].read : r.expires > dClock => r \in active
<1>1. CallSound(p) /\ dCall[p].now \in Nat
  BY PairingFacts DEF PairingCalls
<1>2. dCall[p].read \in SUBSET Issued /\ Few(dCall[p].read) /\ dCall[p].now <= dClock
  BY <1>1 DEF CallSound
<1>3. ASSUME NEW part \in SUBSET dCall[p].read PROVE Few(part)
  <2>1. IsFiniteSet(part) /\ Cardinality(part) <= Cardinality(dCall[p].read)
    BY <1>2, FS_Subset DEF Few
  <2>2. Cardinality(part) \in Nat /\ Cardinality(dCall[p].read) \in Nat
    BY <1>2, <2>1, FS_CardinalityType DEF Few
  <2> QED
    BY <1>2, <2>1, <2>2, StateFilesAssumption DEF Few
<1>4. \A r \in dCall[p].read : r.expires \in Nat
  BY <1>2 DEF Issued, PairingRequests
<1>5. \A r \in dCall[p].read : r.expires > dClock => r.expires > dCall[p].now
  BY <1>1, <1>2, <1>4, PairingFacts
<1> QED
  BY <1>2, <1>3, <1>5 DEF Pairing!Active

\* Pruning keeps every request that is still good, and no other.
LEMMA PruneFacts ==
  ASSUME PairingInv, NEW p \in Pairing!Processes, dCall[p].at = "writePending", Pairing!Prune(p)
  PROVE  /\ dPending' \in SUBSET Issued /\ Few(dPending') /\ dLost' \in BOOLEAN
         /\ ~dLost' => ~dLost /\ dPending' \subseteq dPending /\ \A r \in dPending : r.expires > dClock => r \in dPending'
<1>1. dPending \in SUBSET Issued /\ Few(dPending) /\ dLost \in BOOLEAN
  BY PairingFacts DEF PairingTypes
<1> DEFINE active == Pairing!Active(dCall[p].read, dCall[p].now)
<1>2. /\ dCall[p].read \in SUBSET Issued /\ active \subseteq dCall[p].read /\ Few(active)
      /\ \A r \in dCall[p].read : r.expires > dClock => r \in active
  BY ActiveFacts
<1>3. CASE UNCHANGED <<dPending, dLost>>
  BY <1>1, <1>3
<1>4. CASE dPending' = active /\ dLost' = (dLost \/ dPending # dCall[p].read)
  BY <1>1, <1>2, <1>4
<1> QED
  BY <1>3, <1>4 DEF Pairing!Prune, Pairing!WriteRequests

\* The end of a step that wrote the pending requests and goes on to c.
LEMMA PendingWritten ==
  ASSUME PairingInv, NEW p \in Pairing!Processes, dCall[p].at = "writePending", NEW c \in PairingCalls,
         dCall' = [dCall EXCEPT ![p] = c], UNCHANGED <<dAllow, dClock, dDeaths, dApproved>>,
         dCodes' \in Nat, dCodes <= dCodes', dPending' \in SUBSET Issued', Few(dPending'), dLost' \in BOOLEAN,
         dChallenged' \in SUBSET Issued', CallSound(p)',
         ~dLost' => /\ ~dLost
                    /\ \A r \in dPending : r.expires > dClock => Good(r)'
                    /\ \A r \in dChallenged' \ dChallenged : Good(r)'
                    /\ OneCodeEach'
  PROVE  PairingInv'
<1>1. PairingTypes'
  BY PairingFacts DEF PairingTypes
<1>2. ASSUME ~dLost' PROVE LetIn' /\ StillGood'
  <2>1. LetIn /\ StillGood
    BY <1>2 DEF PairingInv
  <2>2. ASSUME NEW r \in dChallenged, r.expires > dClock PROVE Good(r)'
    <3>1. Good(r)
      BY <2>1, <2>2 DEF StillGood
    <3>2. Pairing!Approving(r) => Pairing!Approving(r)'
      BY ApprovingKept
    <3> QED
      BY <1>2, <2>2, <3>1, <3>2 DEF Good
  <2> QED
    BY <1>2, <2>1, <2>2 DEF LetIn, StillGood
<1> QED
  BY <1>1, <1>2, ProcessStep

LEMMA ListStep ==
  ASSUME PairingInv, NEW p \in Pairing!Processes, Pairing!List(p) PROVE PairingInv'
<1>1. /\ dCall[p].at = "writePending" /\ Pairing!Prune(p) /\ dCall' = [dCall EXCEPT ![p] = Pairing!Idle]
      /\ UNCHANGED <<dAllow, dClock, dCodes, dDeaths, dChallenged, dApproved>>
  BY DEF Pairing!List
<1>2. Issued' = Issued
  BY <1>1 DEF Issued
<1>3. OneCodeEach /\ dPending' \subseteq dPending => OneCodeEach'
  BY <1>1 DEF OneCodeEach, Pairing!Active
<1>4. CallSound(p)'
  BY <1>1, PairingIdle, PairingFacts DEF CallSound
<1>5. /\ dPending' \in SUBSET Issued' /\ Few(dPending') /\ dLost' \in BOOLEAN
      /\ ~dLost' => ~dLost /\ dPending' \subseteq dPending /\ \A r \in dPending : r.expires > dClock => r \in dPending'
  BY <1>1, <1>2, PruneFacts
<1>6. ~dLost => OneCodeEach
  BY DEF PairingInv
<1>7. dCodes' \in Nat /\ dCodes <= dCodes' /\ dChallenged' \in SUBSET Issued'
  BY <1>1, <1>2, PairingFacts DEF PairingTypes
<1> QED
  BY <1>1, <1>3, <1>4, <1>5, <1>6, <1>7, PairingIdle, PendingWritten DEF Good

LEMMA RequestPairingStep ==
  ASSUME PairingInv, NEW p \in Pairing!Processes, Pairing!RequestPairing(p) PROVE PairingInv'
<1> DEFINE c == dCall[p]
           active == Pairing!Active(c.read, c.now)
           new == [sender |-> c.sender, code |-> dCodes + 1, expires |-> c.now + Ttl]
<1>1. /\ c.at = "writePending" /\ c.op = "request" /\ dCall' = [dCall EXCEPT ![p] = Pairing!Idle]
      /\ UNCHANGED <<dAllow, dClock, dDeaths, dApproved>>
  BY DEF Pairing!RequestPairing
<1>2. CallSound(p)'
  BY <1>1, PairingIdle, PairingFacts DEF CallSound
<1>3. ~dLost => OneCodeEach
  BY DEF PairingInv
<1>4. CASE Pairing!Prune(p) /\ UNCHANGED <<dCodes, dChallenged>>
  <2>1. Issued' = Issued
    BY <1>1, <1>4 DEF Issued
  <2>2. OneCodeEach /\ dPending' \subseteq dPending => OneCodeEach'
    BY <1>1 DEF OneCodeEach, Pairing!Active
  <2>3. /\ dPending' \in SUBSET Issued' /\ Few(dPending') /\ dLost' \in BOOLEAN
        /\ ~dLost' => ~dLost /\ dPending' \subseteq dPending /\ \A r \in dPending : r.expires > dClock => r \in dPending'
    BY <1>1, <1>4, <2>1, PruneFacts
  <2>4. dCodes' \in Nat /\ dCodes <= dCodes' /\ dChallenged' \in SUBSET Issued'
    BY <1>4, <2>1, PairingFacts DEF PairingTypes
  <2> QED
    BY <1>1, <1>2, <1>3, <1>4, <2>2, <2>3, <2>4, PairingIdle, PendingWritten DEF Good
<1>5. CASE /\ \A r \in active : r.sender # c.sender
           /\ Pairing!Cardinality(active) < MaxPending
           /\ dPending' = active \cup {new} /\ dLost' = (dLost \/ dPending # c.read)
           /\ dCodes' = dCodes + 1 /\ dChallenged' = dChallenged \cup {new}
  <2>1. c \in PairingCalls /\ c.sender \in Senders /\ c.now \in Nat /\ c.now <= dClock /\ Ttl \in Nat /\ dClock' = dClock
    BY <1>1, PairingFacts, StateFilesAssumption DEF CallSound, PairingCalls
  <2>2. dCodes \in Nat /\ dClock \in Nat /\ dChallenged \in SUBSET Issued /\ dLost \in BOOLEAN
    BY PairingFacts DEF PairingTypes
  <2>3. Issued \subseteq Issued'
    BY <1>5, <2>1, <2>2 DEF Issued, PairingRequests
  <2>4. new \in Issued' /\ new.sender = c.sender
    BY <1>5, <2>1, <2>2 DEF Issued, PairingRequests
  <2>5. /\ c.read \in SUBSET Issued /\ active \subseteq c.read /\ Few(active)
        /\ \A r \in c.read : r.expires > dClock => r \in active
    BY <1>1, ActiveFacts
  <2> HIDE DEF active, new
  <2>6. Few(dPending')
    <3>1. Cardinality(active) < MaxPending /\ IsFiniteSet(active) /\ Cardinality(active) \in Nat
      BY <1>5, <2>5, FS_CardinalityType DEF Pairing!Cardinality, Cardinality, Few
    <3>2. IsFiniteSet(active \cup {new}) /\ (Cardinality(active \cup {new}) = Cardinality(active)
                                              \/ Cardinality(active \cup {new}) = Cardinality(active) + 1)
      BY <3>1, FS_AddElement
    <3> QED
      BY <1>5, <3>1, <3>2, StateFilesAssumption DEF Few
  <2>7. dPending' \in SUBSET Issued' /\ dChallenged' \in SUBSET Issued' /\ dLost' \in BOOLEAN
    BY <1>5, <2>2, <2>3, <2>4, <2>5
  <2>8. ASSUME ~dLost'
        PROVE  /\ ~dLost
               /\ \A r \in dPending : r.expires > dClock => Good(r)'
               /\ \A r \in dChallenged' \ dChallenged : Good(r)'
               /\ OneCodeEach'
    <3>1. ~dLost /\ dPending = c.read
      BY <1>5, <2>8
    <3>2. (\A r \in dPending : r.expires > dClock => Good(r)') /\ \A r \in dChallenged' \ dChallenged : Good(r)'
      BY <1>5, <2>5, <3>1 DEF Good
    <3>3. ASSUME NEW r \in Pairing!Active(dPending, dClock)', NEW q \in Pairing!Active(dPending, dClock)', r.sender = q.sender
          PROVE  r = q
      <4>1. (r \in active \/ r = new) /\ (q \in active \/ q = new)
        BY <1>5 DEF Pairing!Active
      <4>2. r \in active /\ q \in active => r = q
        BY <1>3, <2>1, <2>5, <3>1, <3>3 DEF OneCodeEach, Pairing!Active
      <4> QED
        BY <1>5, <2>4, <3>3, <4>1, <4>2
    <3> QED
      BY <3>1, <3>2, <3>3 DEF OneCodeEach
  <2>9. dCodes' \in Nat /\ dCodes <= dCodes'
    BY <1>5, <2>2
  <2> QED
    BY <1>1, <1>2, <2>6, <2>7, <2>8, <2>9, PairingIdle, PendingWritten
<1> QED
  BY <1>4, <1>5 DEF Pairing!RequestPairing, Pairing!WriteRequests

LEMMA ApproveStep ==
  ASSUME PairingInv, NEW p \in Pairing!Processes, Pairing!Approve(p) PROVE PairingInv'
<1> DEFINE c == dCall[p]
           active == Pairing!Active(c.read, c.now)
           found == {r \in c.read : r.code = c.code}
<1>1. c.at = "writePending" /\ c.op = "approve" /\ UNCHANGED <<dAllow, dClock, dCodes, dDeaths, dChallenged, dApproved>>
  BY DEF Pairing!Approve
<1>2. Issued' = Issued
  BY <1>1 DEF Issued
<1>3. ~dLost => OneCodeEach
  BY DEF PairingInv
<1>4. dCodes' \in Nat /\ dCodes <= dCodes' /\ dChallenged' \in SUBSET Issued' /\ dLost \in BOOLEAN
  BY <1>1, <1>2, PairingFacts DEF PairingTypes
<1>5. OneCodeEach /\ dPending' \subseteq dPending => OneCodeEach'
  BY <1>1 DEF OneCodeEach, Pairing!Active
<1>6. CASE Pairing!Prune(p) /\ dCall' = [dCall EXCEPT ![p] = Pairing!Idle]
  <2>1. CallSound(p)'
    BY <1>1, <1>6, PairingIdle, PairingFacts DEF CallSound
  <2>2. /\ dPending' \in SUBSET Issued' /\ Few(dPending') /\ dLost' \in BOOLEAN
        /\ ~dLost' => ~dLost /\ dPending' \subseteq dPending /\ \A r \in dPending : r.expires > dClock => r \in dPending'
    BY <1>1, <1>2, <1>6, PruneFacts
  <2> QED
    BY <1>1, <1>3, <1>4, <1>5, <1>6, <2>1, <2>2, PairingIdle, PendingWritten DEF Good
<1>7. ASSUME NEW s \in found, dPending' = active \ found, dLost' = (dLost \/ dPending # c.read),
             dCall' = [dCall EXCEPT ![p].at = "readAllow", ![p].sender = s.sender, ![p].read = {}]
      PROVE  PairingInv'
  <2> DEFINE d == [dCall[p] EXCEPT !.at = "readAllow", !.sender = s.sender, !.read = {}]
  <2>1. /\ c.read \in SUBSET Issued /\ active \subseteq c.read /\ \A part \in SUBSET c.read : Few(part)
        /\ \A r \in c.read : r.expires > dClock => r \in active
    BY <1>1, ActiveFacts
  <2>2. s.sender \in Senders
    BY <2>1 DEF Issued, PairingRequests
  <2>3. d \in PairingCalls /\ d.at = "readAllow" /\ d.op = "approve" /\ d.code = c.code /\ d.sender \in Senders /\ d.now = c.now
    BY <1>1, <2>2, PairingFacts, ZenonT(60) DEF PairingCalls
  <2>4. dCall' = [dCall EXCEPT ![p] = d]
    BY <1>7, PairingFacts
  <2>5. c.now <= dClock
    BY PairingFacts DEF CallSound
  <2> HIDE DEF d, active
  <2>6. dCall'[p] = d
    BY <2>4, PairingFacts
  <2>7. CallSound(p)'
    BY <1>1, <2>3, <2>5, <2>6 DEF CallSound
  <2>8. dPending' \in SUBSET Issued' /\ Few(dPending') /\ dLost' \in BOOLEAN
    BY <1>2, <1>4, <1>7, <2>1
  <2>9. ASSUME ~dLost'
        PROVE  ~dLost /\ OneCodeEach' /\ \A r \in dPending : r.expires > dClock => Good(r)'
    <3>1. ~dLost /\ dPending = c.read /\ dPending' \subseteq dPending
      BY <1>7, <2>1, <2>9
    <3>2. ASSUME NEW r \in dPending, r.expires > dClock PROVE Good(r)'
      <4>1. CASE r.code = c.code
        BY <2>3, <2>6, <4>1 DEF Good, Pairing!Approving
      <4>2. CASE r.code # c.code
        BY <1>7, <2>1, <3>1, <3>2, <4>2 DEF Good
      <4> QED
        BY <4>1, <4>2
    <3> QED
      BY <1>3, <1>5, <3>1, <3>2
  <2>10. dChallenged' \ dChallenged = {}
    BY <1>1
  <2> QED
    BY <1>1, <1>4, <2>3, <2>4, <2>7, <2>8, <2>9, <2>10, PendingWritten
<1> QED
  BY <1>6, <1>7 DEF Pairing!Approve, Pairing!WriteRequests

LEMMA WriteAllowStep ==
  ASSUME PairingInv, NEW p \in Pairing!Processes, Pairing!WriteAllow(p) PROVE PairingInv'
<1> DEFINE c == dCall[p]
<1>1. /\ c.at = "writeAllow" /\ dAllow' = Pairing!Merged(p) /\ dLost' = (dLost \/ dAllow # c.read)
      /\ dCall' = [dCall EXCEPT ![p] = Pairing!Idle] /\ UNCHANGED <<dPending, dClock, dCodes, dDeaths>>
  BY DEF Pairing!WriteAllow
<1>2. /\ c.read \in SUBSET (Senders \cup Configured) /\ c.op \in {"seed", "approve"}
      /\ c.op = "approve" => c.sender \in Senders
      /\ c.op = "seed" => c.code = 0
  BY <1>1, PairingFacts DEF CallSound
<1>3. dAllow' \in SUBSET (Senders \cup Configured) /\ c.read \subseteq dAllow' /\ (c.op = "approve" => c.sender \in dAllow')
  BY <1>1, <1>2 DEF Pairing!Merged, Pairing!Added
<1>4. \/ c.op = "approve" /\ dApproved' = dApproved \cup {c.sender} /\ dChallenged' = {r \in dChallenged : r.code # c.code}
      \/ c.op = "seed" /\ dApproved' = dApproved /\ dChallenged' = dChallenged
  BY <1>2 DEF Pairing!WriteAllow
<1>5. Issued' = Issued
  BY <1>1 DEF Issued
<1>6. PairingTypes'
  BY <1>1, <1>2, <1>3, <1>4, <1>5, PairingIdle, PairingFacts DEF PairingTypes, Few
<1>7. CallSound(p)'
  BY <1>1, PairingIdle, PairingFacts DEF CallSound
<1>8. ASSUME ~dLost' PROVE LetIn' /\ StillGood' /\ OneCodeEach'
  <2>1. LetIn /\ StillGood /\ OneCodeEach /\ c.read = dAllow
    BY <1>1, <1>8 DEF PairingInv
  <2>2. LetIn'
    BY <1>3, <1>4, <2>1 DEF LetIn
  <2>3. ASSUME NEW r \in dChallenged', r.expires > dClock' PROVE Good(r)'
    <3>1. r \in dChallenged /\ Good(r) /\ r.code # c.code
      <4>1. r \in Issued /\ r.code # 0
        BY <1>4, PairingFacts DEF PairingTypes, Issued
      <4> QED
        BY <1>1, <1>2, <1>4, <2>1, <2>3, <4>1 DEF StillGood
    <3>2. ASSUME Pairing!Approving(r) PROVE Pairing!Approving(r)'
      <4>1. PICK q \in Pairing!Processes : dCall[q].at \in {"readAllow", "writeAllow"} /\ dCall[q].code = r.code
        BY <3>2 DEF Pairing!Approving
      <4>2. q # p
        BY <3>1, <4>1
      <4> QED
        BY <1>1, <4>1, <4>2, PairingFacts DEF Pairing!Approving
    <3> QED
      BY <1>1, <3>1, <3>2 DEF Good
  <2> QED
    BY <1>1, <2>1, <2>2, <2>3 DEF StillGood, OneCodeEach, Pairing!Active
<1>9. dCodes <= dCodes' /\ Pairing!Idle \in PairingCalls
  BY <1>1, PairingIdle, PairingFacts
<1> QED
  BY <1>1, <1>6, <1>7, <1>8, <1>9, ProcessStep

LEMMA PairingStep == PairingInv /\ [Pairing!Next]_PairingVars => PairingInv'
<1> SUFFICES ASSUME PairingInv, [Pairing!Next]_PairingVars PROVE PairingInv'
  OBVIOUS
<1>1. {"gateway", "cli"} \subseteq Pairing!Processes
  BY DEF Pairing!Processes
<1>2. CASE Pairing!StartGateway
  BY <1>1, <1>2, BeginCallStep DEF Pairing!StartGateway
<1>3. CASE Pairing!ListPending
  BY <1>1, <1>3, BeginCallStep DEF Pairing!ListPending
<1>4. ASSUME NEW s \in Senders, Pairing!Authorize(s) PROVE PairingInv'
  BY <1>1, <1>4, BeginCallStep DEF Pairing!Authorize
<1>5. ASSUME NEW c \in 1 .. dCodes, Pairing!ApproveCode(c) PROVE PairingInv'
  <2>1. c \in Nat
    BY DEF PairingInv, PairingTypes
  <2> QED
    BY <1>1, <1>5, <2>1, BeginCallStep DEF Pairing!ApproveCode
<1>6. CASE UNCHANGED PairingVars
  BY <1>6 DEF PairingVars, PairingInv, PairingTypes, CallSound, Few, Issued, LetIn, StillGood, OneCodeEach, Good,
              Pairing!Active, Pairing!Approving
<1> QED
  BY <1>2, <1>3, <1>4, <1>5, <1>6, PairingTickStep, CheckApprovedStep, ReadPendingStep, RequestPairingStep, ListStep,
     ApproveStep, ReadAllowStep, WriteAllowStep, PairingDieStep DEF Pairing!Next

\* CodesHonoured of the pairing of senders: while no write undoes another and no approval is cut in two, a
\* sender reported as approved is let in, a code that was sent stays good until it expires or is approved,
\* and no sender has two.  The invariant adds what each process carries between a read and a write of one
\* of the two files: a request of a bounded, finite file, or a sender that is known.
THEOREM CodesAreHonoured == Spec => []CodesHonoured
<1>1. PairingInv => CodesHonoured
  <2> SUFFICES ASSUME PairingInv PROVE Pairing!TypeOK /\ Pairing!CodesHonoured
    BY DEF CodesHonoured
  <2>1. Pairing!TypeOK
    <3>1. Pairing!Cardinality(dPending) = Cardinality(dPending)
      BY DEF Pairing!Cardinality, Cardinality
    <3> QED
      BY <3>1 DEF PairingInv, PairingTypes, Few, Issued, Pairing!TypeOK
  <2>2. ~dLost => LetIn /\ StillGood /\ OneCodeEach
    BY DEF PairingInv
  <2> QED
    BY <2>1, <2>2 DEF LetIn, StillGood, OneCodeEach, Good, Pairing!CodesHonoured
<1> QED
  BY <1>1, PairingInitially, PairingStep, PairingPart, PTL DEF Spec

(***************************************************************************)
(* Secrets.                                                                *)
(***************************************************************************)

Rows == [status : {"none", "active", "revoked"}, required : BOOLEAN, expires : Nat]
Values == [version : Nat, value : Nat, key : Nat]
Settings == [Vault!Keys -> Nat]

VaultTypes ==
    /\ vRegistry \in [Secrets -> Rows]
    /\ vCurrent \in [Secrets -> Values]
    /\ vVersions \in [Secrets -> Seq(Values)]
    /\ vConfig \in Settings
    /\ vGateway \in [up : BOOLEAN, config : Settings, key : Nat]
    /\ vClock \in 0 .. MaxTime /\ vValues \in 0 .. MaxValues
    /\ vSaved \in [Secrets -> Nat] /\ vRekeyed \in BOOLEAN

\* The versions of a secret are numbered from one, the current one is the last.
Numbered(s) ==
    /\ \A i \in DOMAIN vVersions[s] : vVersions[s][i].version = i
    /\ vCurrent[s].version = Len(vVersions[s]) + (IF vCurrent[s] = Vault!NoValue THEN 0 ELSE 1)

\* A secret was saved last with the value it has while it is good, and read with the key it was saved with.
SecretSound(s) ==
    /\ vRegistry[s].status = "none" <=> vCurrent[s] = Vault!NoValue
    /\ vCurrent[s] # Vault!NoValue => vCurrent[s].value # 0 /\ vCurrent[s].key # 0
    /\ vSaved[s] = IF Vault!Status(s) = "active" THEN vCurrent[s].value ELSE 0
    /\ ~vRekeyed /\ vCurrent[s] # Vault!NoValue => vCurrent[s].key = Vault!KeyOf(vConfig)

\* A gateway that runs has a master key, and the one of the operator unless that was changed.
GatewaySound ==
    vGateway.up => /\ Vault!KeyOf(vGateway.config) # 0
                   /\ vGateway.key \in {0, Vault!KeyOf(vGateway.config)}
                   /\ ~vRekeyed => Vault!KeyOf(vConfig) = Vault!KeyOf(vGateway.config)

VaultInv ==
    /\ VaultTypes
    /\ \A s \in Secrets : SecretSound(s) /\ Numbered(s)
    /\ GatewaySound

LEMMA VaultFacts ==
  /\ Vault!None = 0 /\ "API_SECRET" \in Secrets /\ Secrets \subseteq Vault!Keys /\ Vault!MasterKey \in Vault!Keys
  /\ Vault!NoRow \in Rows /\ Vault!NoValue \in Values /\ Vault!NoRow.status = "none"
  /\ Vault!NoValue.version = 0 /\ Vault!NoValue.value = 0 /\ Vault!NoValue.key = 0
  /\ Vault!Never \in Nat /\ Vault!Never > MaxTime
  /\ Vault!Down \in [up : BOOLEAN, config : Settings, key : Nat] /\ ~Vault!Down.up
<1>1. Vault!Never \in Nat /\ Vault!Never > MaxTime
  BY StateFilesAssumption DEF Vault!Never
<1> QED
  BY <1>1, StateFilesAssumption DEF Vault!None, Vault!Keys, Vault!NoRow, Vault!NoValue, Vault!Down, Rows, Values, Settings

LEMMA KeyIsANumber == \A c \in Settings : Vault!KeyOf(c) \in Nat
BY VaultFacts DEF Settings, Vault!KeyOf

LEMMA VaultInitially == Init => VaultInv
<1> SUFFICES ASSUME Init PROVE VaultInv
  OBVIOUS
<1>1. /\ vRegistry = [s \in Secrets |-> Vault!NoRow] /\ vCurrent = [s \in Secrets |-> Vault!NoValue]
      /\ vVersions = [s \in Secrets |-> <<>>] /\ vConfig = [k \in Vault!Keys |-> 0] /\ vGateway = Vault!Down
      /\ vClock = 0 /\ vValues = 0 /\ vSaved = [s \in Secrets |-> 0] /\ vRekeyed = FALSE
  BY VaultFacts DEF Init, Vault!Init
<1>2. VaultTypes
  <2>1. vClock \in 0 .. MaxTime /\ vValues \in 0 .. MaxValues
    BY <1>1, StateFilesAssumption
  <2>2. vRegistry \in [Secrets -> Rows] /\ vCurrent \in [Secrets -> Values] /\ vVersions \in [Secrets -> Seq(Values)]
    BY <1>1, VaultFacts
  <2>3. vConfig \in Settings /\ vSaved \in [Secrets -> Nat] /\ vRekeyed \in BOOLEAN
    BY <1>1 DEF Settings
  <2> QED
    BY <1>1, <2>1, <2>2, <2>3, VaultFacts DEF VaultTypes
<1>3. ASSUME NEW s \in Secrets PROVE SecretSound(s) /\ Numbered(s)
  <2>1. vCurrent[s] = Vault!NoValue /\ vRegistry[s].status = "none" /\ vSaved[s] = 0 /\ vVersions[s] = <<>>
    BY <1>1, VaultFacts
  <2>2. Vault!Status(s) # "active"
    BY <2>1 DEF Vault!Status
  <2>3. DOMAIN vVersions[s] = {} /\ Len(vVersions[s]) = 0
    BY <2>1
  <2> QED
    BY <2>1, <2>2, <2>3, VaultFacts DEF SecretSound, Numbered
<1> QED
  BY <1>1, <1>2, <1>3, VaultFacts DEF VaultInv, GatewaySound

\* What is known of each secret, for the steps.
LEMMA SecretFacts ==
  ASSUME VaultInv, NEW s \in Secrets
  PROVE  /\ SecretSound(s) /\ Numbered(s) /\ VaultTypes
         /\ vRegistry[s] \in Rows /\ vCurrent[s] \in Values /\ vVersions[s] \in Seq(Values) /\ vSaved[s] \in Nat
         /\ vClock \in Nat /\ vClock <= MaxTime /\ Vault!KeyOf(vConfig) \in Nat
BY KeyIsANumber, StateFilesAssumption DEF VaultInv, VaultTypes

\* A value is saved: the one it replaces becomes a version, and the rest of the secrets stay.
LEMMA SavesStep ==
  ASSUME VaultInv, NEW s \in Secrets, NEW row \in Rows, row.status = "active", row.expires > vClock, Vault!Saves(s, row)
  PROVE  VaultInv'
<1> DEFINE new == [vCurrent[s] EXCEPT !.version = @ + 1, !.value = vValues + 1, !.key = Vault!KeyOf(vConfig)]
<1>1. /\ vValues' = vValues + 1 /\ vValues' \in 0 .. MaxValues /\ Vault!KeyOf(vConfig) # 0
      /\ vRegistry' = [vRegistry EXCEPT ![s] = row] /\ vSaved' = [vSaved EXCEPT ![s] = vValues + 1]
      /\ UNCHANGED <<vConfig, vGateway, vClock, vRekeyed>>
      /\ vVersions' = IF vCurrent[s] = Vault!NoValue THEN vVersions ELSE [vVersions EXCEPT ![s] = Append(@, vCurrent[s])]
  BY VaultFacts, StateFilesAssumption DEF Vault!Saves, Vault!Store, VaultInv, VaultTypes
<1>2. PICK v : v = [version |-> vCurrent[s].version + 1, value |-> vValues + 1, key |-> Vault!KeyOf(vConfig)]
  OBVIOUS
<1>3. vCurrent' = [vCurrent EXCEPT ![s] = v]
  BY <1>2 DEF Vault!Saves, Vault!Store
<1>4. /\ v \in Values /\ v # Vault!NoValue /\ v.value = vValues + 1 /\ v.value # 0
      /\ v.version = vCurrent[s].version + 1 /\ v.key = Vault!KeyOf(vConfig)
  <2>1. vCurrent[s].version \in Nat /\ vValues + 1 \in Nat /\ vValues + 1 # 0 /\ Vault!KeyOf(vConfig) \in Nat
    BY SecretFacts DEF VaultTypes, Values
  <2> QED
    BY <1>2, <2>1, VaultFacts DEF Values
<1>5. /\ vRegistry'[s] = row /\ vCurrent'[s] = v /\ vSaved'[s] = vValues + 1
      /\ \A q \in Secrets \ {s} : /\ vRegistry'[q] = vRegistry[q] /\ vCurrent'[q] = vCurrent[q] /\ vSaved'[q] = vSaved[q]
                                  /\ vVersions'[q] = vVersions[q]
  BY <1>1, <1>3 DEF VaultInv, VaultTypes
<1>6. vVersions' \in [Secrets -> Seq(Values)]
  <2>1. Append(vVersions[s], vCurrent[s]) \in Seq(Values)
    BY SecretFacts
  <2> QED
    BY <1>1, <2>1 DEF VaultInv, VaultTypes
<1>7. VaultTypes'
  <2>1. vValues + 1 \in Nat
    BY DEF VaultInv, VaultTypes
  <2> QED
    BY <1>1, <1>3, <1>4, <1>6, <2>1 DEF VaultInv, VaultTypes
<1>8. SecretSound(s)'
  <2>1. Vault!Status(s)' = "active"
    BY <1>1, <1>5, SecretFacts DEF Vault!Status, Rows
  <2> QED
    BY <1>1, <1>4, <1>5, <2>1 DEF SecretSound
<1>9. Numbered(s)'
  <2>1. /\ \A i \in DOMAIN vVersions[s] : vVersions[s][i].version = i
        /\ vCurrent[s].version = Len(vVersions[s]) + (IF vCurrent[s] = Vault!NoValue THEN 0 ELSE 1)
        /\ vVersions[s] \in Seq(Values)
    BY SecretFacts DEF Numbered
  <2>2. CASE vCurrent[s] = Vault!NoValue
    BY <1>1, <1>4, <1>5, <2>1, <2>2 DEF Numbered
  <2>3. CASE vCurrent[s] # Vault!NoValue
    <3>1. PICK o : o = vVersions[s]
      OBVIOUS
    <3>2. PICK e : e = vCurrent[s]
      OBVIOUS
    <3>3. o \in Seq(Values) /\ e \in Values /\ e.version = Len(o) + 1 /\ \A i \in DOMAIN o : o[i].version = i
      BY <2>1, <2>3, <3>1, <3>2, SecretFacts
    <3>4. vVersions'[s] = Append(o, e)
      BY <1>1, <2>3, <3>1, <3>2 DEF VaultInv, VaultTypes
    <3>5. Len(Append(o, e)) = Len(o) + 1 /\ \A i \in DOMAIN Append(o, e) : Append(o, e)[i].version = i
      BY <3>3
    <3> QED
      BY <1>4, <1>5, <3>2, <3>3, <3>4, <3>5 DEF Numbered
  <2> QED
    BY <2>2, <2>3
<1>10. ASSUME NEW q \in Secrets \ {s} PROVE SecretSound(q)' /\ Numbered(q)'
  <2>1. SecretSound(q) /\ Numbered(q)
    BY SecretFacts
  <2>2. Vault!Status(q)' = Vault!Status(q)
    BY <1>1, <1>5 DEF Vault!Status
  <2> QED
    BY <1>1, <1>5, <2>1, <2>2, ZenonT(60) DEF SecretSound, Numbered
<1>11. GatewaySound'
  BY <1>1 DEF VaultInv, GatewaySound
<1> QED
  BY <1>7, <1>8, <1>9, <1>10, <1>11 DEF VaultInv

LEMMA RevokeStep == ASSUME VaultInv, NEW s \in Secrets, Vault!RevokeSecret(s) PROVE VaultInv'
<1>1. /\ vRegistry[s].status # "none" /\ vRegistry' = [vRegistry EXCEPT ![s].status = "revoked"]
      /\ vSaved' = [vSaved EXCEPT ![s] = 0]
      /\ UNCHANGED <<vCurrent, vVersions, vConfig, vGateway, vClock, vValues, vRekeyed>>
  BY VaultFacts DEF Vault!RevokeSecret
<1>2. [vRegistry[s] EXCEPT !.status = "revoked"] \in Rows
  BY SecretFacts DEF Rows
<1>3. VaultTypes'
  BY <1>1, <1>2 DEF VaultInv, VaultTypes
<1>4. /\ vRegistry'[s].status = "revoked" /\ vSaved'[s] = 0
      /\ \A q \in Secrets \ {s} : vRegistry'[q] = vRegistry[q] /\ vSaved'[q] = vSaved[q]
  BY <1>1, SecretFacts DEF VaultTypes, Rows
<1>5. ASSUME NEW q \in Secrets PROVE SecretSound(q)' /\ Numbered(q)'
  <2>1. SecretSound(q) /\ Numbered(q)
    BY SecretFacts
  <2>2. IF q = s THEN Vault!Status(q)' = "revoked" ELSE Vault!Status(q)' = Vault!Status(q)
    BY <1>1, <1>4 DEF Vault!Status
  <2> QED
    BY <1>1, <1>4, <2>1, <2>2 DEF SecretSound, Numbered
<1>6. GatewaySound'
  BY <1>1 DEF VaultInv, GatewaySound
<1> QED
  BY <1>3, <1>5, <1>6 DEF VaultInv

LEMMA ConfigureStep ==
  ASSUME VaultInv, NEW k \in Vault!Keys, NEW v \in {Vault!None, vValues + 1}, Vault!Configure(k, v) PROVE VaultInv'
<1>1. /\ vValues' \in 0 .. MaxValues /\ vConfig' = [vConfig EXCEPT ![k] = v]
      /\ vRekeyed' = (vRekeyed \/ Vault!KeyOf(vConfig) \notin {0, Vault!KeyOf(vConfig')})
      /\ UNCHANGED <<vRegistry, vCurrent, vVersions, vGateway, vClock, vSaved>>
  BY VaultFacts, StateFilesAssumption DEF Vault!Configure, VaultInv, VaultTypes
<1>2. VaultTypes'
  <2>1. v \in Nat
    BY VaultFacts DEF VaultInv, VaultTypes
  <2> QED
    BY <1>1, <2>1 DEF VaultInv, VaultTypes, Settings
<1>3. ASSUME NEW s \in Secrets PROVE SecretSound(s)' /\ Numbered(s)'
  <2>1. SecretSound(s) /\ Numbered(s)
    BY SecretFacts
  <2>2. Vault!Status(s)' = Vault!Status(s)
    BY <1>1 DEF Vault!Status
  <2>3. ~vRekeyed' /\ vCurrent[s] # Vault!NoValue => vCurrent[s].key = Vault!KeyOf(vConfig')
    BY <1>1, <2>1 DEF SecretSound
  <2> QED
    BY <1>1, <2>1, <2>2, <2>3 DEF SecretSound, Numbered
<1>4. GatewaySound'
  BY <1>1 DEF VaultInv, GatewaySound
<1> QED
  BY <1>2, <1>3, <1>4 DEF VaultInv

\* A step of the gateway.
LEMMA GatewayStep ==
  ASSUME VaultInv, vGateway' \in [up : BOOLEAN, config : Settings, key : Nat], GatewaySound',
         UNCHANGED <<vRegistry, vCurrent, vVersions, vConfig, vClock, vValues, vSaved, vRekeyed>>
  PROVE  VaultInv'
<1>1. VaultTypes'
  BY DEF VaultInv, VaultTypes
<1>2. ASSUME NEW s \in Secrets PROVE SecretSound(s)' /\ Numbered(s)'
  BY SecretFacts DEF SecretSound, Numbered, Vault!Status
<1> QED
  BY <1>1, <1>2 DEF VaultInv

LEMMA StartGatewayStep == ASSUME VaultInv, Vault!StartGateway PROVE VaultInv'
<1>1. /\ Vault!Healthy(Vault!KeyOf(vConfig), vConfig)
      /\ vGateway' = [up |-> TRUE, config |-> vConfig, key |-> Vault!Resolved(0, vConfig)]
      /\ UNCHANGED <<vRegistry, vCurrent, vVersions, vConfig, vClock, vValues, vSaved, vRekeyed>>
  BY VaultFacts DEF Vault!StartGateway
<1>2. vConfig \in Settings /\ Vault!KeyOf(vConfig) \in Nat
  BY KeyIsANumber DEF VaultInv, VaultTypes
<1>3. Vault!Resolved(0, vConfig) \in {0, Vault!KeyOf(vConfig)}
  BY VaultFacts DEF Vault!Resolved
<1>4. Vault!KeyOf(vConfig) # 0
  <2> SUFFICES ASSUME Vault!KeyOf(vConfig) = 0 PROVE FALSE
    OBVIOUS
  <2>1. vConfig["API_SECRET"] = 0
    BY VaultFacts DEF Vault!KeyOf
  <2>2. Vault!VaultValue("API_SECRET", 0) = 0
    <3>1. SecretSound("API_SECRET")
      BY VaultFacts, SecretFacts
    <3> QED
      BY <3>1, VaultFacts DEF Vault!VaultValue, SecretSound
  <2>3. Vault!ReadSecret("API_SECRET", 0, vConfig) = 0
    BY <2>1, <2>2, VaultFacts DEF Vault!ReadSecret
  <2>4. "API_SECRET" \in Vault!Required
    BY DEF Vault!Required
  <2> QED
    BY <1>1, <2>3, <2>4, VaultFacts DEF Vault!Healthy
<1>5. GatewaySound'
  BY <1>1, <1>3, <1>4 DEF GatewaySound
<1>6. vGateway' \in [up : BOOLEAN, config : Settings, key : Nat]
  BY <1>1, <1>2, <1>3
<1> QED
  BY <1>1, <1>5, <1>6, GatewayStep

LEMMA StopGatewayStep == ASSUME VaultInv, Vault!StopGateway PROVE VaultInv'
BY VaultFacts, GatewayStep DEF Vault!StopGateway, GatewaySound

LEMMA GatewayReadsStep == ASSUME VaultInv, NEW s \in Secrets, Vault!GatewayReads(s) PROVE VaultInv'
<1>1. /\ vGateway.up /\ vGateway' = [vGateway EXCEPT !.key = Vault!KeyOf(vGateway.config)]
      /\ UNCHANGED <<vRegistry, vCurrent, vVersions, vConfig, vClock, vValues, vSaved, vRekeyed>>
  BY DEF Vault!GatewayReads
<1>2. vGateway \in [up : BOOLEAN, config : Settings, key : Nat] /\ Vault!KeyOf(vGateway.config) \in Nat
  BY KeyIsANumber DEF VaultInv, VaultTypes
<1>3. vGateway' \in [up : BOOLEAN, config : Settings, key : Nat] /\ vGateway'.config = vGateway.config
      /\ vGateway'.key = Vault!KeyOf(vGateway.config)
  BY <1>1, <1>2
<1>4. GatewaySound'
  BY <1>1, <1>3 DEF VaultInv, GatewaySound
<1> QED
  BY <1>1, <1>3, <1>4, GatewayStep

LEMMA VaultTickStep == ASSUME VaultInv, Vault!Tick PROVE VaultInv'
<1>1. /\ vClock' = vClock + 1 /\ vClock' \in 0 .. MaxTime /\ vClock \in Nat
      /\ vSaved' = [s \in Secrets |-> IF vRegistry[s].expires <= vClock + 1 THEN 0 ELSE vSaved[s]]
      /\ UNCHANGED <<vRegistry, vCurrent, vVersions, vConfig, vGateway, vValues, vRekeyed>>
  BY VaultFacts, StateFilesAssumption DEF Vault!Tick, VaultInv, VaultTypes
<1>2. VaultTypes'
  BY <1>1 DEF VaultInv, VaultTypes
<1>3. ASSUME NEW s \in Secrets PROVE SecretSound(s)' /\ Numbered(s)'
  <2>1. SecretSound(s) /\ Numbered(s) /\ vRegistry[s].expires \in Nat /\ vSaved[s] \in Nat
    BY SecretFacts DEF Rows
  <2>2. CASE vRegistry[s].expires <= vClock + 1
    <3>1. vSaved'[s] = 0 /\ Vault!Status(s)' # "active"
      BY <1>1, <2>2 DEF Vault!Status
    <3> QED
      BY <1>1, <2>1, <3>1 DEF SecretSound, Numbered
  <2>3. CASE vRegistry[s].expires > vClock + 1
    <3>1. vSaved'[s] = vSaved[s] /\ Vault!Status(s)' = Vault!Status(s)
      BY <1>1, <2>1, <2>3 DEF Vault!Status
    <3> QED
      BY <1>1, <2>1, <3>1 DEF SecretSound, Numbered
  <2> QED
    BY <1>1, <2>1, <2>2, <2>3
<1>4. GatewaySound'
  BY <1>1 DEF VaultInv, GatewaySound
<1> QED
  BY <1>2, <1>3, <1>4 DEF VaultInv

LEMMA VaultStep == VaultInv /\ [Vault!Next]_VaultVars => VaultInv'
<1> SUFFICES ASSUME VaultInv, [Vault!Next]_VaultVars PROVE VaultInv'
  OBVIOUS
<1>1. ASSUME NEW expires \in {vClock + Window, Vault!Never} PROVE expires \in Nat /\ expires > vClock
  BY <1>1, VaultFacts, StateFilesAssumption DEF VaultInv, VaultTypes
<1>2. ASSUME NEW s \in Secrets, NEW expires \in {vClock + Window, Vault!Never}, Vault!RotateSecret(s, expires)
      PROVE  VaultInv'
  <2>1. PICK row : row = [vRegistry[s] EXCEPT !.expires = expires]
    OBVIOUS
  <2>2. row \in Rows /\ row.status = "active" /\ row.expires = expires
    BY <1>1, <1>2, <2>1, SecretFacts DEF Vault!RotateSecret, Rows
  <2>3. Vault!Saves(s, row)
    BY <1>2, <2>1 DEF Vault!RotateSecret
  <2> QED
    BY <1>1, <2>2, <2>3, SavesStep
<1>3. ASSUME NEW s \in Secrets, NEW expires \in {vClock + Window, Vault!Never}, NEW required \in BOOLEAN,
             Vault!SetSecret(s, required, expires)
      PROVE  VaultInv'
  <2>1. PICK row : row = [status |-> "active", required |-> required, expires |-> expires]
    OBVIOUS
  <2>2. row \in Rows /\ row.status = "active" /\ row.expires = expires
    BY <1>1, <2>1 DEF Rows
  <2>3. Vault!Saves(s, row)
    BY <1>3, <2>1 DEF Vault!SetSecret
  <2> QED
    BY <1>1, <2>2, <2>3, SavesStep
<1>4. CASE UNCHANGED VaultVars
  BY <1>4 DEF VaultVars, VaultInv, VaultTypes, SecretSound, Numbered, GatewaySound, Vault!Status
<1> QED
  BY <1>2, <1>3, <1>4, RevokeStep, ConfigureStep, StartGatewayStep, StopGatewayStep, GatewayReadsStep, VaultTickStep
  DEF Vault!Next

LEMMA SecretsAreRead == VaultInv => Vault!TypeOK /\ Vault!SavedIsRead
<1> SUFFICES ASSUME VaultInv PROVE Vault!TypeOK /\ Vault!SavedIsRead
  OBVIOUS
<1>1. ASSUME NEW s \in Secrets
      PROVE  /\ Vault!Status(s) \in {"none", "active", "revoked", "expired"}
             /\ (vRegistry[s].status = "none") <=> (vCurrent[s] = Vault!NoValue)
  BY SecretFacts DEF SecretSound, Vault!Status, Rows
<1>2. ASSUME NEW s \in Secrets, vGateway.up
      PROVE  /\ Vault!ReadSecret(s, Vault!GatewayKey, vGateway.config) \in {vSaved[s], vGateway.config[s]}
             /\ vSaved[s] # Vault!None /\ ~vRekeyed =>
                    Vault!ReadSecret(s, Vault!GatewayKey, vGateway.config) = vSaved[s]
  <2>1. SecretSound(s) /\ GatewaySound
    BY SecretFacts DEF VaultInv
  <2>2. Vault!VaultValue(s, Vault!GatewayKey) # 0 => Vault!VaultValue(s, Vault!GatewayKey) = vSaved[s]
    BY <2>1, VaultFacts DEF Vault!VaultValue, SecretSound
  <2>3. ASSUME vSaved[s] # 0, ~vRekeyed PROVE Vault!VaultValue(s, Vault!GatewayKey) = vSaved[s]
    <3>1. Vault!Status(s) = "active" /\ vCurrent[s].value = vSaved[s] /\ vCurrent[s] # Vault!NoValue
      BY <2>1, <2>3, VaultFacts DEF SecretSound
    <3>2. Vault!GatewayKey = Vault!KeyOf(vConfig)
      BY <1>2, <2>1, <2>3, VaultFacts DEF GatewaySound, Vault!GatewayKey
    <3> QED
      BY <2>1, <2>3, <3>1, <3>2 DEF SecretSound, Vault!VaultValue
  <2> QED
    BY <2>2, <2>3, VaultFacts DEF Vault!ReadSecret
<1>3. Vault!TypeOK
  BY <1>1 DEF VaultInv, VaultTypes, Vault!TypeOK
<1>4. Vault!SavedIsRead
  BY <1>2, SecretFacts DEF Numbered, Vault!SavedIsRead
<1> QED
  BY <1>3, <1>4

(***************************************************************************)
(* Settings.                                                               *)
(***************************************************************************)

\* The contents that the model tells apart.
Words == {"", "openai", "old", "new", "quick"}
Configs == [asked : [Setup!Keys -> Words], enabled : BOOLEAN, crons : Words]
Answers == UNION {[keys -> Words] : keys \in SUBSET Setup!Keys}
Wizards ==
    [at : {"none", "asking", "summary", "saving", "success", "validation_error", "cancelled", "failed"},
     section : DOMAIN Sections, field : Nat, editing : BOOLEAN,
     base : Configs, candidate : Configs, updates : Answers, result : Configs, before : Configs]

\* The wizard is at a field of a section, in the summary at the first, and starts without an answer.
Placed(w) ==
    /\ w.field \in DOMAIN Sections[w.section]
    /\ w.at = "summary" => w.field = 1
    /\ w.at = "none" => DOMAIN w.updates = {}

\* The two accounts of the answers agree: what is shown is what was read under what is to be saved.
Overlaid(w) ==
    /\ \A k \in Setup!Keys : w.candidate.asked[k] = IF k \in DOMAIN w.updates THEN w.updates[k] ELSE w.base.asked[k]
    /\ w.candidate.crons = w.base.crons

\* A configuration read from a file: as it is there, but for the provider that it lacks.
BasedOn(base, config) ==
    /\ base.crons = config.crons
    /\ \A k \in Setup!Keys : base.asked[k] = config.asked[k] \/ (k = Setup!Provider /\ config.asked[k] = "")

\* What was confirmed is what was shown, and is valid.
Confirmed(w) == w.result = Setup!SyncDerived(w.candidate) /\ ~Setup!Errors(w.result)

SetupTypes ==
    /\ wFile \in Configs /\ wWizard \in Wizards
    /\ wQuick \in [at : {"none", "asking", "done"}, base : Configs]
    /\ wOverlapped \in BOOLEAN

SetupInv ==
    /\ SetupTypes
    /\ Placed(wWizard) /\ Overlaid(wWizard)
    /\ wQuick.at # "done" => ~wOverlapped
    /\ wWizard.at \in {"asking", "summary", "saving"} /\ ~wOverlapped => BasedOn(wWizard.base, wFile)
    /\ wWizard.at \in {"saving", "success"} => Confirmed(wWizard)
    /\ wWizard.at = "success" /\ ~wOverlapped => BasedOn(wWizard.base, wWizard.before)

LEMMA SectionFacts ==
  /\ Sections \in Seq(Seq(STRING)) /\ 1 \in DOMAIN Sections
  /\ \A s \in DOMAIN Sections : Sections[s] \in Seq(STRING) /\ 1 \in DOMAIN Sections[s] /\ DOMAIN Sections[s] = 1 .. Len(Sections[s])
  /\ \A s \in DOMAIN Sections : \A i \in DOMAIN Sections[s] : Sections[s][i] \in Setup!Keys
<1>1. Sections \in Seq(Seq(STRING)) /\ Sections # <<>> /\ \A s \in DOMAIN Sections : Sections[s] # <<>>
  BY StateFilesAssumption
<1>2. 1 \in DOMAIN Sections /\ \A s \in DOMAIN Sections : Sections[s] \in Seq(STRING)
  BY <1>1
<1>3. ASSUME NEW s \in DOMAIN Sections PROVE 1 \in DOMAIN Sections[s] /\ DOMAIN Sections[s] = 1 .. Len(Sections[s])
  <2>1. PICK q \in Seq(STRING) : q = Sections[s] /\ q # <<>>
    BY <1>1, <1>2
  <2>2. 1 \in DOMAIN q /\ DOMAIN q = 1 .. Len(q)
    BY <2>1
  <2> QED
    BY <2>1, <2>2
<1>4. \A s \in DOMAIN Sections : \A i \in DOMAIN Sections[s] : Sections[s][i] \in Setup!Keys
  BY DEF Setup!Keys
<1> QED
  BY <1>1, <1>2, <1>3, <1>4

\* What applying answers to a configuration makes of it.
LEMMA ApplyFacts ==
  ASSUME NEW config \in Configs, NEW answers \in Answers
  PROVE  /\ Setup!Apply(config, answers) \in Configs
         /\ Setup!Apply(config, answers).crons = config.crons
         /\ \A k \in Setup!Keys : Setup!Apply(config, answers).asked[k] =
                                      IF k \in DOMAIN answers THEN answers[k] ELSE config.asked[k]
         /\ Setup!Apply(config, answers).enabled =
                (Setup!Has(Setup!Apply(config, answers), Setup!Token) /\ Setup!Has(Setup!Apply(config, answers), Setup!UserId))
<1>1. PICK asked : asked = [k \in Setup!Keys |-> IF k \in DOMAIN answers THEN answers[k] ELSE config.asked[k]]
  OBVIOUS
<1>2. asked \in [Setup!Keys -> Words]
  BY <1>1 DEF Configs, Answers
<1>3. PICK mid : mid = [config EXCEPT !.asked = asked]
  OBVIOUS
<1>4. mid \in Configs /\ mid.asked = asked /\ mid.crons = config.crons
  BY <1>2, <1>3 DEF Configs
<1>5. Setup!Apply(config, answers) = Setup!SyncDerived(mid)
  BY <1>1, <1>3 DEF Setup!Apply
<1>6. /\ Setup!SyncDerived(mid) \in Configs /\ Setup!SyncDerived(mid).asked = asked /\ Setup!SyncDerived(mid).crons = config.crons
      /\ Setup!SyncDerived(mid).enabled = (Setup!Has(mid, Setup!Token) /\ Setup!Has(mid, Setup!UserId))
  BY <1>4 DEF Configs, Setup!SyncDerived, Setup!Has
<1>7. \A k : Setup!Has(Setup!SyncDerived(mid), k) = Setup!Has(mid, k)
  BY <1>4, <1>6 DEF Setup!Has
<1> QED
  BY <1>1, <1>5, <1>6, <1>7

LEMMA ConfigFacts ==
  ASSUME NEW asked \in [Setup!Keys -> Words], NEW enabled \in BOOLEAN, NEW crons \in Words
  PROVE  /\ Setup!Config(asked, enabled, crons) \in Configs
         /\ Setup!Config(asked, enabled, crons).asked = asked
         /\ Setup!Config(asked, enabled, crons).enabled = enabled
         /\ Setup!Config(asked, enabled, crons).crons = crons
BY DEF Setup!Config, Configs

LEMMA DefaultFacts ==
  /\ Setup!DEFAULT \in Configs /\ Setup!Closed \in Wizards
  /\ Setup!Closed.at = "none" /\ Setup!Closed.section = 1 /\ Setup!Closed.field = 1
  /\ Setup!Closed.base = Setup!DEFAULT /\ Setup!Closed.candidate = Setup!DEFAULT /\ Setup!Closed.updates = [k \in {} |-> ""]
<1>1. Setup!DEFAULT \in Configs
  <2>1. "" \in Words /\ [k \in Setup!Keys |-> ""] \in [Setup!Keys -> Words]
    BY DEF Words
  <2> QED
    BY <2>1, ConfigFacts DEF Setup!DEFAULT
<1>2. [k \in {} |-> ""] \in Answers
  <2>1. [k \in {} |-> ""] \in [{} -> Words] /\ {} \in SUBSET Setup!Keys
    OBVIOUS
  <2> QED
    BY <2>1 DEF Answers
<1> QED
  BY <1>1, <1>2, SectionFacts DEF Setup!Closed, Wizards

LEMMA SetupInitially == Init => SetupInv
<1> SUFFICES ASSUME Init PROVE SetupInv
  OBVIOUS
<1>1. wFile \in {Setup!DEFAULT, Setup!Config([k \in Setup!Keys |-> "old"], TRUE, "old")} /\ wWizard = Setup!Closed
      /\ wQuick = [at |-> "none", base |-> Setup!DEFAULT] /\ wOverlapped = FALSE
  BY DEF Init, Setup!Init
<1>2. wFile \in Configs
  <2>1. "old" \in Words /\ [k \in Setup!Keys |-> "old"] \in [Setup!Keys -> Words]
    BY DEF Words
  <2>2. PICK asked \in [Setup!Keys -> Words] : asked = [k \in Setup!Keys |-> "old"]
    BY <2>1
  <2>3. PICK enabled \in BOOLEAN : enabled = TRUE
    OBVIOUS
  <2>4. Setup!Config(asked, enabled, "old") \in Configs
    BY <2>1, ConfigFacts
  <2> QED
    BY <1>1, <2>2, <2>3, <2>4, DefaultFacts
<1>3. SetupTypes
  BY <1>1, <1>2, DefaultFacts DEF SetupTypes
<1>4. Placed(wWizard)
  BY <1>1, DefaultFacts, SectionFacts DEF Placed
<1>5. Overlaid(wWizard)
  BY <1>1, DefaultFacts DEF Overlaid
<1> QED
  BY <1>1, <1>3, <1>4, <1>5, DefaultFacts DEF SetupInv

\* A step of the wizard that leaves the file alone.
LEMMA WizardStep ==
  ASSUME SetupInv, wWizard' \in Wizards, UNCHANGED <<wFile, wQuick, wOverlapped>>,
         Placed(wWizard'), Overlaid(wWizard'),
         wWizard'.at \in {"asking", "summary", "saving"} /\ ~wOverlapped => BasedOn(wWizard'.base, wFile),
         wWizard'.at = "saving" => Confirmed(wWizard'),
         wWizard'.at # "success"
  PROVE  SetupInv'
BY DEF SetupInv, SetupTypes, Placed, Overlaid, BasedOn, Confirmed

LEMMA StartStep == ASSUME SetupInv, Setup!Start PROVE SetupInv'
<1>1. PICK asked : asked = [wFile.asked EXCEPT ![Setup!Provider] = IF @ = "" THEN "openai" ELSE @]
  OBVIOUS
<1>2. PICK base : base = [wFile EXCEPT !.asked = asked]
  OBVIOUS
<1>3. wFile \in Configs /\ wWizard \in Wizards /\ wWizard.at = "none" /\ Placed(wWizard) /\ Overlaid(wWizard)
  BY DEF SetupInv, SetupTypes, Setup!Start
<1>4. asked \in [Setup!Keys -> Words]
        /\ \A k \in Setup!Keys : asked[k] = wFile.asked[k] \/ (k = Setup!Provider /\ wFile.asked[k] = "")
  <2>1. wFile.asked \in [Setup!Keys -> Words]
    BY <1>3 DEF Configs
  <2> QED
    BY <1>1, <2>1 DEF Words
<1>5. base \in Configs /\ base.asked = asked /\ base.crons = wFile.crons
  BY <1>2, <1>3, <1>4 DEF Configs
<1>6. wWizard' = [wWizard EXCEPT !.at = "asking", !.base = base, !.candidate = base] /\ UNCHANGED <<wFile, wQuick, wOverlapped>>
  BY <1>1, <1>2 DEF Setup!Start
<1>7. /\ wWizard' \in Wizards /\ wWizard'.at = "asking" /\ wWizard'.base = base /\ wWizard'.candidate = base
      /\ wWizard'.section = wWizard.section /\ wWizard'.field = wWizard.field /\ wWizard'.updates = wWizard.updates
  BY <1>3, <1>5, <1>6 DEF Wizards
<1>8. Placed(wWizard')
  BY <1>3, <1>7 DEF Placed
<1>9. BasedOn(wWizard'.base, wFile)
  BY <1>4, <1>5, <1>7 DEF BasedOn
<1>10. Overlaid(wWizard')
  BY <1>3, <1>7 DEF Placed, Overlaid
<1> QED
  BY <1>6, <1>7, <1>8, <1>9, <1>10, WizardStep

\* An answer, in both accounts.
LEMMA RecordedFacts ==
  ASSUME NEW w \in Wizards, Overlaid(w), NEW k \in Setup!Keys, NEW v \in {"undefined", "", "new"}
  PROVE  LET r == Setup!Recorded(w, k, v)
         IN /\ r \in Wizards /\ Overlaid(r)
            /\ r.at = w.at /\ r.section = w.section /\ r.field = w.field /\ r.base = w.base
<1>1. CASE v = "undefined"
  BY <1>1 DEF Setup!Recorded
<1>2. CASE v \in Words
  <2>1. PICK updates : updates = [j \in DOMAIN w.updates \cup {k} |-> IF j = k THEN v ELSE w.updates[j]]
    OBVIOUS
  <2>2. PICK one : one = [j \in {k} |-> v]
    OBVIOUS
  <2>3. PICK candidate : candidate = Setup!Apply(w.candidate, one)
    OBVIOUS
  <2>4. PICK r : r = [w EXCEPT !.updates = updates, !.candidate = candidate]
    OBVIOUS
  <2>5. v # "undefined"
    BY <1>2 DEF Words
  <2>6. Setup!Recorded(w, k, v) = r
    BY <2>1, <2>2, <2>3, <2>4, <2>5 DEF Setup!Recorded
  <2>7. w.updates \in Answers /\ w.candidate \in Configs
    BY DEF Wizards
  <2>8. updates \in Answers /\ DOMAIN updates = DOMAIN w.updates \cup {k}
    <3>1. PICK keys \in SUBSET Setup!Keys : w.updates \in [keys -> Words]
      BY <2>7 DEF Answers
    <3>2. updates \in [keys \cup {k} -> Words] /\ keys \cup {k} \in SUBSET Setup!Keys
      BY <1>2, <2>1, <3>1
    <3> QED
      BY <2>1, <3>2 DEF Answers
  <2>9. one \in Answers /\ DOMAIN one = {k} /\ one[k] = v
    <3>1. one \in [{k} -> Words] /\ {k} \in SUBSET Setup!Keys
      BY <1>2, <2>2
    <3> QED
      BY <2>2, <3>1 DEF Answers
  <2>10. /\ candidate \in Configs /\ candidate.crons = w.candidate.crons
         /\ \A j \in Setup!Keys : candidate.asked[j] = IF j = k THEN v ELSE w.candidate.asked[j]
    BY <2>3, <2>7, <2>9, ApplyFacts
  <2>11. /\ r \in Wizards /\ r.updates = updates /\ r.candidate = candidate
         /\ r.at = w.at /\ r.section = w.section /\ r.field = w.field /\ r.base = w.base
    BY <2>4, <2>8, <2>10 DEF Wizards
  <2>12. Overlaid(r)
    <3>1. \A j \in Setup!Keys : r.candidate.asked[j] = IF j \in DOMAIN r.updates THEN r.updates[j] ELSE r.base.asked[j]
      <4> SUFFICES ASSUME NEW j \in Setup!Keys
                   PROVE  r.candidate.asked[j] = IF j \in DOMAIN r.updates THEN r.updates[j] ELSE r.base.asked[j]
        OBVIOUS
      <4>1. candidate.asked[j] = IF j = k THEN v ELSE w.candidate.asked[j]
        BY <2>10
      <4>2. w.candidate.asked[j] = IF j \in DOMAIN w.updates THEN w.updates[j] ELSE w.base.asked[j]
        BY DEF Overlaid
      <4>3. j \in DOMAIN updates => updates[j] = IF j = k THEN v ELSE w.updates[j]
        BY <2>1
      <4> QED
        BY <2>8, <2>11, <4>1, <4>2, <4>3
    <3>2. w.candidate.crons = w.base.crons
      BY DEF Overlaid
    <3> QED
      BY <2>10, <2>11, <3>1, <3>2 DEF Overlaid
  <2> QED
    BY <2>6, <2>11, <2>12
<1> QED
  BY <1>1, <1>2 DEF Words

\* Where the wizard goes after a field: the answers stay as they are.
LEMMA OnwardFacts ==
  ASSUME NEW w \in Wizards, Placed(w), w.at = "asking"
  PROVE  LET o == Setup!Onward(w)
         IN /\ o \in Wizards /\ Placed(o) /\ o.at \in {"asking", "summary"}
            /\ o.base = w.base /\ o.candidate = w.candidate /\ o.updates = w.updates
<1>1. /\ w.section \in DOMAIN Sections /\ w.field \in DOMAIN Sections[w.section]
      /\ 1 \in DOMAIN Sections[w.section] /\ DOMAIN Sections[w.section] = 1 .. Len(Sections[w.section])
      /\ Len(Sections[w.section]) \in Nat
  BY SectionFacts DEF Wizards, Placed
<1>2. DOMAIN Sections = 1 .. Len(Sections) /\ Len(Sections) \in Nat
  BY SectionFacts
<1>3. CASE w.field < Len(Sections[w.section])
  <2>1. PICK o : o = [w EXCEPT !.field = @ + 1]
    OBVIOUS
  <2>2. Setup!Onward(w) = o
    BY <1>3, <2>1 DEF Setup!Onward
  <2>3. /\ o \in Wizards /\ o.at = "asking" /\ o.section = w.section /\ o.field = w.field + 1
        /\ o.base = w.base /\ o.candidate = w.candidate /\ o.updates = w.updates
    BY <2>1 DEF Wizards
  <2>4. w.field + 1 \in DOMAIN Sections[w.section]
    BY <1>1, <1>3
  <2> QED
    BY <2>2, <2>3, <2>4 DEF Placed
<1>4. CASE ~(w.field < Len(Sections[w.section])) /\ (w.editing \/ (~Setup!AskAgain(w) /\ w.section = Len(Sections)))
  <2>1. PICK o : o = [w EXCEPT !.at = "summary", !.section = 1, !.field = 1, !.editing = FALSE]
    OBVIOUS
  <2>2. Setup!Onward(w) = o
    BY <1>4, <2>1 DEF Setup!Onward
  <2>3. /\ o \in Wizards /\ o.at = "summary" /\ o.section = 1 /\ o.field = 1
        /\ o.base = w.base /\ o.candidate = w.candidate /\ o.updates = w.updates
    BY <2>1, SectionFacts DEF Wizards
  <2> QED
    BY <2>2, <2>3, SectionFacts DEF Placed
<1>5. CASE ~(w.field < Len(Sections[w.section])) /\ ~w.editing /\ Setup!AskAgain(w)
  <2>1. PICK o : o = [w EXCEPT !.field = 1]
    OBVIOUS
  <2>2. Setup!Onward(w) = o
    BY <1>5, <2>1 DEF Setup!Onward
  <2>3. /\ o \in Wizards /\ o.at = "asking" /\ o.section = w.section /\ o.field = 1
        /\ o.base = w.base /\ o.candidate = w.candidate /\ o.updates = w.updates
    BY <2>1 DEF Wizards
  <2> QED
    BY <1>1, <2>2, <2>3 DEF Placed
<1>6. CASE ~(w.field < Len(Sections[w.section])) /\ ~w.editing /\ ~Setup!AskAgain(w) /\ w.section # Len(Sections)
  <2>1. PICK o : o = [w EXCEPT !.section = @ + 1, !.field = 1]
    OBVIOUS
  <2>2. Setup!Onward(w) = o
    BY <1>6, <2>1 DEF Setup!Onward
  <2>3. w.section + 1 \in DOMAIN Sections
    BY <1>1, <1>2, <1>6
  <2>4. /\ o \in Wizards /\ o.at = "asking" /\ o.section = w.section + 1 /\ o.field = 1
        /\ o.base = w.base /\ o.candidate = w.candidate /\ o.updates = w.updates
    BY <2>1, <2>3 DEF Wizards
  <2> QED
    BY <2>2, <2>3, <2>4, SectionFacts DEF Placed
<1> QED
  BY <1>3, <1>4, <1>5, <1>6

LEMMA AnswerStep == ASSUME SetupInv, NEW v \in {"undefined", "", "new"}, Setup!Answer(v) PROVE SetupInv'
<1>1. wWizard \in Wizards /\ wWizard.at = "asking" /\ Placed(wWizard) /\ Overlaid(wWizard)
      /\ UNCHANGED <<wFile, wQuick, wOverlapped>>
  BY DEF SetupInv, SetupTypes, Setup!Answer
<1>2. Setup!Key \in Setup!Keys
  BY <1>1, SectionFacts DEF Setup!Key, Wizards, Placed
<1>3. PICK r : r = Setup!Recorded(wWizard, Setup!Key, v)
  OBVIOUS
<1>4. r \in Wizards /\ Overlaid(r) /\ r.at = "asking" /\ r.section = wWizard.section /\ r.field = wWizard.field
      /\ r.base = wWizard.base
  BY <1>1, <1>2, <1>3, RecordedFacts
<1>5. Placed(r)
  BY <1>1, <1>4 DEF Placed
<1>6. PICK o : o = Setup!Onward(r)
  OBVIOUS
<1>7. o \in Wizards /\ Placed(o) /\ o.at \in {"asking", "summary"} /\ o.base = r.base /\ o.candidate = r.candidate
      /\ o.updates = r.updates
  BY <1>4, <1>5, <1>6, OnwardFacts
<1>8. Overlaid(o)
  BY <1>4, <1>7 DEF Overlaid
<1>9. wWizard' = o
  BY <1>3, <1>6 DEF Setup!Answer
<1>10. ~wOverlapped => BasedOn(wWizard.base, wFile)
  BY <1>1 DEF SetupInv
<1> QED
  BY <1>1, <1>4, <1>7, <1>8, <1>9, <1>10, WizardStep

\* A step that only moves the wizard, and may go to any section in the first field.
LEMMA MoveStep ==
  ASSUME SetupInv, NEW w \in Wizards, wWizard' = w, UNCHANGED <<wFile, wQuick, wOverlapped>>,
         wWizard.at \in {"asking", "summary", "saving"}, w.at \notin {"none", "summary", "success"},
         w.base = wWizard.base, w.candidate = wWizard.candidate, w.updates = wWizard.updates,
         w.field = wWizard.field, w.section = wWizard.section \/ wWizard.at = "summary",
         w.at = "saving" => Confirmed(w)
  PROVE  SetupInv'
<1>1. Placed(wWizard) /\ Overlaid(wWizard) /\ (~wOverlapped => BasedOn(wWizard.base, wFile))
  BY DEF SetupInv
<1>2. w.section \in DOMAIN Sections
  BY DEF Wizards
<1>3. Placed(w)
  BY <1>1, <1>2, SectionFacts DEF Placed
<1>4. Overlaid(w)
  BY <1>1 DEF Overlaid
<1> QED
  BY <1>1, <1>3, <1>4, WizardStep

LEMMA EditStep == ASSUME SetupInv, NEW s \in DOMAIN Sections, Setup!Edit(s) PROVE SetupInv'
<1>1. PICK w : w = [wWizard EXCEPT !.at = "asking", !.section = s, !.editing = TRUE]
  OBVIOUS
<1>2. w \in Wizards /\ w.at = "asking" /\ w.base = wWizard.base /\ w.candidate = wWizard.candidate
      /\ w.updates = wWizard.updates /\ w.field = wWizard.field
  BY <1>1 DEF SetupInv, SetupTypes, Wizards
<1>3. wWizard' = w /\ wWizard.at = "summary" /\ UNCHANGED <<wFile, wQuick, wOverlapped>>
  BY <1>1 DEF Setup!Edit
<1> QED
  BY <1>2, <1>3, MoveStep

LEMMA CancelStep == ASSUME SetupInv, Setup!Cancel \/ Setup!SaveFails PROVE SetupInv'
<1>1. PICK at \in {"cancelled", "failed"} : wWizard' = [wWizard EXCEPT !.at = at]
  BY DEF Setup!Cancel, Setup!SaveFails
<1>2. PICK w : w = [wWizard EXCEPT !.at = at]
  OBVIOUS
<1>3. w \in Wizards /\ w.at = at /\ w.base = wWizard.base /\ w.candidate = wWizard.candidate
      /\ w.updates = wWizard.updates /\ w.field = wWizard.field /\ w.section = wWizard.section
  BY <1>2 DEF SetupInv, SetupTypes, Wizards
<1>4. wWizard' = w /\ wWizard.at \in {"asking", "summary", "saving"} /\ UNCHANGED <<wFile, wQuick, wOverlapped>>
  BY <1>1, <1>2 DEF Setup!Cancel, Setup!SaveFails
<1> QED
  BY <1>3, <1>4, MoveStep

LEMMA ConfirmStep == ASSUME SetupInv, Setup!Confirm PROVE SetupInv'
<1>1. PICK result : result = Setup!Apply(wWizard.base, wWizard.updates)
  OBVIOUS
<1>2. /\ wWizard \in Wizards /\ wWizard.at = "summary" /\ Overlaid(wWizard)
      /\ UNCHANGED <<wFile, wQuick, wOverlapped>>
      /\ wWizard' = IF Setup!Errors(result) THEN [wWizard EXCEPT !.at = "validation_error"]
                    ELSE [wWizard EXCEPT !.at = "saving", !.result = result]
  BY <1>1 DEF SetupInv, SetupTypes, Setup!Confirm
<1>3. wWizard.base \in Configs /\ wWizard.updates \in Answers /\ wWizard.candidate \in Configs
  BY <1>2 DEF Wizards
<1>4. /\ result \in Configs /\ result.crons = wWizard.base.crons
      /\ \A k \in Setup!Keys : result.asked[k] = IF k \in DOMAIN wWizard.updates THEN wWizard.updates[k] ELSE wWizard.base.asked[k]
      /\ result.enabled = (Setup!Has(result, Setup!Token) /\ Setup!Has(result, Setup!UserId))
  BY <1>1, <1>3, ApplyFacts
<1>5. result = Setup!SyncDerived(wWizard.candidate)
  <2>1. PICK s : s = Setup!SyncDerived(wWizard.candidate)
    OBVIOUS
  <2>2. result.asked = wWizard.candidate.asked
    <3>1. result.asked \in [Setup!Keys -> Words] /\ wWizard.candidate.asked \in [Setup!Keys -> Words]
      BY <1>3, <1>4 DEF Configs
    <3>2. \A k \in Setup!Keys : result.asked[k] = wWizard.candidate.asked[k]
      BY <1>2, <1>4 DEF Overlaid
    <3> QED
      BY <3>1, <3>2
  <2>3. /\ s \in Configs /\ s.asked = wWizard.candidate.asked /\ s.crons = wWizard.candidate.crons
        /\ s.enabled = (Setup!Has(wWizard.candidate, Setup!Token) /\ Setup!Has(wWizard.candidate, Setup!UserId))
    BY <1>3, <2>1 DEF Setup!SyncDerived, Setup!Has, Configs
  <2>4. result.crons = wWizard.candidate.crons
    BY <1>2, <1>4 DEF Overlaid
  <2>5. result.enabled = s.enabled
    BY <1>4, <2>2, <2>3 DEF Setup!Has
  <2> HIDE DEF Setup!SyncDerived
  <2> QED
    BY <1>4, <2>1, <2>2, <2>3, <2>4, <2>5 DEF Configs
<1>6. CASE Setup!Errors(result)
  <2>1. PICK w : w = [wWizard EXCEPT !.at = "validation_error"]
    OBVIOUS
  <2>2. w \in Wizards /\ w.at = "validation_error" /\ w.base = wWizard.base /\ w.candidate = wWizard.candidate
        /\ w.updates = wWizard.updates /\ w.field = wWizard.field /\ w.section = wWizard.section
    BY <1>2, <2>1 DEF Wizards
  <2> QED
    BY <1>2, <1>6, <2>1, <2>2, MoveStep
<1>7. CASE ~Setup!Errors(result)
  <2>1. PICK w : w = [wWizard EXCEPT !.at = "saving", !.result = result]
    OBVIOUS
  <2>2. w \in Wizards /\ w.at = "saving" /\ w.base = wWizard.base /\ w.candidate = wWizard.candidate
        /\ w.updates = wWizard.updates /\ w.field = wWizard.field /\ w.section = wWizard.section /\ w.result = result
    BY <1>2, <1>4, <2>1 DEF Wizards
  <2>3. Confirmed(w)
    BY <1>5, <1>7, <2>2 DEF Confirmed
  <2> QED
    BY <1>2, <1>7, <2>1, <2>2, <2>3, MoveStep
<1> QED
  BY <1>6, <1>7

LEMMA SaveStep == ASSUME SetupInv, Setup!Save PROVE SetupInv'
<1>1. PICK w : w = [wWizard EXCEPT !.at = "success", !.before = wFile]
  OBVIOUS
<1>2. wWizard' = w /\ wFile' = wWizard.result /\ wWizard.at = "saving" /\ UNCHANGED <<wQuick, wOverlapped>>
  BY <1>1 DEF Setup!Save
<1>3. w \in Wizards /\ w.at = "success" /\ w.base = wWizard.base /\ w.candidate = wWizard.candidate /\ w.before = wFile
      /\ w.updates = wWizard.updates /\ w.field = wWizard.field /\ w.section = wWizard.section /\ w.result = wWizard.result
      /\ wWizard.result \in Configs
  BY <1>1 DEF SetupInv, SetupTypes, Wizards
<1>4. Placed(w) /\ Overlaid(w) /\ Confirmed(w)
  BY <1>2, <1>3 DEF SetupInv, Placed, Overlaid, Confirmed
<1>5. ~wOverlapped => BasedOn(w.base, w.before)
  BY <1>2, <1>3 DEF SetupInv
<1> QED
  BY <1>2, <1>3, <1>4, <1>5 DEF SetupInv, SetupTypes

LEMMA QuickStartStep == ASSUME SetupInv, Setup!QuickStart PROVE SetupInv'
<1>1. wQuick' = [at |-> "asking", base |-> wFile] /\ wQuick.at = "none" /\ UNCHANGED <<wFile, wWizard, wOverlapped>>
  BY DEF Setup!QuickStart
<1> QED
  BY <1>1 DEF SetupInv, SetupTypes

LEMMA QuickSaveStep == ASSUME SetupInv, Setup!QuickSave PROVE SetupInv'
<1>1. PICK models \in [ModelKeys -> {"", "quick"}], token \in {"", "quick"}, id \in {"", "quick"}, useTelegram \in BOOLEAN :
        /\ wFile' = Setup!Filled(IF useTelegram THEN Setup!Telegram(wQuick.base, token, id) ELSE wQuick.base, models)
        /\ wQuick.at = "asking" /\ wQuick' = [wQuick EXCEPT !.at = "done"]
        /\ wOverlapped' = (wWizard.at \in {"asking", "summary", "saving"}) /\ UNCHANGED wWizard
  BY DEF Setup!QuickSave
<1>2. PICK base : base = IF useTelegram THEN Setup!Telegram(wQuick.base, token, id) ELSE wQuick.base
  OBVIOUS
<1>3. base \in Configs
  <2>1. wQuick.base \in Configs
    BY DEF SetupInv, SetupTypes
  <2> QED
    BY <1>2, <2>1 DEF Setup!Telegram, Configs, Words
<1>4. wFile' \in Configs
  <2>1. PICK asked : asked = [k \in Setup!Keys |-> IF k \in ModelKeys THEN models[k]
                                 ELSE IF k \in RequiredKeys /\ base.asked[k] = "" THEN "quick" ELSE base.asked[k]]
    OBVIOUS
  <2>2. asked \in [Setup!Keys -> Words] /\ base.enabled \in BOOLEAN /\ "" \in Words
    BY <1>3, <2>1 DEF Configs, Words
  <2>3. wFile' = Setup!Config(asked, base.enabled, "")
    BY <1>1, <1>2, <2>1 DEF Setup!Filled
  <2> QED
    BY <2>2, <2>3, ConfigFacts
<1>5. wQuick' \in [at : {"none", "asking", "done"}, base : Configs] /\ wQuick'.at = "done"
  BY <1>1 DEF SetupInv, SetupTypes
<1>6. wWizard' = wWizard /\ wOverlapped' = (wWizard.at \in {"asking", "summary", "saving"})
  BY <1>1
<1>7. SetupTypes'
  <2>1. PICK busy \in BOOLEAN : busy <=> wWizard.at \in {"asking", "summary", "saving"}
    <3>1. CASE wWizard.at \in {"asking", "summary", "saving"}
      BY <3>1
    <3>2. CASE wWizard.at \notin {"asking", "summary", "saving"}
      BY <3>2
    <3> QED
      BY <3>1, <3>2
  <2>2. wOverlapped' \in BOOLEAN
    <3>1. wOverlapped' = busy
      BY <1>6, <2>1, Zenon
    <3> QED
      BY <2>1, <3>1
  <2> QED
    BY <1>4, <1>5, <1>6, <2>2 DEF SetupInv, SetupTypes
<1>8. Placed(wWizard') /\ Overlaid(wWizard') /\ (wWizard'.at \in {"saving", "success"} => Confirmed(wWizard'))
  BY <1>6 DEF SetupInv, Placed, Overlaid, Confirmed
<1>9. ~wOverlapped' => wWizard'.at \notin {"asking", "summary", "saving"}
  BY <1>6
<1>10. wWizard'.at = "success" => BasedOn(wWizard'.base, wWizard'.before)
  BY <1>1, <1>6 DEF SetupInv, BasedOn
<1> QED
  BY <1>5, <1>7, <1>8, <1>9, <1>10 DEF SetupInv

LEMMA SetupStep == SetupInv /\ [Setup!Next]_SetupVars => SetupInv'
<1> SUFFICES ASSUME SetupInv, [Setup!Next]_SetupVars PROVE SetupInv'
  OBVIOUS
<1>1. CASE UNCHANGED SetupVars
  BY <1>1 DEF SetupVars, SetupInv, SetupTypes
<1> QED
  BY <1>1, StartStep, AnswerStep, EditStep, ConfirmStep, CancelStep, SaveStep, QuickStartStep, QuickSaveStep
  DEF Setup!Next

LEMMA WizardSavesWhatItShows == SetupInv => Setup!SavedAsConfirmed
<1> SUFFICES ASSUME SetupInv PROVE Setup!SavedAsConfirmed
  OBVIOUS
<1>1. wWizard.candidate \in Configs /\ Overlaid(wWizard)
  BY DEF SetupInv, SetupTypes, Wizards
<1>2. /\ Setup!SyncDerived(wWizard.candidate).asked = wWizard.candidate.asked
      /\ Setup!SyncDerived(wWizard.candidate).crons = wWizard.candidate.crons
      /\ Setup!SyncDerived(wWizard.candidate).enabled =
             (Setup!Has(wWizard.candidate, Setup!Token) /\ Setup!Has(wWizard.candidate, Setup!UserId))
  BY <1>1 DEF Setup!SyncDerived, Setup!Has, Configs
<1>3. ASSUME wWizard.at \in {"saving", "success"}
      PROVE  /\ wWizard.result = Setup!SyncDerived(wWizard.candidate) /\ ~Setup!Errors(wWizard.result)
             /\ wWizard.result.enabled <=> Setup!Has(wWizard.result, Setup!Token)
  <2>1. wWizard.result = Setup!SyncDerived(wWizard.candidate) /\ ~Setup!Errors(wWizard.result)
    BY <1>3 DEF SetupInv, Confirmed
  <2>2. Setup!Paired(wWizard.result)
    BY <2>1 DEF Setup!Errors
  <2> QED
    BY <1>2, <2>1, <2>2 DEF Setup!Paired, Setup!Has
<1>4. ASSUME wWizard.at = "success", ~wOverlapped
      PROVE  /\ \A k \in Setup!Keys \ DOMAIN wWizard.updates :
                    wWizard.result.asked[k] = wWizard.before.asked[k] \/ (k = Setup!Provider /\ wWizard.before.asked[k] = "")
             /\ wWizard.result.crons = wWizard.before.crons
  <2>1. BasedOn(wWizard.base, wWizard.before)
    BY <1>4 DEF SetupInv
  <2>2. wWizard.result.asked = wWizard.candidate.asked /\ wWizard.result.crons = wWizard.candidate.crons
    BY <1>2, <1>3, <1>4
  <2> QED
    BY <1>1, <2>1, <2>2 DEF Overlaid, BasedOn
<1> QED
  BY <1>3, <1>4 DEF Setup!SavedAsConfirmed

\* A gateway reads the secret that was saved last, and the wizard saves what its user confirmed.
THEOREM SavedSecretsAreRead == Spec => []SavedIsRead
<1>1. Init => VaultInv /\ SetupInv
  BY VaultInitially, SetupInitially
<1>2. (VaultInv /\ SetupInv) /\ [Next]_vars => (VaultInv /\ SetupInv)'
  BY VaultPart, SetupPart, VaultStep, SetupStep
<1>3. VaultInv /\ SetupInv => SavedIsRead
  BY SecretsAreRead, WizardSavesWhatItShows DEF SavedIsRead
<1> QED
  BY <1>1, <1>2, <1>3, PTL DEF Spec

(***************************************************************************)
(* Releases.                                                               *)
(***************************************************************************)

Contents == [Release!AssetSet -> 0 .. (MaxWrites + 1)]
SnapIds == [kind : {"drill", "release"}, n : Nat \ {0}]
Snapshots == [id : SnapIds, complete : BOOLEAN]
Commands(id) ==
    [at : {"idle", "copy", "metadata", "manifest", "rollback", "restore", "fill", "health"},
     drill : BOOLEAN, id : {id}, i : DOMAIN Assets]

\* Snapshots are numbered as they are taken: a directory's number is its own.
Unique(all) == \A s, t \in all : s.id.n = t.id.n => s = t
Releases(all) == {s \in all : s.id.kind = "release"}

ReleaseTypes ==
    /\ rAsset \in Contents /\ rWrites \in 0 .. MaxWrites /\ rFaults \in Nat /\ rDrift \subseteq Release!AssetSet
    /\ rTaken \in Seq(Contents)
    /\ rSnaps \subseteq Snapshots /\ IsFiniteSet(rSnaps) /\ Unique(rSnaps)
    /\ \A s \in rSnaps : s.id.n <= Len(rTaken)
    /\ rState \in [id : SnapIds \cup {Release!NoId}, status : {"none", "in_progress", "success", "failed"}]
    /\ rLatest.status \in {"none", "blocked", "ready"}
    /\ rOp \in Commands(rOp.id)

\* An asset is as the snapshot has it, or was written since.
Restored(n, a) == a \in rDrift \/ rTaken[n][a] \in {Release!Absent, rAsset[a]}

\* A preparation copies into the snapshot taken last, which no rollback has used yet.
Preparing ==
    rOp.at \in {"copy", "metadata"} =>
        /\ rOp.id = [kind |-> IF rOp.drill THEN "drill" ELSE "release", n |-> Len(rTaken)]
        /\ [id |-> rOp.id, complete |-> FALSE] \in rSnaps
        /\ rState.id.n < Len(rTaken)

\* A rollback under way is recorded, and has restored the assets before the one it is at.
Restoring ==
    rOp.at \in {"restore", "fill", "health"} =>
        /\ rState = Release!Started(rOp.id) /\ rOp.id.n \in DOMAIN rTaken
        /\ \A j \in DOMAIN Assets : rOp.at = "health" \/ j < rOp.i => Restored(rOp.id.n, Assets[j])

\* The record names a snapshot that was taken; a success restored all of it.
Recorded == /\ rState.id.n <= Len(rTaken)
            /\ rState.status # "none" => rState.id.n \in DOMAIN rTaken
            /\ rState.status = "success" => \A a \in Release!AssetSet : Restored(rState.id.n, a)

\* While no command died: between preparations no more releases than are kept, and the snapshot of the release
\* that is, or is about to be, called ready is there.
SnapshotKept ==
    rFaults = 0 =>
        /\ (rOp.at \in {"copy", "metadata"} /\ ~rOp.drill) \/ Cardinality(Releases(rSnaps)) <= Retention
        /\ rOp.at = "manifest" => [id |-> rOp.id, complete |-> TRUE] \in rSnaps
        /\ rLatest.status = "ready" /\ rOp.at \notin {"copy", "metadata", "manifest"} =>
               [id |-> rLatest.id, complete |-> TRUE] \in rSnaps

ReleaseInv == ReleaseTypes /\ Preparing /\ Restoring /\ Recorded /\ SnapshotKept

LEMMA AssetFacts ==
  /\ 1 \in DOMAIN Assets /\ Len(Assets) \in Nat /\ DOMAIN Assets = 1 .. Len(Assets)
  /\ \A i \in DOMAIN Assets : Assets[i] \in Release!AssetSet
  /\ \A i, j \in DOMAIN Assets : Assets[i] = Assets[j] => i = j
<1>1. PICK q \in Seq({Assets[i] : i \in DOMAIN Assets}) : q = Assets /\ q # <<>>
  BY StateFilesAssumption DEF Listed
<1>2. 1 \in DOMAIN q /\ Len(q) \in Nat /\ DOMAIN q = 1 .. Len(q)
  BY <1>1
<1>3. \A i, j \in DOMAIN Assets : Assets[i] = Assets[j] => i = j
  BY StateFilesAssumption DEF Listed
<1> QED
  BY <1>1, <1>2, <1>3 DEF Release!AssetSet

LEMMA IdleFacts ==
  /\ Release!Idle \in Commands(Release!NoId)
  /\ Release!Idle.at = "idle" /\ Release!Idle.drill = FALSE /\ Release!Idle.id = Release!NoId /\ Release!Idle.i = 1
BY AssetFacts DEF Release!Idle, Commands

LEMMA ContentFacts == Release!Empty \in Contents /\ 0 \in 0 .. (MaxWrites + 1) /\ 1 \in 0 .. (MaxWrites + 1)
<1>1. 0 \in 0 .. (MaxWrites + 1) /\ 1 \in 0 .. (MaxWrites + 1)
  BY StateFilesAssumption
<1> QED
  BY <1>1 DEF Release!Empty, Release!Absent, Contents

LEMMA ReleaseInitially == Init => ReleaseInv
<1> SUFFICES ASSUME Init PROVE ReleaseInv
  OBVIOUS
<1>1. /\ rAsset = [a \in Release!AssetSet |-> IF a = Assets[1] THEN 1 ELSE Release!Absent]
      /\ rSnaps = {} /\ rOp = Release!Idle /\ rWrites = 0 /\ rFaults = 0 /\ rTaken = <<>> /\ rDrift = {}
      /\ rState = [id |-> Release!NoId, status |-> "none"] /\ rLatest = [id |-> Release!NoId, status |-> "none"]
  BY DEF Init, Release!Init
<1>2. rAsset \in Contents
  BY <1>1, ContentFacts DEF Contents, Release!Absent
<1>3. IsFiniteSet(rSnaps) /\ Cardinality(Releases(rSnaps)) = 0
  BY <1>1, FS_EmptySet DEF Releases
<1>4. rOp.at = "idle" /\ rOp \in Commands(rOp.id) /\ rState.status = "none" /\ rLatest.status = "none" /\ rState.id.n = 0
  BY <1>1, IdleFacts DEF Release!NoId
<1>5. ReleaseTypes
  BY <1>1, <1>2, <1>3, <1>4, StateFilesAssumption DEF ReleaseTypes, Unique
<1>6. Preparing /\ Restoring /\ Recorded
  BY <1>1, <1>4 DEF Preparing, Restoring, Recorded
<1>7. SnapshotKept
  BY <1>3, <1>4, StateFilesAssumption DEF SnapshotKept
<1> QED
  BY <1>5, <1>6, <1>7 DEF ReleaseInv

\* Among natural numbers up to a bound there is a least one.
LEMMA LeastExists ==
  ASSUME NEW n \in Nat, NEW S \in SUBSET (0 .. n), S # {}
  PROVE  \E x \in S : \A y \in S : x <= y
<1> DEFINE Below(x) == 0 .. x
           T == {Below(x) : x \in S}
<1>1. T \subseteq SUBSET (0 .. n) /\ T # {}
  <2>1. \A x \in S : Below(x) \subseteq 0 .. n
    OBVIOUS
  <2> HIDE DEF Below
  <2> QED
    BY <2>1, Zenon
<1>2. IsWellFoundedOn(StrictSubsetOrdering(0 .. n), SUBSET (0 .. n))
  <2>1. IsFiniteSet(0 .. n)
    BY FS_Interval
  <2> QED
    BY <2>1, FS_FiniteSubsetsOfFinite, FS_StrictSubsetOrderingWellFounded, Zenon
<1>3. PICK B \in T : \A C \in T : ~(<<C, B>> \in StrictSubsetOrdering(0 .. n))
  <2> HIDE DEF T
  <2> QED
    BY <1>1, <1>2, WFMin
<1>4. PICK x \in S : B = Below(x)
  OBVIOUS
<1>5. \A y \in S : x <= y
  <2> SUFFICES ASSUME NEW y \in S, y < x PROVE FALSE
    OBVIOUS
  <2>1. Below(y) \subseteq Below(x) /\ Below(y) # Below(x)
    OBVIOUS
  <2>2. Below(x) \in SUBSET (0 .. n) /\ Below(y) \in SUBSET (0 .. n)
    OBVIOUS
  <2>3. <<Below(y), Below(x)>> \in StrictSubsetOrdering(0 .. n)
    BY <2>1, <2>2 DEF StrictSubsetOrdering
  <2> QED
    BY <1>3, <1>4, <2>3
<1> QED
  BY <1>5

\* Pruning keeps at most as many releases as it is told to keep.
LEMMA PrunedReleases ==
  ASSUME NEW all \in SUBSET Snapshots, IsFiniteSet(all), Unique(all), NEW top \in Nat, \A s \in all : s.id.n <= top,
         NEW limit \in Nat \ {0}
  PROVE  Cardinality(Releases(Release!Pruned(all, limit))) <= limit
<1> DEFINE R == Releases(Release!Pruned(all, limit))
<1>1. R \subseteq all /\ \A s \in R : s.id.kind = "release" /\ s.id.n \in Nat
  BY DEF Releases, Release!Pruned, Snapshots, SnapIds
<1>2. IsFiniteSet(R)
  BY <1>1, FS_Subset
<1>3. CASE R = {}
  BY <1>3, FS_EmptySet
<1>4. CASE R # {}
  <2>1. PICK x \in {s.id.n : s \in R} : \A y \in {s.id.n : s \in R} : x <= y
    <3>1. {s.id.n : s \in R} \in SUBSET (0 .. top) /\ {s.id.n : s \in R} # {}
      <4> HIDE DEF R
      <4> QED
        BY <1>1, <1>4
    <3> QED
      BY <3>1, LeastExists
  <2>2. PICK m \in R : m.id.n = x
    <3> HIDE DEF R
    <3> QED
      OBVIOUS
  <2>3. \A s \in R \ {m} : s \in Release!Newer(all, m)
    <3> SUFFICES ASSUME NEW s \in R, s # m PROVE s \in Release!Newer(all, m)
      OBVIOUS
    <3> HIDE DEF R
    <3>1. m.id.n <= s.id.n
      BY <2>1, <2>2
    <3>2. m.id.n # s.id.n
      BY <1>1 DEF Unique
    <3>3. m.id.n < s.id.n
      BY <1>1, <3>1, <3>2
    <3> QED
      BY <1>1, <3>3 DEF Release!Newer, Release!Before
  <2>4. /\ IsFiniteSet(Release!Newer(all, m)) /\ Cardinality(Release!Newer(all, m)) \in Nat
        /\ Cardinality(Release!Newer(all, m)) < limit
    <3>1. Release!Newer(all, m) \subseteq all
      BY DEF Release!Newer
    <3>2. Release!Cardinality(Release!Newer(all, m)) = Cardinality(Release!Newer(all, m))
      BY DEF Release!Cardinality, Cardinality
    <3>3. Release!Cardinality(Release!Newer(all, m)) < limit
      BY DEF Releases, Release!Pruned
    <3> QED
      BY <3>1, <3>2, <3>3, FS_Subset, FS_CardinalityType
  <2>5. Cardinality(R \ {m}) <= Cardinality(Release!Newer(all, m))
    <3> HIDE DEF R
    <3> QED
      BY <2>3, <2>4, FS_Subset
  <2>6. Cardinality(R \ {m}) = Cardinality(R) - 1 /\ Cardinality(R) \in Nat
    <3> HIDE DEF R
    <3> QED
      BY <1>2, FS_RemoveElement, FS_CardinalityType
  <2> HIDE DEF R
  <2>7. Cardinality(R) <= limit
    BY <2>4, <2>5, <2>6
  <2> QED
    BY <2>7 DEF R
<1> QED
  BY <1>3, <1>4

\* A command ends or goes on to a rollback: the files stay as they are, and a rollback that ends settles the record.
LEMMA CommandStep ==
  ASSUME ReleaseInv, NEW o, rOp' = o, o \in Commands(o.id), o.at \in {"idle", "rollback"},
         UNCHANGED <<rAsset, rSnaps, rWrites, rTaken, rDrift>>,
         rFaults' \in Nat, rFaults' = 0 => rFaults = 0 /\ ~(rOp.at \in {"copy", "metadata"} /\ ~rOp.drill),
         rLatest'.status \in {"none", "blocked", "ready"},
         rFaults' = 0 /\ rLatest'.status = "ready" => [id |-> rLatest'.id, complete |-> TRUE] \in rSnaps,
         \/ rState' = rState
         \/ /\ rOp.at \in {"restore", "fill", "health"}
            /\ \E st \in {"success", "failed"} :
                   rState' = [id |-> rOp.id, status |-> st] /\ (st = "success" => rOp.at = "health")
  PROVE  ReleaseInv'
<1>1. /\ rState' \in [id : SnapIds \cup {Release!NoId}, status : {"none", "in_progress", "success", "failed"}]
      /\ Recorded'
  <2>1. CASE rState' = rState
    <3>1. rState' \in [id : SnapIds \cup {Release!NoId}, status : {"none", "in_progress", "success", "failed"}]
      BY <2>1 DEF ReleaseInv, ReleaseTypes
    <3>2. Recorded'
      BY <2>1 DEF ReleaseInv, Recorded, Restored, Release!Absent, Release!AssetSet
    <3> QED
      BY <3>1, <3>2
  <2>2. CASE rOp.at \in {"restore", "fill", "health"} /\ \E st \in {"success", "failed"} :
                 rState' = [id |-> rOp.id, status |-> st] /\ (st = "success" => rOp.at = "health")
    <3>1. PICK st \in {"success", "failed"} : rState' = [id |-> rOp.id, status |-> st] /\ (st = "success" => rOp.at = "health")
      BY <2>2
    <3>2. rState = [id |-> rOp.id, status |-> "in_progress"] /\ rOp.id.n \in DOMAIN rTaken
      BY <2>2 DEF ReleaseInv, Restoring, Release!Started
    <3>3. rState.id = rOp.id /\ rState.id \in SnapIds \cup {Release!NoId} /\ rState.id.n <= Len(rTaken)
      BY <3>2 DEF ReleaseInv, ReleaseTypes, Recorded
    <3>4. rState'.id = rOp.id /\ rState'.status = st
      BY <3>1
    <3>5. rState' \in [id : SnapIds \cup {Release!NoId}, status : {"none", "in_progress", "success", "failed"}]
      BY <3>1, <3>3
    <3>6. ASSUME st = "success", NEW a \in Release!AssetSet PROVE Restored(rOp.id.n, a)
      <4>1. PICK j \in DOMAIN Assets : a = Assets[j]
        BY DEF Release!AssetSet
      <4> QED
        BY <3>1, <3>6, <4>1 DEF ReleaseInv, Restoring
    <3>7. Recorded'
      BY <3>2, <3>3, <3>4, <3>6 DEF Recorded, Restored, Release!Absent, Release!AssetSet
    <3> QED
      BY <3>5, <3>7
  <2> QED
    BY <2>1, <2>2
<1>2. ReleaseTypes'
  BY <1>1 DEF ReleaseInv, ReleaseTypes, Contents, Release!AssetSet, Unique, Commands, Release!NoId
<1>3. Preparing' /\ Restoring'
  BY DEF Preparing, Restoring
<1>4. SnapshotKept'
  <2> SUFFICES ASSUME rFaults' = 0 PROVE SnapshotKept'
    BY DEF SnapshotKept
  <2>1. Cardinality(Releases(rSnaps)) <= Retention
    BY DEF ReleaseInv, SnapshotKept
  <2>2. Releases(rSnaps') = Releases(rSnaps)
    BY DEF Releases
  <2> QED
    BY <2>1, <2>2 DEF SnapshotKept
<1> QED
  BY <1>1, <1>2, <1>3, <1>4 DEF ReleaseInv

LEMMA PrepareBlockedStep == ASSUME ReleaseInv, NEW drill \in BOOLEAN, Release!PrepareBlocked(drill) PROVE ReleaseInv'
<1>1. /\ rOp = Release!Idle /\ rLatest' = [id |-> Release!NoId, status |-> "blocked"]
      /\ UNCHANGED <<rAsset, rSnaps, rState, rWrites, rFaults, rTaken, rDrift>>
  BY DEF Release!PrepareBlocked
<1>2. PICK id : rOp' = Release!Idle \/ rOp' = [Release!Idle EXCEPT !.at = "rollback", !.drill = TRUE, !.id = id]
  BY DEF Release!PrepareBlocked
<1>3. PICK o : o = [Release!Idle EXCEPT !.at = "rollback", !.drill = TRUE, !.id = id]
  OBVIOUS
<1>4. o \in Commands(o.id) /\ o.at = "rollback"
  BY <1>3, IdleFacts DEF Commands
<1>5. rFaults' \in Nat /\ rLatest'.status = "blocked" /\ rOp.at = "idle"
  BY <1>1, IdleFacts DEF ReleaseInv, ReleaseTypes
<1>6. PICK p : p = rOp'
  OBVIOUS
<1>7. p \in Commands(p.id) /\ p.at \in {"idle", "rollback"}
  BY <1>2, <1>3, <1>4, <1>6, IdleFacts
<1> QED
  BY <1>1, <1>5, <1>6, <1>7, CommandStep

LEMMA RollbackStep == ASSUME ReleaseInv, NEW s \in rSnaps, Release!Rollback(s) PROVE ReleaseInv'
<1>1. PICK o : o = [Release!Idle EXCEPT !.at = "rollback", !.id = s.id]
  OBVIOUS
<1>2. o \in Commands(o.id) /\ o.at = "rollback"
  BY <1>1, IdleFacts DEF Commands
<1>3. /\ rOp = Release!Idle /\ rOp' = o /\ UNCHANGED <<rAsset, rSnaps, rState, rLatest, rWrites, rFaults, rTaken, rDrift>>
  BY <1>1 DEF Release!Rollback
<1>4. /\ rFaults' \in Nat /\ rLatest'.status \in {"none", "blocked", "ready"} /\ rOp.at = "idle"
      /\ (rFaults' = 0 /\ rLatest'.status = "ready" => [id |-> rLatest'.id, complete |-> TRUE] \in rSnaps)
  BY <1>3, IdleFacts DEF ReleaseInv, ReleaseTypes, SnapshotKept
<1> QED
  BY <1>2, <1>3, <1>4, CommandStep

LEMMA ReleaseDieStep == ASSUME ReleaseInv, Release!Die PROVE ReleaseInv'
<1>1. /\ rOp' = Release!Idle /\ rFaults' = rFaults + 1
      /\ UNCHANGED <<rAsset, rSnaps, rState, rLatest, rWrites, rTaken, rDrift>>
  BY DEF Release!Die
<1>2. rFaults' \in Nat /\ rFaults' # 0 /\ rLatest'.status \in {"none", "blocked", "ready"}
  BY <1>1 DEF ReleaseInv, ReleaseTypes
<1> QED
  BY <1>1, <1>2, IdleFacts, CommandStep

LEMMA FailRestoreStep == ASSUME ReleaseInv, Release!FailRestore PROVE ReleaseInv'
<1>1. /\ rOp' = Release!Idle /\ rFaults' = rFaults + 1 /\ rState' = [id |-> rOp.id, status |-> "failed"]
      /\ rOp.at \in {"restore", "fill"} /\ UNCHANGED <<rAsset, rSnaps, rLatest, rWrites, rTaken, rDrift>>
  BY DEF Release!FailRestore, Release!EndRollback
<1>2. rFaults' \in Nat /\ rFaults' # 0 /\ rLatest'.status \in {"none", "blocked", "ready"}
  BY <1>1 DEF ReleaseInv, ReleaseTypes
<1> QED
  BY <1>1, <1>2, IdleFacts, CommandStep

LEMMA VerifyStep == ASSUME ReleaseInv, Release!Verify PROVE ReleaseInv'
<1>1. PICK st \in {"success", "failed"} : rState' = [id |-> rOp.id, status |-> st]
  BY DEF Release!Verify, Release!EndRollback
<1>2. /\ rOp' = Release!Idle /\ rOp.at = "health"
      /\ UNCHANGED <<rAsset, rSnaps, rLatest, rWrites, rFaults, rTaken, rDrift>>
  BY DEF Release!Verify, Release!EndRollback
<1>3. /\ rFaults' \in Nat /\ rLatest'.status \in {"none", "blocked", "ready"}
      /\ (rFaults' = 0 /\ rLatest'.status = "ready" => [id |-> rLatest'.id, complete |-> TRUE] \in rSnaps)
  BY <1>2 DEF ReleaseInv, ReleaseTypes, SnapshotKept
<1> QED
  BY <1>1, <1>2, <1>3, IdleFacts, CommandStep

LEMMA WriteManifestStep == ASSUME ReleaseInv, Release!WriteManifest PROVE ReleaseInv'
<1>1. PICK o : o = IF rOp.drill THEN [rOp EXCEPT !.at = "rollback"] ELSE Release!Idle
  OBVIOUS
<1>2. o \in Commands(o.id) /\ o.at \in {"idle", "rollback"}
  <2>1. rOp \in Commands(rOp.id)
    BY DEF ReleaseInv, ReleaseTypes
  <2> QED
    BY <1>1, <2>1, IdleFacts DEF Commands
<1>3. /\ rOp' = o /\ rOp.at = "manifest" /\ rLatest' = [id |-> rOp.id, status |-> "ready"]
      /\ UNCHANGED <<rAsset, rSnaps, rState, rWrites, rFaults, rTaken, rDrift>>
  BY <1>1 DEF Release!WriteManifest
<1>4. /\ rFaults' \in Nat /\ rLatest'.status \in {"none", "blocked", "ready"}
      /\ (rFaults' = 0 => [id |-> rLatest'.id, complete |-> TRUE] \in rSnaps)
  BY <1>3 DEF ReleaseInv, ReleaseTypes, SnapshotKept
<1> QED
  BY <1>2, <1>3, <1>4, CommandStep

LEMMA StartRollbackStep == ASSUME ReleaseInv, Release!StartRollback PROVE ReleaseInv'
<1>1. rOp.at = "rollback" /\ UNCHANGED <<rAsset, rSnaps, rLatest, rWrites, rFaults, rTaken>>
  BY DEF Release!StartRollback
<1>2. /\ rFaults' \in Nat /\ rLatest'.status \in {"none", "blocked", "ready"}
      /\ (rFaults' = 0 /\ rLatest'.status = "ready" => [id |-> rLatest'.id, complete |-> TRUE] \in rSnaps)
  BY <1>1 DEF ReleaseInv, ReleaseTypes, SnapshotKept
<1>3. CASE rOp' = Release!Idle /\ UNCHANGED <<rState, rDrift>>
  BY <1>1, <1>2, <1>3, IdleFacts, CommandStep
<1>4. CASE /\ [id |-> rOp.id, complete |-> TRUE] \in rSnaps
           /\ rState' = Release!Started(rOp.id) /\ rDrift' = {} /\ rOp' = [rOp EXCEPT !.at = "restore", !.i = 1]
  <2>1. PICK o : o = [rOp EXCEPT !.at = "restore", !.i = 1]
    OBVIOUS
  <2>2. rOp \in Commands(rOp.id)
    BY DEF ReleaseInv, ReleaseTypes
  <2>3. o \in Commands(o.id) /\ o.at = "restore" /\ o.i = 1 /\ o.id = rOp.id /\ rOp' = o
    BY <1>4, <2>1, <2>2, AssetFacts DEF Commands
  <2>4. rOp.id \in SnapIds /\ rOp.id.n \in Nat \ {0} /\ rOp.id.n <= Len(rTaken) /\ rTaken \in Seq(Contents)
    <3>1. PICK s \in rSnaps : s = [id |-> rOp.id, complete |-> TRUE]
      BY <1>4
    <3>2. s.id = rOp.id
      BY <3>1
    <3> QED
      BY <3>2 DEF ReleaseInv, ReleaseTypes, Snapshots, SnapIds
  <2>5. rOp.id.n \in DOMAIN rTaken
    BY <2>4
  <2>6. rState'.id = rOp.id /\ rState'.status = "in_progress"
        /\ rState' \in [id : SnapIds \cup {Release!NoId}, status : {"none", "in_progress", "success", "failed"}]
    BY <1>4, <2>4 DEF Release!Started
  <2>7. ReleaseTypes'
    BY <1>1, <1>2, <1>4, <2>3, <2>6 DEF ReleaseInv, ReleaseTypes, Contents, Release!AssetSet, Unique, Release!NoId
  <2>8. Preparing' /\ Recorded'
    BY <1>1, <2>3, <2>4, <2>5, <2>6 DEF Preparing, Recorded
  <2>9. Restoring'
    <3>1. \A j \in DOMAIN Assets : ~(j < 1)
      BY AssetFacts
    <3> QED
      BY <1>1, <1>4, <2>3, <2>5, <3>1 DEF Restoring, Release!Started
  <2>10. SnapshotKept'
    BY <1>1, <2>3 DEF ReleaseInv, SnapshotKept, Releases
  <2> QED
    BY <2>7, <2>8, <2>9, <2>10 DEF ReleaseInv
<1> QED
  BY <1>3, <1>4 DEF Release!StartRollback

LEMMA PrepareStep == ASSUME ReleaseInv, NEW drill \in BOOLEAN, Release!Prepare(drill) PROVE ReleaseInv'
<1>1. PICK id : id = [kind |-> IF drill THEN "drill" ELSE "release", n |-> Len(rTaken) + 1]
  OBVIOUS
<1>2. PICK s : s = [id |-> id, complete |-> FALSE]
  OBVIOUS
<1>3. PICK o : o = [Release!Idle EXCEPT !.at = "copy", !.drill = drill, !.id = id]
  OBVIOUS
<1>4. rTaken \in Seq(Contents) /\ Len(rTaken) \in Nat
  BY DEF ReleaseInv, ReleaseTypes
<1>5. id \in SnapIds /\ id.n = Len(rTaken) + 1 /\ id.kind = (IF drill THEN "drill" ELSE "release") /\ id.kind \in {"drill", "release"}
  BY <1>1, <1>4 DEF SnapIds
<1>6. s \in Snapshots /\ s.id = id /\ s.complete = FALSE
  BY <1>2, <1>5 DEF Snapshots
<1>7. o \in Commands(o.id) /\ o.at = "copy" /\ o.drill = drill /\ o.id = id
  BY <1>3, IdleFacts DEF Commands
<1>8. /\ rOp = Release!Idle /\ rOp' = o /\ rSnaps' = rSnaps \cup {s} /\ rTaken' = Append(rTaken, Release!Empty)
      /\ UNCHANGED <<rAsset, rState, rLatest, rWrites, rFaults, rDrift>>
  BY <1>1, <1>2, <1>3 DEF Release!Prepare
<1>9. /\ rTaken' \in Seq(Contents) /\ Len(rTaken') = Len(rTaken) + 1
      /\ \A i \in DOMAIN rTaken : i \in DOMAIN rTaken' /\ rTaken'[i] = rTaken[i]
  BY <1>4, <1>8, ContentFacts
<1>10. \A t \in rSnaps : t.id.n <= Len(rTaken) /\ t.id.n \in Nat
  BY DEF ReleaseInv, ReleaseTypes, Snapshots, SnapIds
<1>11. rState.id.n <= Len(rTaken) /\ rState.id.n \in Nat
  BY DEF ReleaseInv, ReleaseTypes, Recorded, SnapIds, Release!NoId
<1>12. ReleaseTypes'
  <2>1. rSnaps' \subseteq Snapshots /\ IsFiniteSet(rSnaps')
    BY <1>6, <1>8, FS_AddElement DEF ReleaseInv, ReleaseTypes
  <2>2. Unique(rSnaps')
    BY <1>4, <1>5, <1>6, <1>8, <1>10 DEF ReleaseInv, ReleaseTypes, Unique
  <2>3. \A t \in rSnaps' : t.id.n <= Len(rTaken')
    BY <1>4, <1>5, <1>6, <1>8, <1>9, <1>10
  <2> QED
    BY <1>7, <1>8, <1>9, <2>1, <2>2, <2>3 DEF ReleaseInv, ReleaseTypes, Contents, Release!AssetSet, Release!NoId
<1>13. Preparing'
  <2>1. rOp'.id = [kind |-> IF rOp'.drill THEN "drill" ELSE "release", n |-> Len(rTaken')]
    BY <1>1, <1>7, <1>8, <1>9
  <2>2. [id |-> rOp'.id, complete |-> FALSE] \in rSnaps'
    BY <1>2, <1>7, <1>8
  <2>3. rState'.id.n < Len(rTaken')
    BY <1>4, <1>8, <1>9, <1>11
  <2> QED
    BY <2>1, <2>2, <2>3 DEF Preparing
<1>14. Restoring'
  BY <1>7, <1>8 DEF Restoring
<1>15. Recorded'
  <2>1. rState'.id.n <= Len(rTaken')
    BY <1>4, <1>8, <1>9, <1>11
  <2>2. ASSUME rState.status # "none"
        PROVE  rState.id.n \in DOMAIN rTaken /\ rState.id.n \in DOMAIN rTaken' /\ rTaken'[rState.id.n] = rTaken[rState.id.n]
    BY <1>9, <2>2 DEF ReleaseInv, Recorded
  <2>3. ASSUME rState.status = "success", NEW a \in Release!AssetSet PROVE Restored(rState.id.n, a)'
    <3>1. Restored(rState.id.n, a)
      BY <2>3 DEF ReleaseInv, Recorded
    <3> QED
      BY <1>8, <2>2, <2>3, <3>1 DEF Restored, Release!Absent
  <2> QED
    BY <1>8, <2>1, <2>2, <2>3 DEF Recorded, Release!AssetSet
<1>16. SnapshotKept'
  <2>1. CASE drill
    <3>1. Releases(rSnaps') = Releases(rSnaps)
      BY <1>5, <1>6, <1>8, <2>1 DEF Releases
    <3>2. rFaults = 0 => Cardinality(Releases(rSnaps)) <= Retention
      BY <1>8, IdleFacts DEF ReleaseInv, SnapshotKept
    <3> QED
      BY <1>7, <1>8, <3>1, <3>2 DEF SnapshotKept
  <2>2. CASE ~drill
    BY <1>7, <1>8, <2>2 DEF SnapshotKept
  <2> QED
    BY <2>1, <2>2
<1> QED
  BY <1>12, <1>13, <1>14, <1>15, <1>16 DEF ReleaseInv

LEMMA CopyAssetStep == ASSUME ReleaseInv, Release!CopyAsset PROVE ReleaseInv'
<1>1. PICK a : a = Assets[rOp.i]
  OBVIOUS
<1>2. rOp \in Commands(rOp.id) /\ rOp.i \in DOMAIN Assets /\ rTaken \in Seq(Contents) /\ rAsset \in Contents /\ rOp.at = "copy"
  BY DEF ReleaseInv, ReleaseTypes, Commands, Release!CopyAsset
<1>3. a \in Release!AssetSet /\ rAsset[a] \in 0 .. (MaxWrites + 1)
  BY <1>1, <1>2, AssetFacts DEF Contents
<1>4. rOp.id.n = Len(rTaken) /\ rOp.id.n \in DOMAIN rTaken /\ rState.id.n < Len(rTaken)
  <2>1. rOp.id.n = Len(rTaken) /\ [id |-> rOp.id, complete |-> FALSE] \in rSnaps /\ rState.id.n < Len(rTaken)
    BY <1>2 DEF ReleaseInv, Preparing
  <2>2. PICK s \in rSnaps : s = [id |-> rOp.id, complete |-> FALSE]
    BY <2>1
  <2>3. rOp.id.n \in Nat \ {0}
    BY <2>2 DEF ReleaseInv, ReleaseTypes, Snapshots, SnapIds
  <2> QED
    BY <1>2, <2>1, <2>3
<1>5. PICK c : c = [rTaken[rOp.id.n] EXCEPT ![a] = rAsset[a]]
  OBVIOUS
<1>6. c \in Contents
  <2>1. rTaken[rOp.id.n] \in Contents
    BY <1>2, <1>4
  <2> QED
    BY <1>3, <1>5, <2>1 DEF Contents
<1>7. PICK o : o = IF rOp.i < Len(Assets) THEN [rOp EXCEPT !.i = @ + 1] ELSE [rOp EXCEPT !.at = "metadata"]
  OBVIOUS
<1>8. /\ rTaken' = [rTaken EXCEPT ![rOp.id.n] = c] /\ rOp' = o
      /\ UNCHANGED <<rAsset, rSnaps, rState, rLatest, rWrites, rFaults, rDrift>>
  BY <1>1, <1>5, <1>7 DEF Release!CopyAsset
<1>9. o \in Commands(o.id) /\ o.id = rOp.id /\ o.drill = rOp.drill /\ o.at \in {"copy", "metadata"}
  <2>1. rOp.i < Len(Assets) => rOp.i + 1 \in DOMAIN Assets
    BY <1>2, AssetFacts
  <2> QED
    BY <1>2, <1>7, <2>1 DEF Commands
<1>10. /\ rTaken' \in Seq(Contents) /\ Len(rTaken') = Len(rTaken) /\ DOMAIN rTaken' = DOMAIN rTaken
       /\ \A i \in DOMAIN rTaken : i # rOp.id.n => rTaken'[i] = rTaken[i]
  BY <1>2, <1>4, <1>6, <1>8
<1>11. ReleaseTypes'
  BY <1>8, <1>9, <1>10 DEF ReleaseInv, ReleaseTypes, Contents, Release!AssetSet, Unique, Release!NoId
<1>12. Preparing'
  BY <1>2, <1>8, <1>9, <1>10 DEF ReleaseInv, Preparing
<1>13. Restoring'
  BY <1>8, <1>9 DEF Restoring
<1>14. Recorded'
  <2>1. rState.id.n # rOp.id.n
    BY <1>2, <1>4 DEF ReleaseInv, ReleaseTypes, SnapIds, Release!NoId
  <2>2. ASSUME rState.status # "none"
        PROVE  rState.id.n \in DOMAIN rTaken /\ rTaken'[rState.id.n] = rTaken[rState.id.n]
    BY <1>10, <2>1, <2>2 DEF ReleaseInv, Recorded
  <2>3. ASSUME rState.status = "success", NEW b \in Release!AssetSet PROVE Restored(rState.id.n, b)'
    <3>1. Restored(rState.id.n, b)
      BY <2>3 DEF ReleaseInv, Recorded
    <3> QED
      BY <1>8, <2>2, <2>3, <3>1 DEF Restored, Release!Absent
  <2>4. rState.id.n <= Len(rTaken)
    BY DEF ReleaseInv, Recorded
  <2> QED
    BY <1>8, <1>10, <2>2, <2>3, <2>4 DEF Recorded, Release!AssetSet
<1>15. SnapshotKept'
  BY <1>2, <1>8, <1>9 DEF ReleaseInv, SnapshotKept, Releases
<1> QED
  BY <1>11, <1>12, <1>13, <1>14, <1>15 DEF ReleaseInv

LEMMA WriteMetadataStep == ASSUME ReleaseInv, Release!WriteMetadata PROVE ReleaseInv'
<1> DEFINE new == [id |-> rOp.id, complete |-> TRUE]
           limit == IF rOp.drill THEN DrillRetention ELSE Retention
<1>1. PICK all : all = {IF s.id = rOp.id THEN [s EXCEPT !.complete = TRUE] ELSE s : s \in rSnaps}
  OBVIOUS
<1>2. /\ rOp \in Commands(rOp.id) /\ rOp.at = "metadata" /\ rSnaps \subseteq Snapshots /\ IsFiniteSet(rSnaps) /\ Unique(rSnaps)
      /\ rTaken \in Seq(Contents) /\ Len(rTaken) \in Nat
  BY DEF ReleaseInv, ReleaseTypes, Release!WriteMetadata
<1>3. /\ rOp.id = [kind |-> IF rOp.drill THEN "drill" ELSE "release", n |-> Len(rTaken)]
      /\ [id |-> rOp.id, complete |-> FALSE] \in rSnaps
  BY <1>2 DEF ReleaseInv, Preparing
<1>4. rSnaps' = Release!Pruned(all, limit) /\ UNCHANGED <<rAsset, rState, rLatest, rWrites, rFaults, rTaken, rDrift>>
  BY <1>1 DEF Release!WriteMetadata
<1>5. PICK o : o = [rOp EXCEPT !.at = "manifest"]
  OBVIOUS
<1>6. rOp' = o /\ o \in Commands(o.id) /\ o.at = "manifest" /\ o.id = rOp.id
  BY <1>2, <1>5 DEF Release!WriteMetadata, Commands
<1>7. rOp.id \in SnapIds /\ new \in Snapshots /\ new.id = rOp.id
  <2>1. PICK s \in rSnaps : s = [id |-> rOp.id, complete |-> FALSE]
    BY <1>3
  <2> QED
    BY <1>2, <2>1 DEF Snapshots
<1>8. ASSUME NEW s \in rSnaps, s.id = rOp.id PROVE [s EXCEPT !.complete = TRUE] = new
  <2>1. PICK e : e = [s EXCEPT !.complete = TRUE]
    OBVIOUS
  <2>2. e \in Snapshots /\ e.id = rOp.id /\ e.complete = TRUE
    BY <1>2, <1>8, <2>1 DEF Snapshots
  <2>3. new.id = rOp.id /\ new.complete = TRUE
    OBVIOUS
  <2>4. e = new
    <3> HIDE DEF new
    <3> QED
      BY <1>7, <2>2, <2>3 DEF Snapshots
  <2> QED
    BY <2>1, <2>4
<1>9. \A s \in all : s = new \/ (s \in rSnaps /\ s.id # rOp.id)
  <2>1. ASSUME NEW s \in rSnaps
        PROVE  LET t == IF s.id = rOp.id THEN [s EXCEPT !.complete = TRUE] ELSE s
               IN t = new \/ (t \in rSnaps /\ t.id # rOp.id)
    BY <1>8, Zenon
  <2> HIDE DEF new
  <2> QED
    BY <1>1, <2>1
<1>10. new \in all
  <2>1. PICK s \in rSnaps : s = [id |-> rOp.id, complete |-> FALSE]
    BY <1>3
  <2>2. s.id = rOp.id
    BY <2>1
  <2>3. [s EXCEPT !.complete = TRUE] = new
    BY <1>8, <2>2
  <2> QED
    BY <1>1, <2>2, <2>3
<1>11. all \subseteq Snapshots /\ IsFiniteSet(all)
  <2>1. all \subseteq rSnaps \cup {new} /\ all \subseteq Snapshots
    BY <1>2, <1>7, <1>9
  <2>2. IsFiniteSet(rSnaps \cup {new})
    BY <1>2, FS_AddElement
  <2> QED
    BY <2>1, <2>2, FS_Subset
<1>12. Unique(all)
  <2>1. PICK q \in rSnaps : q = [id |-> rOp.id, complete |-> FALSE]
    BY <1>3
  <2>2. \A s \in rSnaps : s.id # rOp.id => s.id.n # rOp.id.n
    BY <1>2, <2>1 DEF Unique
  <2> QED
    BY <1>2, <1>7, <1>9, <2>2 DEF Unique
<1>13. \A s \in all : s.id.n <= Len(rTaken)
  BY <1>2, <1>3, <1>7, <1>9 DEF ReleaseInv, ReleaseTypes
<1>14. rSnaps' \subseteq all
  BY <1>4 DEF Release!Pruned
<1>15. ReleaseTypes'
  <2>1. rSnaps' \subseteq Snapshots /\ IsFiniteSet(rSnaps')
    BY <1>11, <1>14, FS_Subset
  <2>2. Unique(rSnaps') /\ \A s \in rSnaps' : s.id.n <= Len(rTaken')
    BY <1>4, <1>12, <1>13, <1>14 DEF Unique
  <2> QED
    BY <1>4, <1>6, <2>1, <2>2 DEF ReleaseInv, ReleaseTypes, Contents, Release!AssetSet, Release!NoId
<1>16. Preparing' /\ Restoring'
  BY <1>6 DEF Preparing, Restoring
<1>17. Recorded'
  BY <1>4 DEF ReleaseInv, Recorded, Restored, Release!AssetSet, Release!Absent
<1>18. limit \in Nat \ {0} /\ limit >= Retention /\ Retention \in Nat \ {0} /\ (rOp.drill => Retention < limit)
  BY StateFilesAssumption
<1>19. ASSUME rFaults = 0 PROVE Cardinality(Releases(rSnaps')) <= Retention
  <2>1. CASE rOp.drill
    <3>1. Cardinality(Releases(rSnaps)) <= Retention /\ IsFiniteSet(Releases(rSnaps))
      BY <1>2, <1>19, <2>1, FS_Subset DEF ReleaseInv, SnapshotKept, Releases
    <3>2. Releases(rSnaps') \subseteq Releases(rSnaps)
      <4>1. new.id.kind = "drill"
        BY <1>3, <1>7, <2>1
      <4> QED
        BY <1>9, <1>14, <4>1 DEF Releases
    <3>3. Cardinality(Releases(rSnaps')) <= Cardinality(Releases(rSnaps)) /\ IsFiniteSet(Releases(rSnaps'))
      BY <3>1, <3>2, FS_Subset
    <3>4. Cardinality(Releases(rSnaps')) \in Nat /\ Cardinality(Releases(rSnaps)) \in Nat
      BY <3>1, <3>3, FS_CardinalityType
    <3> QED
      BY <1>18, <3>1, <3>3, <3>4
  <2>2. CASE ~rOp.drill
    <3>1. limit = Retention
      BY <2>2
    <3> HIDE DEF limit
    <3> QED
      BY <1>2, <1>4, <1>11, <1>12, <1>13, <1>18, <3>1, PrunedReleases
  <2> QED
    BY <2>1, <2>2
<1>20. ASSUME rFaults = 0 PROVE new \in rSnaps'
  <2>1. Release!Newer(all, new) \subseteq {t \in all : rOp.drill /\ t.id.kind = "release"}
    <3> SUFFICES ASSUME NEW t \in all, Release!Before(rOp.id, t.id) PROVE rOp.drill /\ t.id.kind = "release"
      BY <1>7 DEF Release!Newer
    <3>1. t.id.n <= Len(rTaken) /\ t.id.n \in Nat /\ rOp.id.n = Len(rTaken)
      BY <1>3, <1>11, <1>13 DEF Snapshots, SnapIds
    <3>2. rOp.id.kind = "drill" /\ t.id.kind = "release"
      BY <1>2, <3>1 DEF Release!Before
    <3> QED
      BY <1>3, <3>2
  <2>2. Release!Cardinality(Release!Newer(all, new)) = Cardinality(Release!Newer(all, new))
    BY DEF Release!Cardinality, Cardinality
  <2>3. CASE rOp.drill
    <3>1. Cardinality(Releases(rSnaps)) <= Retention /\ IsFiniteSet(Releases(rSnaps))
      BY <1>2, <1>20, <2>3, FS_Subset DEF ReleaseInv, SnapshotKept, Releases
    <3>2. Release!Newer(all, new) \subseteq Releases(rSnaps)
      <4>1. new.id.kind = "drill"
        BY <1>3, <1>7, <2>3
      <4> QED
        BY <1>9, <2>1, <4>1 DEF Releases
    <3>3. /\ Cardinality(Release!Newer(all, new)) <= Cardinality(Releases(rSnaps)) /\ IsFiniteSet(Release!Newer(all, new))
      BY <3>1, <3>2, FS_Subset
    <3>4. Cardinality(Release!Newer(all, new)) \in Nat /\ Cardinality(Releases(rSnaps)) \in Nat
      BY <3>1, <3>3, FS_CardinalityType
    <3>5. Cardinality(Release!Newer(all, new)) < limit
      BY <1>18, <2>3, <3>1, <3>3, <3>4
    <3> QED
      BY <1>4, <1>10, <2>2, <3>5 DEF Release!Pruned
  <2>4. CASE ~rOp.drill
    <3>1. Release!Newer(all, new) = {}
      BY <2>1, <2>4
    <3>2. Cardinality(Release!Newer(all, new)) < limit
      <4>1. Cardinality({}) = 0
        BY FS_EmptySet
      <4>2. 0 < limit
        BY <1>18
      <4> HIDE DEF limit
      <4> QED
        BY <3>1, <4>1, <4>2
    <3> QED
      BY <1>4, <1>10, <2>2, <3>2 DEF Release!Pruned
  <2> QED
    BY <2>3, <2>4
<1>21. SnapshotKept'
  BY <1>4, <1>6, <1>19, <1>20 DEF SnapshotKept
<1> QED
  BY <1>15, <1>16, <1>17, <1>21 DEF ReleaseInv

(***************************************************************************)
(* The gate.                                                               *)
(***************************************************************************)

GateRuns == [at : {"new", "check", "tidy", "report", "latest", "over", "dead"},
             i : DOMAIN Checks, skipHealth : BOOLEAN, failed : SUBSET {Checks[i] : i \in DOMAIN Checks}]
ReportOf(r, s) == [run |-> r, verdict |-> Gate!Verdict(s.failed)]

GateTypes == /\ gGood \subseteq Gate!Ids /\ gChanges \in 0 .. MaxChanges
             /\ gRun \in [Clients -> GateRuns]

\* A run that goes on to latest.json has its report; latest.json is that of a run which is over, and which
\* nothing changes any more.
GateInv ==
    /\ GateTypes
    /\ \A r \in Clients : gRun[r].at = "latest" => ReportOf(r, gRun[r]) \in gReports
    /\ gLatest # Gate!NoReport =>
           \E r \in Clients : gRun[r].at = "over" /\ gLatest = ReportOf(r, gRun[r]) /\ gLatest \in gReports
    /\ gSmoke \subseteq {r \in Clients : gRun[r].at \in {"tidy", "dead"}}

LEMMA CheckFacts ==
  /\ 1 \in DOMAIN Checks /\ Len(Checks) \in Nat /\ DOMAIN Checks = 1 .. Len(Checks)
<1>1. PICK q \in Seq({Checks[i] : i \in DOMAIN Checks}) : q = Checks /\ q # <<>>
  BY StateFilesAssumption DEF Listed
<1>2. 1 \in DOMAIN q /\ Len(q) \in Nat /\ DOMAIN q = 1 .. Len(q)
  BY <1>1
<1> QED
  BY <1>1, <1>2

LEMMA NewRunFacts == Gate!NewRun \in GateRuns /\ Gate!NewRun.at = "new"
BY CheckFacts DEF Gate!NewRun, GateRuns

LEMMA GateInitially == Init => GateInv
<1> SUFFICES ASSUME Init PROVE GateInv
  OBVIOUS
<1>1. /\ gGood = Gate!Ids /\ gRun = [r \in Clients |-> Gate!NewRun] /\ gReports = {} /\ gLatest = Gate!NoReport
      /\ gSmoke = {} /\ gChanges = 0
  BY DEF Init, Gate!Init
<1>2. GateTypes
  BY <1>1, NewRunFacts, StateFilesAssumption DEF GateTypes
<1>3. \A r \in Clients : gRun[r].at = "new"
  BY <1>1, NewRunFacts
<1> QED
  BY <1>1, <1>2, <1>3 DEF GateInv

\* A run goes on, before its report or to its death.
LEMMA GateMove ==
  ASSUME GateInv, NEW r \in Clients, NEW s \in GateRuns,
         gRun[r].at # "over", s.at \notin {"latest", "over"}, gRun' = [gRun EXCEPT ![r] = s],
         gSmoke' \subseteq gSmoke \cup {r}, r \in gSmoke' => s.at \in {"tidy", "dead"},
         gGood' \subseteq Gate!Ids, UNCHANGED <<gReports, gLatest, gChanges>>
  PROVE  GateInv'
<1>1. gRun' \in [Clients -> GateRuns] /\ \A t \in Clients : gRun'[t] = IF t = r THEN s ELSE gRun[t]
  BY DEF GateInv, GateTypes
<1>2. GateTypes'
  BY <1>1 DEF GateInv, GateTypes
<1>3. \A t \in Clients : gRun'[t].at = "latest" => ReportOf(t, gRun'[t]) \in gReports'
  BY <1>1 DEF GateInv
<1>4. gLatest' # Gate!NoReport =>
          \E t \in Clients : gRun'[t].at = "over" /\ gLatest' = ReportOf(t, gRun'[t]) /\ gLatest' \in gReports'
  BY <1>1 DEF GateInv
<1>5. gSmoke' \subseteq {t \in Clients : gRun'[t].at \in {"tidy", "dead"}}
  BY <1>1 DEF GateInv
<1> QED
  BY <1>2, <1>3, <1>4, <1>5 DEF GateInv, ReportOf, Gate!NoReport

LEMMA AdvanceFacts ==
  ASSUME NEW s \in GateRuns
  PROVE  Gate!Advance(s) \in GateRuns /\ Gate!Advance(s).at \in {"check", "report"}
<1>1. CASE s.i < Len(Checks)
  <2>1. s.i + 1 \in DOMAIN Checks
    BY <1>1, CheckFacts DEF GateRuns
  <2>2. PICK a : a = [s EXCEPT !.i = @ + 1, !.at = "check"]
    OBVIOUS
  <2>3. a \in GateRuns /\ a.at = "check"
    BY <2>1, <2>2 DEF GateRuns
  <2> QED
    BY <1>1, <2>2, <2>3 DEF Gate!Advance
<1>2. CASE ~(s.i < Len(Checks))
  <2>1. PICK a : a = [s EXCEPT !.at = "report"]
    OBVIOUS
  <2>2. a \in GateRuns /\ a.at = "report"
    BY <2>1 DEF GateRuns
  <2> QED
    BY <1>2, <2>1, <2>2 DEF Gate!Advance
<1> QED
  BY <1>1, <1>2

LEMMA GateStartStep ==
  ASSUME GateInv, NEW r \in Clients, NEW skip \in BOOLEAN, Gate!Start(r, skip) PROVE GateInv'
<1>1. PICK s : s = [gRun[r] EXCEPT !.at = "check", !.skipHealth = skip]
  OBVIOUS
<1>2. s \in GateRuns /\ s.at = "check" /\ gRun[r].at = "new"
  BY <1>1, NewRunFacts DEF GateInv, GateTypes, GateRuns, Gate!Start
<1>3. gRun' = [gRun EXCEPT ![r] = s] /\ UNCHANGED <<gGood, gReports, gLatest, gSmoke, gChanges>>
  BY <1>1 DEF Gate!Start
<1>4. gGood' \subseteq Gate!Ids /\ r \notin gSmoke'
  BY <1>2, <1>3 DEF GateInv, GateTypes
<1> QED
  BY <1>2, <1>3, <1>4, GateMove

LEMMA CheckStep == ASSUME GateInv, NEW r \in Clients, Gate!Check(r) PROVE GateInv'
<1>1. /\ gRun[r] \in GateRuns /\ gRun[r].at = "check" /\ gRun[r].i \in DOMAIN Checks /\ gGood \subseteq Gate!Ids
      /\ UNCHANGED <<gReports, gLatest, gChanges>>
  BY DEF GateInv, GateTypes, GateRuns, Gate!Check
<1>2. PICK c : c = Checks[gRun[r].i]
  OBVIOUS
<1>3. r \notin gSmoke
  BY <1>1 DEF GateInv
<1>4. CASE gRun' = [gRun EXCEPT ![r] = Gate!Advance(@)] /\ UNCHANGED <<gGood, gSmoke>>
  <2>1. PICK a : a = Gate!Advance(gRun[r])
    OBVIOUS
  <2>2. a \in GateRuns /\ a.at \in {"check", "report"} /\ gRun' = [gRun EXCEPT ![r] = a]
    BY <1>1, <1>4, <2>1, AdvanceFacts
  <2> QED
    BY <1>1, <1>3, <1>4, <2>2, GateMove
<1>5. CASE /\ LET s == IF Gate!Passes(c.id) THEN gRun[r] ELSE [gRun[r] EXCEPT !.failed = @ \cup {c}]
              IN gRun' = [gRun EXCEPT ![r] = IF c.id = "cli-onboard" THEN [s EXCEPT !.at = "tidy"] ELSE Gate!Advance(s)]
           /\ gGood' = IF c.id = "build" /\ Gate!Passes(c.id) THEN gGood \cup (Gate!Ids \cap {"dist-artifact"}) ELSE gGood
           /\ gSmoke' = IF c.id = "cli-onboard" THEN gSmoke \cup {r} ELSE gSmoke
  <2>1. PICK s : s = IF Gate!Passes(c.id) THEN gRun[r] ELSE [gRun[r] EXCEPT !.failed = @ \cup {c}]
    OBVIOUS
  <2>2. s \in GateRuns
    BY <1>1, <1>2, <2>1 DEF GateRuns
  <2>3. gGood' \subseteq Gate!Ids
    BY <1>1, <1>5
  <2>4. CASE c.id = "cli-onboard"
    <3>1. PICK a : a = [s EXCEPT !.at = "tidy"]
      OBVIOUS
    <3>2. a \in GateRuns /\ a.at = "tidy"
      BY <2>2, <3>1 DEF GateRuns
    <3>3. gRun' = [gRun EXCEPT ![r] = a] /\ gSmoke' = gSmoke \cup {r}
      BY <1>5, <2>1, <2>4, <3>1
    <3> QED
      BY <1>1, <2>3, <3>2, <3>3, GateMove
  <2>5. CASE c.id # "cli-onboard"
    <3>1. PICK a : a = Gate!Advance(s)
      OBVIOUS
    <3>2. a \in GateRuns /\ a.at \in {"check", "report"}
      BY <2>2, <3>1, AdvanceFacts
    <3>3. gRun' = [gRun EXCEPT ![r] = a] /\ gSmoke' = gSmoke
      BY <1>5, <2>1, <2>5, <3>1
    <3> QED
      BY <1>1, <1>3, <2>3, <3>2, <3>3, GateMove
  <2> QED
    BY <2>4, <2>5
<1> QED
  BY <1>2, <1>4, <1>5 DEF Gate!Check

LEMMA TidyStep == ASSUME GateInv, NEW r \in Clients, Gate!Tidy(r) PROVE GateInv'
<1>1. /\ gRun[r] \in GateRuns /\ gRun[r].at = "tidy" /\ gGood' \subseteq Gate!Ids /\ gSmoke' = gSmoke \ {r}
      /\ UNCHANGED <<gReports, gLatest, gChanges>>
  BY DEF GateInv, GateTypes, Gate!Tidy
<1>2. PICK a : a = Gate!Advance(gRun[r])
  OBVIOUS
<1>3. a \in GateRuns /\ a.at \in {"check", "report"} /\ gRun' = [gRun EXCEPT ![r] = a]
  BY <1>1, <1>2, AdvanceFacts DEF Gate!Tidy
<1> QED
  BY <1>1, <1>3, GateMove

LEMMA GateDieStep == ASSUME GateInv, NEW r \in Clients, Gate!Die(r) PROVE GateInv'
<1>1. PICK a : a = [gRun[r] EXCEPT !.at = "dead"]
  OBVIOUS
<1>2. a \in GateRuns /\ a.at = "dead" /\ gRun[r].at # "over"
  BY <1>1 DEF GateInv, GateTypes, GateRuns, Gate!Die
<1>3. gRun' = [gRun EXCEPT ![r] = a] /\ gGood' \subseteq Gate!Ids /\ UNCHANGED <<gReports, gLatest, gSmoke, gChanges>>
  BY <1>1 DEF GateInv, GateTypes, Gate!Die
<1> QED
  BY <1>2, <1>3, GateMove

LEMMA WriteReportStep == ASSUME GateInv, NEW r \in Clients, Gate!WriteReport(r) PROVE GateInv'
<1>1. PICK a : a = [gRun[r] EXCEPT !.at = "latest"]
  OBVIOUS
<1>2. a \in GateRuns /\ a.at = "latest" /\ a.failed = gRun[r].failed /\ gRun[r].at = "report"
  BY <1>1 DEF GateInv, GateTypes, GateRuns, Gate!WriteReport
<1>3. /\ gRun' = [gRun EXCEPT ![r] = a] /\ gReports' = gReports \cup {ReportOf(r, gRun[r])}
      /\ UNCHANGED <<gGood, gLatest, gSmoke, gChanges>>
  BY <1>1 DEF Gate!WriteReport, ReportOf
<1>4. gRun' \in [Clients -> GateRuns] /\ \A t \in Clients : gRun'[t] = IF t = r THEN a ELSE gRun[t]
  BY <1>2, <1>3 DEF GateInv, GateTypes
<1>5. GateTypes'
  BY <1>3, <1>4 DEF GateInv, GateTypes
<1>6. ReportOf(r, a) = ReportOf(r, gRun[r])
  BY <1>2 DEF ReportOf
<1>7. \A t \in Clients : gRun'[t].at = "latest" => ReportOf(t, gRun'[t]) \in gReports'
  BY <1>3, <1>4, <1>6 DEF GateInv
<1>8. gLatest' # Gate!NoReport =>
          \E t \in Clients : gRun'[t].at = "over" /\ gLatest' = ReportOf(t, gRun'[t]) /\ gLatest' \in gReports'
  BY <1>2, <1>3, <1>4 DEF GateInv
<1>9. gSmoke' \subseteq {t \in Clients : gRun'[t].at \in {"tidy", "dead"}}
  BY <1>2, <1>3, <1>4 DEF GateInv
<1> QED
  BY <1>5, <1>7, <1>8, <1>9 DEF GateInv, ReportOf, Gate!NoReport

LEMMA WriteLatestStep == ASSUME GateInv, NEW r \in Clients, Gate!WriteLatest(r) PROVE GateInv'
<1>1. PICK a : a = [gRun[r] EXCEPT !.at = "over"]
  OBVIOUS
<1>2. a \in GateRuns /\ a.at = "over" /\ a.failed = gRun[r].failed /\ gRun[r].at = "latest"
  BY <1>1 DEF GateInv, GateTypes, GateRuns, Gate!WriteLatest
<1>3. gRun' = [gRun EXCEPT ![r] = a] /\ gLatest' = ReportOf(r, gRun[r]) /\ UNCHANGED <<gGood, gReports, gSmoke, gChanges>>
  BY <1>1 DEF Gate!WriteLatest, ReportOf
<1>4. gRun' \in [Clients -> GateRuns] /\ \A t \in Clients : gRun'[t] = IF t = r THEN a ELSE gRun[t]
  BY <1>2, <1>3 DEF GateInv, GateTypes
<1>5. GateTypes'
  BY <1>3, <1>4 DEF GateInv, GateTypes
<1>6. ReportOf(r, a) = ReportOf(r, gRun[r])
  BY <1>2 DEF ReportOf
<1>7. \A t \in Clients : gRun'[t].at = "latest" => ReportOf(t, gRun'[t]) \in gReports'
  BY <1>2, <1>3, <1>4 DEF GateInv
<1>8. gRun'[r].at = "over" /\ gLatest' = ReportOf(r, gRun'[r]) /\ gLatest' \in gReports'
  BY <1>2, <1>3, <1>4, <1>6 DEF GateInv
<1>9. gSmoke' \subseteq {t \in Clients : gRun'[t].at \in {"tidy", "dead"}}
  BY <1>2, <1>3, <1>4 DEF GateInv
<1> QED
  BY <1>5, <1>7, <1>8, <1>9 DEF GateInv, ReportOf

LEMMA ChangeStep == ASSUME GateInv, NEW id \in Gate!Ids, Gate!Change(id) PROVE GateInv'
<1>1. gGood' \subseteq Gate!Ids /\ gChanges' \in 0 .. MaxChanges /\ UNCHANGED <<gRun, gReports, gLatest, gSmoke>>
  BY StateFilesAssumption DEF GateInv, GateTypes, Gate!Change
<1> QED
  BY <1>1 DEF GateInv, GateTypes, ReportOf, Gate!NoReport

LEMMA GateStep == GateInv /\ [Gate!Next]_GateVars => GateInv'
<1> SUFFICES ASSUME GateInv, [Gate!Next]_GateVars PROVE GateInv'
  OBVIOUS
<1>1. CASE UNCHANGED GateVars
  BY <1>1 DEF GateVars, GateInv, GateTypes, ReportOf, Gate!NoReport
<1> QED
  BY <1>1, GateStartStep, CheckStep, TidyStep, WriteReportStep, WriteLatestStep, GateDieStep, ChangeStep DEF Gate!Next

LEMMA TheGateIsHonest == GateInv => Gate!TypeOK /\ Gate!GateHonest
<1> SUFFICES ASSUME GateInv PROVE Gate!TypeOK /\ Gate!GateHonest
  OBVIOUS
<1>1. Gate!TypeOK
  BY DEF GateInv, GateTypes, GateRuns, Gate!TypeOK
<1>2. ASSUME gLatest.verdict \in {"go", "advisory-only"}
      PROVE  gLatest \in gReports /\ \A c \in gRun[gLatest.run].failed : ~c.hard
  <2>1. gLatest # Gate!NoReport
    BY <1>2 DEF Gate!NoReport
  <2>2. PICK r \in Clients : gRun[r].at = "over" /\ gLatest = ReportOf(r, gRun[r]) /\ gLatest \in gReports
    BY <2>1 DEF GateInv
  <2>3. gLatest.run = r /\ Gate!Verdict(gRun[r].failed) \in {"go", "advisory-only"}
    BY <1>2, <2>2 DEF ReportOf
  <2> QED
    BY <2>2, <2>3 DEF Gate!Verdict
<1>3. \A r \in gSmoke : gRun[r].at \in {"tidy", "dead"}
  BY DEF GateInv
<1> QED
  BY <1>1, <1>2, <1>3 DEF Gate!GateHonest

\* A rollback goes on by an asset, which it has left as the snapshot has it.
LEMMA RestoreMove ==
  ASSUME ReleaseInv, rOp.at \in {"restore", "fill"}, NEW f \in Contents, rAsset' = f,
         \A b \in Release!AssetSet : b # Assets[rOp.i] => f[b] = rAsset[b],
         NEW o, rOp' = o, o \in Commands(o.id), o.id = rOp.id, o.at \in {"restore", "fill", "health"},
         \/ o.i = rOp.i /\ o.at # "health"
         \/ /\ rTaken[rOp.id.n][Assets[rOp.i]] \in {Release!Absent, f[Assets[rOp.i]]}
            /\ (o.i = rOp.i + 1 /\ o.at # "health") \/ (o.at = "health" /\ rOp.i = Len(Assets)),
         UNCHANGED <<rSnaps, rState, rLatest, rWrites, rFaults, rTaken, rDrift>>
  PROVE  ReleaseInv'
<1>1. rOp.i \in DOMAIN Assets /\ o.i \in DOMAIN Assets
  BY DEF ReleaseInv, ReleaseTypes, Commands
<1>2. rState.status = "in_progress" /\ rState = Release!Started(rOp.id) /\ rOp.id.n \in DOMAIN rTaken
  BY DEF ReleaseInv, Restoring, Release!Started
<1>3. ReleaseTypes'
  BY DEF ReleaseInv, ReleaseTypes, Contents, Release!AssetSet, Unique, Release!NoId
<1>4. Preparing' /\ SnapshotKept'
  BY DEF ReleaseInv, Preparing, SnapshotKept, Releases
<1>5. Recorded'
  BY <1>2 DEF ReleaseInv, Recorded
<1>6. Restoring'
  <2> SUFFICES ASSUME NEW j \in DOMAIN Assets, o.at = "health" \/ j < o.i PROVE Restored(rOp.id.n, Assets[j])'
    BY <1>2 DEF Restoring, Release!Started
  <2>1. CASE j = rOp.i
    <3>1. rTaken[rOp.id.n][Assets[rOp.i]] \in {Release!Absent, f[Assets[rOp.i]]}
      BY <1>1, <2>1, AssetFacts
    <3> QED
      BY <2>1, <3>1 DEF Restored, Release!Absent
  <2>2. CASE j # rOp.i
    <3>1. j < rOp.i
      BY <1>1, <2>2, AssetFacts
    <3>2. Restored(rOp.id.n, Assets[j])
      BY <3>1 DEF ReleaseInv, Restoring
    <3>3. f[Assets[j]] = rAsset[Assets[j]]
      <4>1. Assets[j] # Assets[rOp.i] /\ Assets[j] \in Release!AssetSet
        BY <1>1, <2>2, AssetFacts
      <4> QED
        BY <4>1
    <3> QED
      BY <3>2, <3>3 DEF Restored, Release!Absent
  <2> QED
    BY <2>1, <2>2
<1> QED
  BY <1>3, <1>4, <1>5, <1>6 DEF ReleaseInv

LEMMA RestoreNextFacts ==
  ASSUME ReleaseInv
  PROVE  LET o == Release!RestoreNext(rOp)
         IN /\ o \in Commands(o.id) /\ o.id = rOp.id /\ o.at \in {"restore", "health"}
            /\ (o.i = rOp.i + 1 /\ o.at # "health") \/ (o.at = "health" /\ rOp.i = Len(Assets))
<1>1. rOp \in Commands(rOp.id) /\ rOp.i \in DOMAIN Assets
  BY DEF ReleaseInv, ReleaseTypes, Commands
<1>2. CASE rOp.i < Len(Assets)
  <2>1. PICK o : o = [rOp EXCEPT !.i = @ + 1, !.at = "restore"]
    OBVIOUS
  <2>2. rOp.i + 1 \in DOMAIN Assets
    BY <1>1, <1>2, AssetFacts
  <2>3. o \in Commands(o.id) /\ o.id = rOp.id /\ o.at = "restore" /\ o.i = rOp.i + 1
    BY <1>1, <2>1, <2>2 DEF Commands
  <2> QED
    BY <1>2, <2>1, <2>3 DEF Release!RestoreNext
<1>3. CASE ~(rOp.i < Len(Assets))
  <2>1. PICK o : o = [rOp EXCEPT !.at = "health"]
    OBVIOUS
  <2>2. rOp.i = Len(Assets)
    BY <1>1, <1>3, AssetFacts
  <2>3. o \in Commands(o.id) /\ o.id = rOp.id /\ o.at = "health"
    BY <1>1, <2>1 DEF Commands
  <2> QED
    BY <1>3, <2>1, <2>2, <2>3 DEF Release!RestoreNext
<1> QED
  BY <1>2, <1>3

LEMMA RestoreAssetStep == ASSUME ReleaseInv, Release!RestoreAsset PROVE ReleaseInv'
<1>1. PICK a : a = Assets[rOp.i]
  OBVIOUS
<1>2. PICK held : held = rTaken[rOp.id.n][a]
  OBVIOUS
<1>3. /\ rOp.at \in {"restore", "fill"} /\ UNCHANGED <<rSnaps, rState, rLatest, rWrites, rFaults, rTaken, rDrift>>
      /\ rOp \in Commands(rOp.id) /\ rOp.i \in DOMAIN Assets /\ a \in Release!AssetSet /\ rAsset \in Contents
  BY <1>1, AssetFacts DEF ReleaseInv, ReleaseTypes, Commands, Release!RestoreAsset
<1>4. held \in 0 .. (MaxWrites + 1)
  <2>1. rOp.id.n \in DOMAIN rTaken /\ rTaken \in Seq(Contents)
    BY <1>3 DEF ReleaseInv, ReleaseTypes, Restoring
  <2>2. rTaken[rOp.id.n] \in Contents
    BY <2>1
  <2> QED
    BY <1>2, <1>3, <2>2 DEF Contents
<1>5. PICK o : o = Release!RestoreNext(rOp)
  OBVIOUS
<1>6. /\ o \in Commands(o.id) /\ o.id = rOp.id /\ o.at \in {"restore", "fill", "health"}
      /\ (o.i = rOp.i + 1 /\ o.at # "health") \/ (o.at = "health" /\ rOp.i = Len(Assets))
  BY <1>5, RestoreNextFacts
<1>7. CASE held = Release!Absent /\ rOp' = Release!RestoreNext(rOp) /\ UNCHANGED rAsset
  <2>1. rAsset' = rAsset /\ rOp' = o /\ rTaken[rOp.id.n][Assets[rOp.i]] \in {Release!Absent, rAsset[Assets[rOp.i]]}
    BY <1>1, <1>2, <1>5, <1>7
  <2> QED
    BY <1>3, <1>6, <2>1, RestoreMove
<1>8. CASE rAsset' = [rAsset EXCEPT ![a] = Release!Absent] /\ rOp' = [rOp EXCEPT !.at = "fill"]
  <2>1. PICK f : f = [rAsset EXCEPT ![a] = Release!Absent]
    OBVIOUS
  <2>2. f \in Contents /\ \A b \in Release!AssetSet : b # Assets[rOp.i] => f[b] = rAsset[b]
    BY <1>1, <1>3, <2>1, ContentFacts DEF Contents, Release!Absent
  <2>3. PICK p : p = [rOp EXCEPT !.at = "fill"]
    OBVIOUS
  <2>4. p \in Commands(p.id) /\ p.id = rOp.id /\ p.at = "fill" /\ p.i = rOp.i
    BY <1>3, <2>3 DEF Commands
  <2>5. rAsset' = f /\ rOp' = p
    BY <1>8, <2>1, <2>3
  <2> QED
    BY <1>3, <2>2, <2>4, <2>5, RestoreMove
<1>9. CASE rAsset' = [rAsset EXCEPT ![a] = held] /\ rOp' = Release!RestoreNext(rOp)
  <2>1. PICK f : f = [rAsset EXCEPT ![a] = held]
    OBVIOUS
  <2>2. f \in Contents /\ \A b \in Release!AssetSet : b # Assets[rOp.i] => f[b] = rAsset[b]
    BY <1>1, <1>3, <1>4, <2>1 DEF Contents
  <2>3. rTaken[rOp.id.n][Assets[rOp.i]] \in {Release!Absent, f[Assets[rOp.i]]}
    BY <1>1, <1>2, <1>3, <2>1 DEF Contents
  <2>4. rAsset' = f /\ rOp' = o
    BY <1>5, <1>9, <2>1
  <2> QED
    BY <1>3, <1>6, <2>2, <2>3, <2>4, RestoreMove
<1> QED
  BY <1>1, <1>2, <1>7, <1>8, <1>9 DEF Release!RestoreAsset

LEMMA AppWriteStep == ASSUME ReleaseInv, NEW a \in Release!AssetSet, Release!AppWrite(a) PROVE ReleaseInv'
<1>1. /\ rWrites < MaxWrites /\ rAsset' = [rAsset EXCEPT ![a] = rWrites + 2] /\ rWrites' = rWrites + 1
      /\ rDrift' = rDrift \cup {a} /\ UNCHANGED <<rSnaps, rState, rLatest, rOp, rFaults, rTaken>>
  BY DEF Release!AppWrite
<1>2. rAsset \in Contents /\ rWrites \in 0 .. MaxWrites
  BY DEF ReleaseInv, ReleaseTypes
<1>3. rWrites + 2 \in 0 .. (MaxWrites + 1) /\ rWrites' \in 0 .. MaxWrites
  BY <1>1, <1>2, StateFilesAssumption
<1>4. rAsset' \in Contents /\ \A b \in Release!AssetSet : b # a => rAsset'[b] = rAsset[b]
  BY <1>1, <1>2, <1>3 DEF Contents
<1>5. rDrift' \subseteq Release!AssetSet
  BY <1>1 DEF ReleaseInv, ReleaseTypes
<1>6. ReleaseTypes'
  BY <1>1, <1>3, <1>4, <1>5 DEF ReleaseInv, ReleaseTypes, Contents, Release!AssetSet, Unique, Commands, Release!NoId
<1>7. Preparing' /\ SnapshotKept'
  BY <1>1 DEF ReleaseInv, Preparing, SnapshotKept, Releases
<1>8. Restoring'
  <2> SUFFICES ASSUME rOp.at \in {"restore", "fill", "health"} PROVE Restoring'
    BY <1>1 DEF Restoring
  <2>1. ASSUME NEW j \in DOMAIN Assets, rOp.at = "health" \/ j < rOp.i PROVE Restored(rOp.id.n, Assets[j])'
    <3>1. Restored(rOp.id.n, Assets[j]) /\ Assets[j] \in Release!AssetSet
      BY <2>1, AssetFacts DEF ReleaseInv, Restoring
    <3> QED
      BY <1>1, <1>4, <3>1 DEF Restored, Release!Absent
  <2> QED
    BY <1>1, <2>1 DEF ReleaseInv, Restoring, Release!Started
<1>9. Recorded'
  <2>1. ASSUME rState.status = "success", NEW b \in Release!AssetSet PROVE Restored(rState.id.n, b)'
    <3>1. Restored(rState.id.n, b)
      BY <2>1 DEF ReleaseInv, Recorded
    <3> QED
      BY <1>1, <1>4, <3>1 DEF Restored, Release!Absent
  <2> QED
    BY <1>1, <2>1 DEF ReleaseInv, Recorded, Release!AssetSet
<1> QED
  BY <1>6, <1>7, <1>8, <1>9 DEF ReleaseInv

LEMMA ReleaseStep == ReleaseInv /\ [Release!Next]_ReleaseVars => ReleaseInv'
<1> SUFFICES ASSUME ReleaseInv, [Release!Next]_ReleaseVars PROVE ReleaseInv'
  OBVIOUS
<1>1. CASE UNCHANGED ReleaseVars
  <2> USE <1>1 DEF ReleaseVars
  <2>1. ReleaseTypes'
    BY DEF ReleaseInv, ReleaseTypes, Contents, Release!AssetSet, Unique, Commands, Release!NoId
  <2>2. Preparing' /\ SnapshotKept'
    BY DEF ReleaseInv, Preparing, SnapshotKept, Releases
  <2>3. Restoring' /\ Recorded'
    BY DEF ReleaseInv, Restoring, Recorded, Restored, Release!Absent, Release!AssetSet, Release!Started
  <2> QED
    BY <2>1, <2>2, <2>3 DEF ReleaseInv
<1> QED
  BY <1>1, PrepareBlockedStep, PrepareStep, CopyAssetStep, WriteMetadataStep, WriteManifestStep, RollbackStep,
     StartRollbackStep, RestoreAssetStep, VerifyStep, FailRestoreStep, ReleaseDieStep, AppWriteStep DEF Release!Next

LEMMA RollbacksAreComplete == ReleaseInv => Release!TypeOK /\ Release!RollbackComplete /\ Release!ReadyHasSnapshot
<1> SUFFICES ASSUME ReleaseInv PROVE Release!TypeOK /\ Release!RollbackComplete /\ Release!ReadyHasSnapshot
  OBVIOUS
<1>1. ASSUME NEW s \in rSnaps PROVE s.id.n \in DOMAIN rTaken /\ s.complete \in BOOLEAN
  <2>1. s.id.n \in Nat \ {0} /\ s.id.n <= Len(rTaken) /\ s.complete \in BOOLEAN /\ rTaken \in Seq(Contents)
    BY DEF ReleaseInv, ReleaseTypes, Snapshots, SnapIds
  <2> QED
    BY <2>1
<1>2. Release!TypeOK
  BY <1>1 DEF ReleaseInv, ReleaseTypes, Contents, Commands, Release!TypeOK
<1>3. Release!RollbackComplete
  BY DEF ReleaseInv, Recorded, Restored, Release!RollbackComplete
<1>4. Release!ReadyHasSnapshot
  BY DEF ReleaseInv, ReleaseTypes, SnapshotKept, Release!ReadyHasSnapshot
<1> QED
  BY <1>2, <1>3, <1>4

\* A rollback recorded as a success restored all of its snapshot, the release called ready has its snapshot, and
\* the release that the gate approves passed its hard checks.
THEOREM ReleasesAreSafe == Spec => []ReleaseSafe
<1>1. Init => ReleaseInv /\ GateInv
  BY ReleaseInitially, GateInitially
<1>2. (ReleaseInv /\ GateInv) /\ [Next]_vars => (ReleaseInv /\ GateInv)'
  BY ReleasePart, GatePart, ReleaseStep, GateStep
<1>3. ReleaseInv /\ GateInv => ReleaseSafe
  BY RollbacksAreComplete, TheGateIsHonest DEF ReleaseSafe
<1> QED
  BY <1>1, <1>2, <1>3, PTL DEF Spec

(***************************************************************************)
(* Persona documents.                                                      *)
(***************************************************************************)

Sessions ==
    [at : {"new", "load", "loaded"} \cup Persona!Saving \cup Persona!Ended, i : DOMAIN Docs,
     rev : Persona!Files, want : Persona!Files, saw : Persona!Files, plan : SUBSET DOMAIN Docs,
     had : SUBSET Persona!DocSet, touched : SUBSET Persona!DocSet, tmp : Persona!Files, bak : Persona!Files]

PersonaTypes ==
    /\ pFile \in Persona!Files /\ pAgreed \in Persona!Files
    /\ pReq \in [Clients -> Sessions]
    /\ pFaults \in 0 .. Faults /\ pSpoilt \subseteq Persona!Spoils

Writing == {"remove", "rename"}
Undoing == {"undo", "restore"}

\* What a session knows: it has read the documents before the one it is at, what it loaded and wants are
\* contents, its plan holds what it is at and has touched, and a temporary file lasts until it is renamed.
SessionSound(s) ==
    /\ s.at \in {"new", "load", "loaded", "check"} => s.had = {} /\ s.touched = {} /\ s.bak = Persona!NoFiles
    /\ s.at = "new" => s.i = 1
    /\ s.at = "load" => \A k \in DOMAIN Docs : k < s.i => s.saw[Docs[k]] # Persona!Absent
    /\ s.at = "loaded" => \A d \in Persona!DocSet : s.rev[d] # Persona!Absent
    /\ s.at \in Persona!Saving => \A d \in Persona!DocSet : s.want[d] # Persona!Absent
    /\ s.at \in {"stage", "copy"} \cup Persona!Swapping => s.plan # {}
    /\ s.at \in {"stage", "copy"} \cup Writing => s.i \in s.plan
    /\ s.at \in {"stage", "copy"} => s.touched = {}
    /\ s.touched \subseteq {Docs[k] : k \in s.plan}
    /\ s.at \in {"stage", "copy"} => \A k \in s.plan : IF k < s.i THEN s.tmp[Docs[k]] # Persona!Absent
                                                       ELSE s.bak[Docs[k]] = Persona!Absent
    /\ s.at = "copy" => s.tmp[Docs[s.i]] # Persona!Absent /\ Docs[s.i] \in s.had
    /\ s.at \in Writing => \A k \in s.plan : k >= s.i => s.tmp[Docs[k]] # Persona!Absent

\* A document that is not there is in none that another session agreed on, or that one, which died, left a copy.
Others(r, d) == pAgreed[d] = Persona!Absent \/ \E q \in Clients \ {r} : pReq[q].bak[d] # Persona!Absent

\* What a document was before the save.
Was(s, f, d) == IF d \in s.touched THEN s.bak[d] ELSE f[d]

\* The backup copies are what the documents were, which are those agreed on.
Backed(r, s, f) ==
    /\ \A d \in s.had : s.bak[d] # Persona!Absent \/ (s.at = "copy" /\ d = Docs[s.i])
    /\ \A d \in Persona!DocSet : /\ pSpoilt = {} => Was(s, f, d) = pAgreed[d]
                                 /\ Was(s, f, d) = Persona!Absent => Others(r, d)

\* The first documents of the plan have been copied.
Copied(s, f) == \A k \in s.plan : k < s.i =>
    s.bak[Docs[k]] = f[Docs[k]] /\ (s.bak[Docs[k]] # Persona!Absent => Docs[k] \in s.had)

\* All of them have.
AllCopied(s, f) == \A k \in s.plan :
    /\ s.bak[Docs[k]] # Persona!Absent => Docs[k] \in s.had
    /\ Docs[k] \notin s.touched => s.bak[Docs[k]] = f[Docs[k]]

\* The documents after the first i have been put back.
PutBack(s, f, i) == \A d \in s.touched : (\A k \in 1 .. i : Docs[k] # d) => f[d] = s.bak[d]

\* A save under way can be undone, until it succeeded.
Undoable(r, s, f) ==
    /\ s.at \notin {"reread", "audit"} => Backed(r, s, f)
    /\ s.at \in {"reread", "audit"} => \A d \in Persona!DocSet : f[d] # Persona!Absent \/ Others(r, d)
    /\ s.at \in {"stage", "copy"} => Copied(s, f)
    /\ s.at \in Writing \cup Undoing => AllCopied(s, f)
    /\ s.at \in Writing => \A k \in s.plan : k < s.i => Docs[k] \in s.touched /\ f[Docs[k]] # Persona!Absent
    /\ s.at \in Undoing => PutBack(s, f, s.i)
    /\ s.at \in {"rename"} \cup Undoing => Docs[s.i] \in s.touched
    /\ s.at = "restore" => Docs[s.i] \in s.had

SavingNow(r) == pReq[r].at \in Persona!Saving

\* Between saves the documents are those agreed on, and those that are gone have a copy.
AsSaved(d) == /\ pSpoilt = {} => pFile[d] = pAgreed[d]
              /\ pFile[d] # Persona!Absent \/ pAgreed[d] = Persona!Absent \/ \E q \in Clients : pReq[q].bak[d] # Persona!Absent

\* While nothing but deaths came between: one save at a time, which can be undone.
Serial == pSpoilt \subseteq {"crash"} =>
    /\ \A q, r \in Clients : SavingNow(q) /\ SavingNow(r) => q = r
    /\ \A r \in Clients : SavingNow(r) => Undoable(r, pReq[r], pFile)
    /\ (\A r \in Clients : ~SavingNow(r)) => \A d \in Persona!DocSet : AsSaved(d)

PersonaInv == PersonaTypes /\ (\A r \in Clients : SessionSound(pReq[r])) /\ Serial

\* The documents, and what is not a content.
LEMMA DocFacts ==
  /\ Len(Docs) \in Nat \ {0} /\ DOMAIN Docs = 1 .. Len(Docs)
  /\ \A k \in DOMAIN Docs : Docs[k] \in Persona!DocSet
  /\ \A d \in Persona!DocSet : \E k \in DOMAIN Docs : d = Docs[k]
  /\ \A j, k \in DOMAIN Docs : Docs[j] = Docs[k] => j = k
  /\ \A r \in Clients : r # Persona!Absent /\ r \in Persona!Contents
  /\ Persona!NoFiles \in Persona!Files /\ \A d \in Persona!DocSet : Persona!NoFiles[d] = Persona!Absent
<1>1. PICK q : q = Docs
  OBVIOUS
<1>2. q \in Seq({q[i] : i \in DOMAIN q}) /\ q # <<>> /\ \A i, j \in DOMAIN q : q[i] = q[j] => i = j
  <2>1. Listed(Docs)
    BY StateFilesAssumption, Zenon
  <2> QED
    BY <1>1, <2>1, Zenon DEF Listed
<1>3. Len(q) \in Nat \ {0} /\ DOMAIN q = 1 .. Len(q)
  BY <1>2
<1>4. \A k \in DOMAIN Docs : Docs[k] \in Persona!DocSet
  BY DEF Persona!DocSet
<1>5. \A d \in Persona!DocSet : \E k \in DOMAIN Docs : d = Docs[k]
  BY DEF Persona!DocSet
<1>6. \A r \in Clients : r # Persona!Absent /\ r \in Persona!Contents
  BY StateFilesAssumption DEF Persona!Absent, Persona!Contents
<1>7. Persona!NoFiles \in Persona!Files /\ \A d \in Persona!DocSet : Persona!NoFiles[d] = Persona!Absent
  BY DEF Persona!NoFiles, Persona!Files
<1> QED
  BY <1>1, <1>2, <1>3, <1>4, <1>5, <1>6, <1>7

\* The least and the greatest of some documents.
LEMMA ExtremeFacts ==
  ASSUME NEW n \in Nat, NEW S \in SUBSET (1 .. n), S # {}
  PROVE  /\ Persona!Min(S) \in S /\ \A k \in S : Persona!Min(S) <= k
         /\ Persona!Max(S) \in S /\ \A k \in S : k <= Persona!Max(S)
<1>1. \E x \in S : \A y \in S : x <= y
  BY LeastExists
<1>2. \E x \in S : \A y \in S : y <= x
  <2>1. {n - k : k \in S} \in SUBSET (0 .. n) /\ {n - k : k \in S} # {}
    <3>1. \A k \in S : n - k \in 0 .. n
      OBVIOUS
    <3>2. PICK k \in S : TRUE
      OBVIOUS
    <3>3. n - k \in {n - j : j \in S}
      BY <3>2
    <3> QED
      BY <3>1, <3>3
  <2>2. PICK z \in {n - k : k \in S} : \A y \in {n - k : k \in S} : z <= y
    BY <2>1, LeastExists
  <2>3. PICK x \in S : z = n - x
    BY <2>2
  <2>4. \A y \in S : n - x <= n - y
    BY <2>2, <2>3
  <2>5. \A y \in S : y <= x
    BY <2>4
  <2> QED
    BY <2>5
<1>3. Persona!Min(S) \in S /\ \A k \in S : Persona!Min(S) <= k
  BY <1>1 DEF Persona!Min
<1>4. Persona!Max(S) \in S /\ \A k \in S : Persona!Max(S) >= k
  <2>1. \E x \in S : \A y \in S : x >= y
    BY <1>2
  <2> QED
    BY <2>1 DEF Persona!Max
<1> QED
  BY <1>3, <1>4

\* What moving on in a save, and falling back in it, leave alone.
Keeps(t, s) == t.rev = s.rev /\ t.want = s.want /\ t.saw = s.saw /\ t.plan = s.plan /\ t.had = s.had
               /\ t.touched = s.touched

LEMMA PlanFacts ==
  ASSUME NEW s \in Sessions, NEW next \in {"remove", "reread"}, NEW i \in DOMAIN Docs,
         NEW t, t = Persona!Advance(s, next, i)
  PROVE  /\ t \in Sessions /\ Keeps(t, s) /\ t.tmp = s.tmp /\ t.bak = s.bak
         /\ \/ t.at = next /\ t.i = i /\ \A k \in s.plan : k <= s.i
            \/ t.at = s.at /\ t.i \in s.plan /\ t.i > s.i /\ \A k \in s.plan : k < t.i => k <= s.i
<1> DEFINE rest == {k \in s.plan : k > s.i}
<1>1. s.plan \in SUBSET (1 .. Len(Docs)) /\ Len(Docs) \in Nat /\ s.i \in 1 .. Len(Docs)
  BY DocFacts DEF Sessions
<1>2. CASE rest = {}
  <2>1. t = [s EXCEPT !.at = next, !.i = i]
    BY <1>2 DEF Persona!Advance
  <2>2. t \in Sessions /\ Keeps(t, s) /\ t.tmp = s.tmp /\ t.bak = s.bak /\ t.at = next /\ t.i = i
    BY <2>1 DEF Sessions, Keeps, Persona!Saving, Persona!Swapping
  <2> QED
    BY <1>1, <1>2, <2>2
<1>3. CASE rest # {}
  <2>1. PICK j : j = Persona!Min(rest)
    OBVIOUS
  <2>2. rest \in SUBSET (1 .. Len(Docs))
    BY <1>1
  <2>3. j \in rest /\ \A k \in rest : j <= k
    <3> HIDE DEF rest
    <3> QED
      BY <1>1, <1>3, <2>1, <2>2, ExtremeFacts
  <2>4. t = [s EXCEPT !.i = j]
    BY <1>3, <2>1 DEF Persona!Advance
  <2>5. t \in Sessions /\ Keeps(t, s) /\ t.tmp = s.tmp /\ t.bak = s.bak /\ t.at = s.at /\ t.i = j
    BY <2>3, <2>4 DEF Sessions, Keeps
  <2>6. \A k \in s.plan : k < j => k <= s.i
    BY <1>1, <2>3
  <2> QED
    BY <2>3, <2>5, <2>6
<1> QED
  BY <1>2, <1>3

LEMMA RollbackFacts ==
  ASSUME NEW s \in Sessions, NEW i \in 0 .. Len(Docs), NEW t, t = Persona!Rollback(s, i)
  PROVE  /\ t \in Sessions /\ Keeps(t, s)
         /\ \/ /\ t.at = "failed" /\ t.bak = Persona!NoFiles
               /\ \A k \in 1 .. i : Docs[k] \notin s.touched
            \/ /\ t.at = "undo" /\ t.i \in 1 .. i /\ Docs[t.i] \in s.touched /\ t.bak = s.bak
               /\ \A k \in 1 .. i : k > t.i => Docs[k] \notin s.touched
<1> DEFINE undo == {k \in 1 .. i : Docs[k] \in s.touched}
<1>1. i \in Nat /\ 1 .. i \subseteq DOMAIN Docs
  BY DocFacts
<1>2. CASE undo = {}
  <2>1. t = [s EXCEPT !.at = "failed", !.tmp = Persona!NoFiles, !.bak = Persona!NoFiles]
    BY <1>2 DEF Persona!Rollback, Persona!RolledBack
  <2>2. t \in Sessions /\ Keeps(t, s) /\ t.at = "failed" /\ t.bak = Persona!NoFiles
    <3>1. PICK none : none = Persona!NoFiles
      OBVIOUS
    <3>2. none \in Persona!Files
      BY <3>1, DocFacts
    <3>3. t = [s EXCEPT !.at = "failed", !.tmp = none, !.bak = none]
      BY <2>1, <3>1
    <3> QED
      BY <3>1, <3>2, <3>3 DEF Sessions, Keeps, Persona!Ended
  <2> QED
    BY <1>2, <2>2
<1>3. CASE undo # {}
  <2>1. PICK j : j = Persona!Max(undo)
    OBVIOUS
  <2>2. undo \in SUBSET (1 .. i)
    OBVIOUS
  <2>3. j \in undo /\ \A k \in undo : k <= j
    <3> HIDE DEF undo
    <3> QED
      BY <1>1, <1>3, <2>1, <2>2, ExtremeFacts
  <2>4. t = [s EXCEPT !.at = "undo", !.i = j]
    BY <1>3, <2>1 DEF Persona!Rollback
  <2>5. t \in Sessions /\ Keeps(t, s) /\ t.bak = s.bak /\ t.at = "undo" /\ t.i = j
    BY <1>1, <2>3, <2>4 DEF Sessions, Keeps, Persona!Saving, Persona!Swapping
  <2>6. \A k \in 1 .. i : k > j => Docs[k] \notin s.touched
    BY <2>3
  <2> QED
    BY <2>3, <2>5, <2>6
<1> QED
  BY <1>2, <1>3

\* A step of one session: it leaves the others alone.
LEMMA OthersSame ==
  ASSUME PersonaTypes, NEW r \in Clients, NEW t \in Sessions, pReq' = [pReq EXCEPT ![r] = t]
  PROVE  /\ pReq' \in [Clients -> Sessions] /\ pReq'[r] = t
         /\ \A q \in Clients : q # r => pReq'[q] = pReq[q]
         /\ pAgreed' = pAgreed => \A d : Others(r, d)' <=> Others(r, d)
<1>1. pReq' \in [Clients -> Sessions] /\ pReq'[r] = t /\ \A q \in Clients : q # r => pReq'[q] = pReq[q]
  BY DEF PersonaTypes
<1> QED
  BY <1>1 DEF Others

LEMMA SessionFacts ==
  ASSUME PersonaInv, NEW r \in Clients
  PROVE  /\ pReq[r] \in Sessions /\ SessionSound(pReq[r])
         /\ pSpoilt \subseteq {"crash"} /\ SavingNow(r) => Undoable(r, pReq[r], pFile)
  BY DEF PersonaInv, PersonaTypes, Serial

\* A step after which a session saves, and one that ends its save, or is in no save.
LEMMA SavingMoves ==
  ASSUME PersonaInv, NEW r \in Clients, NEW t \in Sessions, pReq' = [pReq EXCEPT ![r] = t], SessionSound(t),
         t.at \in Persona!Saving,
         NEW f \in Persona!Files, pFile' = f, pAgreed' = pAgreed, pFaults' \in 0 .. Faults,
         pSpoilt' \subseteq Persona!Spoils, pSpoilt \subseteq pSpoilt',
         pSpoilt' \subseteq {"crash"} => (SavingNow(r) \/ (\A q \in Clients : ~SavingNow(q))) /\ Undoable(r, t, f)
  PROVE  PersonaInv'
<1>1. PersonaTypes'
  BY OthersSame DEF PersonaInv, PersonaTypes
<1>2. \A q \in Clients : SessionSound(pReq'[q])
  BY OthersSame, SessionFacts, Zenon DEF PersonaInv
<1>3. ASSUME pSpoilt' \subseteq {"crash"}
      PROVE  /\ \A q \in Clients : SavingNow(q)' => q = r
             /\ Undoable(r, pReq[r], pFile)'
             /\ SavingNow(r)'
  <2>1. \A q \in Clients : q # r => ~SavingNow(q)
    BY <1>3 DEF PersonaInv, Serial
  <2>2. \A q \in Clients : SavingNow(q)' => q = r
    BY <2>1, OthersSame DEF SavingNow, PersonaInv
  <2>3. pReq'[r] = t /\ \A d : Others(r, d)' <=> Others(r, d)
    BY OthersSame DEF PersonaInv
  <2>4. pSpoilt' = {} => pSpoilt = {}
    OBVIOUS
  <2>5. Backed(r, t, f) => Backed(r, t, f)'
    BY <2>3, <2>4 DEF Backed, Was
  <2>6. Undoable(r, t, f)'
    <3>1. Undoable(r, t, f)
      BY <1>3
    <3> QED
      BY <2>3, <2>5, <3>1 DEF Undoable, Copied, AllCopied, PutBack
  <2>7. Undoable(r, pReq[r], pFile)'
    BY <2>3, <2>6
  <2> QED
    BY <2>2, <2>3, <2>7 DEF SavingNow
<1>4. Serial'
  BY <1>3, Zenon DEF Serial
<1>5. (\A q \in Clients : SessionSound(pReq[q]))'
  BY <1>2, OthersSame DEF PersonaInv, SessionSound
<1> QED
  BY <1>1, <1>4, <1>5 DEF PersonaInv

LEMMA SaveEnds ==
  ASSUME PersonaInv, NEW r \in Clients, NEW t \in Sessions, pReq' = [pReq EXCEPT ![r] = t], SessionSound(t),
         t.at \notin Persona!Saving,
         NEW f \in Persona!Files, pFile' = f, pAgreed' \in Persona!Files, pFaults' \in 0 .. Faults,
         pSpoilt' \subseteq Persona!Spoils, pSpoilt \subseteq pSpoilt',
         pSpoilt' \subseteq {"crash"} =>
             /\ SavingNow(r)
             /\ \/ pAgreed' = f
                \/ pAgreed' = pAgreed /\ \A d \in Persona!DocSet : /\ pSpoilt = {} => f[d] = pAgreed[d]
                                                                   /\ f[d] = Persona!Absent => Others(r, d)
  PROVE  PersonaInv'
<1>1. PersonaTypes'
  BY OthersSame DEF PersonaInv, PersonaTypes
<1>2. \A q \in Clients : SessionSound(pReq'[q])
  BY OthersSame, SessionFacts, Zenon DEF PersonaInv
<1>3. ASSUME pSpoilt' \subseteq {"crash"}
      PROVE  /\ \A q \in Clients : ~SavingNow(q)'
             /\ \A d \in Persona!DocSet : AsSaved(d)'
  <2>1. \A q \in Clients : q # r => ~SavingNow(q)
    BY <1>3 DEF PersonaInv, Serial
  <2>2. \A q \in Clients : ~SavingNow(q)'
    BY <2>1, OthersSame DEF SavingNow, PersonaInv
  <2>3. CASE pAgreed' = f
    BY <2>2, <2>3 DEF AsSaved
  <2>4. CASE pAgreed' = pAgreed /\ \A d \in Persona!DocSet : /\ pSpoilt = {} => f[d] = pAgreed[d]
                                                             /\ f[d] = Persona!Absent => Others(r, d)
    <3>1. \A d : Others(r, d)' <=> Others(r, d)
      BY <2>4, OthersSame DEF PersonaInv
    <3>2. \A d \in Persona!DocSet : f[d] = Persona!Absent => Others(r, d)'
      BY <2>4, <3>1
    <3>3. \A d \in Persona!DocSet : AsSaved(d)'
      BY <2>4, <3>2 DEF AsSaved, Others
    <3> QED
      BY <2>2, <3>3
  <2> QED
    BY <1>3, <2>3, <2>4
<1>4. Serial'
  BY <1>3, Zenon DEF Serial
<1>5. (\A q \in Clients : SessionSound(pReq[q]))'
  BY <1>2, OthersSame DEF PersonaInv, SessionSound
<1> QED
  BY <1>1, <1>4, <1>5 DEF PersonaInv

LEMMA IdleMoves ==
  ASSUME PersonaInv, NEW r \in Clients, NEW t \in Sessions, pReq' = [pReq EXCEPT ![r] = t], SessionSound(t),
         t.at \notin Persona!Saving, ~SavingNow(r), t.bak = pReq[r].bak,
         UNCHANGED <<pFile, pAgreed, pSpoilt>>, pFaults' \in 0 .. Faults
  PROVE  PersonaInv'
<1>1. PersonaTypes'
  BY OthersSame DEF PersonaInv, PersonaTypes
<1>2. \A q \in Clients : SessionSound(pReq'[q])
  BY OthersSame, SessionFacts, Zenon DEF PersonaInv
<1>3. /\ \A q \in Clients : SavingNow(q)' <=> SavingNow(q)
      /\ \A q \in Clients : q # r => pReq'[q] = pReq[q]
      /\ \A q \in Clients : pReq'[q].bak = pReq[q].bak
  BY OthersSame DEF SavingNow, PersonaInv
<1>4. \A q \in Clients : \A d : Others(q, d)' <=> Others(q, d)
  BY <1>3 DEF Others
<1>5. \A d : AsSaved(d)' <=> AsSaved(d)
  BY <1>3 DEF AsSaved
<1>6. ASSUME NEW q \in Clients, q # r, Undoable(q, pReq[q], pFile)
      PROVE  Undoable(q, pReq[q], pFile)'
  <2>1. pReq'[q] = pReq[q]
    BY <1>3, <1>6
  <2>2. Backed(q, pReq[q], pFile) => Backed(q, pReq[q], pFile)'
    BY <1>4, <2>1 DEF Backed, Was
  <2> QED
    BY <1>4, <1>6, <2>1, <2>2 DEF Undoable, Copied, AllCopied, PutBack
<1>7. ASSUME pSpoilt' \subseteq {"crash"}
      PROVE  /\ \A q, p \in Clients : SavingNow(q)' /\ SavingNow(p)' => q = p
             /\ \A q \in Clients : SavingNow(q)' => Undoable(q, pReq[q], pFile)'
             /\ (\A q \in Clients : ~SavingNow(q)') => \A d \in Persona!DocSet : AsSaved(d)'
  <2>1. pSpoilt \subseteq {"crash"}
    BY <1>7
  <2>2. /\ \A q, p \in Clients : SavingNow(q) /\ SavingNow(p) => q = p
        /\ \A q \in Clients : SavingNow(q) => Undoable(q, pReq[q], pFile)
        /\ (\A q \in Clients : ~SavingNow(q)) => \A d \in Persona!DocSet : AsSaved(d)
    BY <2>1, Zenon DEF PersonaInv, Serial
  <2>3. \A q \in Clients : SavingNow(q)' => SavingNow(q) /\ q # r
    BY <1>3
  <2>4. \A q \in Clients : SavingNow(q)' => Undoable(q, pReq[q], pFile)'
    BY <1>6, <2>2, <2>3, Zenon
  <2>5. (\A q \in Clients : ~SavingNow(q)') => \A d \in Persona!DocSet : AsSaved(d)'
    BY <1>3, <1>5, <2>2, Zenon
  <2> QED
    BY <2>2, <2>3, <2>4, <2>5, Zenon
<1>8. Serial'
  BY <1>7, Zenon DEF Serial
<1>9. (\A q \in Clients : SessionSound(pReq[q]))'
  BY <1>2, OthersSame DEF PersonaInv, SessionSound
<1> QED
  BY <1>1, <1>8, <1>9 DEF PersonaInv

\* A document that was agreed on is there, or a copy of it is.
LEMMA NothingIsLost ==
  ASSUME PersonaInv, pSpoilt \subseteq {"crash"}, NEW d \in Persona!DocSet
  PROVE  pAgreed[d] = Persona!Absent \/ pFile[d] # Persona!Absent \/ \E q \in Clients : pReq[q].bak[d] # Persona!Absent
<1>1. CASE \A q \in Clients : ~SavingNow(q)
  BY <1>1, Zenon DEF PersonaInv, Serial, AsSaved
<1>2. ASSUME NEW r \in Clients, SavingNow(r)
      PROVE  pAgreed[d] = Persona!Absent \/ pFile[d] # Persona!Absent \/ \E q \in Clients : pReq[q].bak[d] # Persona!Absent
  <2>1. Undoable(r, pReq[r], pFile)
    BY <1>2, SessionFacts
  <2>2. Others(r, d) => pAgreed[d] = Persona!Absent \/ \E q \in Clients : pReq[q].bak[d] # Persona!Absent
    BY DEF Others
  <2>3. CASE pReq[r].at \in {"reread", "audit"}
    BY <2>1, <2>2, <2>3 DEF Undoable
  <2>4. CASE pReq[r].at \notin {"reread", "audit"}
    <3>1. Was(pReq[r], pFile, d) = Persona!Absent => Others(r, d)
      BY <2>1, <2>4 DEF Undoable, Backed
    <3>2. CASE d \in pReq[r].touched
      BY <2>2, <3>1, <3>2 DEF Was
    <3>3. CASE d \notin pReq[r].touched
      BY <2>2, <3>1, <3>3 DEF Was
    <3> QED
      BY <3>2, <3>3
  <2> QED
    BY <2>3, <2>4
<1> QED
  BY <1>1, <1>2

\* All of a save or nothing; and a death loses nothing.
LEMMA SavesAreSafe == PersonaInv => PersonaSafe
<1> SUFFICES ASSUME PersonaInv PROVE PersonaSafe
  OBVIOUS
<1>1. Persona!TypeOK
  <2>1. \A r \in Clients : pReq[r] \in Sessions /\ SessionSound(pReq[r])
    BY SessionFacts
  <2>2. \A r \in Clients : /\ pReq[r].at \in {"new", "load", "loaded"} \cup Persona!Saving \cup Persona!Ended
                           /\ pReq[r].at \in {"stage", "copy"} \cup Persona!Swapping => pReq[r].plan # {}
                           /\ pReq[r].touched \subseteq {Docs[k] : k \in pReq[r].plan}
    BY <2>1 DEF Sessions, SessionSound
  <2> QED
    BY <2>2 DEF Persona!TypeOK, PersonaInv, PersonaTypes
<1>2. Persona!AllOrNothing
  <2> SUFFICES ASSUME pSpoilt = {}, \A r \in Clients : pReq[r].at \notin Persona!Saving PROVE pFile = pAgreed
    BY DEF Persona!AllOrNothing
  <2>1. \A d \in Persona!DocSet : pFile[d] = pAgreed[d]
    BY DEF PersonaInv, Serial, AsSaved, SavingNow
  <2> QED
    BY <2>1 DEF PersonaInv, PersonaTypes, Persona!Files
<1>3. Persona!Recoverable
  BY NothingIsLost DEF Persona!Recoverable
<1> QED
  BY <1>1, <1>2, <1>3 DEF PersonaSafe

LEMMA PersonaTypeFacts ==
  ASSUME PersonaInv
  PROVE  /\ pFile \in Persona!Files /\ pAgreed \in Persona!Files /\ pFaults \in 0 .. Faults
         /\ pSpoilt \subseteq Persona!Spoils
         /\ \A d \in Persona!DocSet : pFile[d] \in Persona!Contents \cup {Persona!Absent}
         /\ \A d \in Persona!DocSet : Persona!Content(d) \in Persona!Contents /\ Persona!Content(d) # Persona!Absent
<1>1. \A d \in Persona!DocSet : pFile[d] \in Persona!Contents \cup {Persona!Absent}
  BY DEF PersonaInv, PersonaTypes, Persona!Files
<1>2. \A d \in Persona!DocSet : Persona!Content(d) \in Persona!Contents /\ Persona!Content(d) # Persona!Absent
  BY <1>1 DEF Persona!Content, Persona!Contents, Persona!Absent
<1> QED
  BY <1>1, <1>2 DEF PersonaInv, PersonaTypes

LEMMA LoadStep == ASSUME PersonaInv, NEW r \in Clients, Persona!Load(r) PROVE PersonaInv'
<1>1. PICK s \in Sessions : s = pReq[r] /\ SessionSound(s)
  BY SessionFacts
<1>2. PICK t : t = [s EXCEPT !.at = "load"]
  OBVIOUS
<1>3. pReq' = [pReq EXCEPT ![r] = t] /\ s.at = "new" /\ UNCHANGED <<pFile, pFaults, pAgreed, pSpoilt>>
  BY <1>1, <1>2 DEF Persona!Load
<1>4. t \in Sessions /\ Keeps(t, s) /\ t.at = "load" /\ t.i = s.i /\ t.bak = s.bak
  BY <1>2 DEF Sessions, Keeps
<1>5. SessionSound(t) /\ t.at \notin Persona!Saving /\ ~SavingNow(r)
  BY <1>1, <1>3, <1>4, DocFacts DEF SessionSound, SavingNow, Keeps, Persona!Saving, Persona!Swapping, Writing
<1> QED
  BY <1>1, <1>3, <1>4, <1>5, PersonaTypeFacts, IdleMoves, Zenon

LEMMA SaveInvalidStep == ASSUME PersonaInv, NEW r \in Clients, Persona!SaveInvalid(r) PROVE PersonaInv'
<1>1. PICK s \in Sessions : s = pReq[r] /\ SessionSound(s)
  BY SessionFacts
<1>2. PICK t : t = [s EXCEPT !.at = "invalid"]
  OBVIOUS
<1>3. pReq' = [pReq EXCEPT ![r] = t] /\ s.at = "loaded" /\ UNCHANGED <<pFile, pFaults, pAgreed, pSpoilt>>
  BY <1>1, <1>2 DEF Persona!SaveInvalid
<1>4. t \in Sessions /\ Keeps(t, s) /\ t.at = "invalid" /\ t.i = s.i /\ t.bak = s.bak
  BY <1>2 DEF Sessions, Keeps, Persona!Ended
<1>5. SessionSound(t) /\ t.at \notin Persona!Saving /\ ~SavingNow(r)
  BY <1>1, <1>3, <1>4 DEF SessionSound, SavingNow, Keeps, Persona!Saving, Persona!Swapping, Writing
<1> QED
  BY <1>1, <1>3, <1>4, <1>5, PersonaTypeFacts, IdleMoves, Zenon

\* A save starts from the documents agreed on, or overlaps another.
LEMMA BeginSaveStep ==
  ASSUME PersonaInv, NEW r \in Clients, NEW edited \in SUBSET Persona!DocSet, Persona!Save(r, edited)
  PROVE  PersonaInv'
<1>1. PICK s \in Sessions : s = pReq[r] /\ SessionSound(s)
  BY SessionFacts
<1>2. PICK w : w = [d \in Persona!DocSet |-> IF d \in edited THEN r ELSE s.rev[d]]
  OBVIOUS
<1>3. s.at = "loaded" /\ UNCHANGED <<pFile, pFaults, pAgreed>>
  BY <1>1 DEF Persona!Save
<1>4. w \in Persona!Files /\ \A d \in Persona!DocSet : w[d] # Persona!Absent
  <2>1. \A d \in Persona!DocSet : s.rev[d] \in Persona!Contents \cup {Persona!Absent} /\ s.rev[d] # Persona!Absent
    BY <1>1, <1>3 DEF Sessions, Persona!Files, SessionSound
  <2>2. r \in Persona!Contents /\ r # Persona!Absent
    BY DocFacts
  <2> QED
    BY <1>2, <2>1, <2>2 DEF Persona!Files
<1>5. PICK t : t = [s EXCEPT !.at = "check", !.i = 1, !.want = w]
  OBVIOUS
<1>6. pReq' = [pReq EXCEPT ![r] = t]
  <2>1. pReq' = [pReq EXCEPT ![r].at = "check", ![r].i = 1, ![r].want = w]
    BY <1>1, <1>2 DEF Persona!Save
  <2> QED
    BY <1>1, <1>5, <2>1 DEF PersonaInv, PersonaTypes
<1>7. /\ t \in Sessions /\ t.at = "check" /\ t.i = 1 /\ t.want = w /\ t.bak = s.bak /\ t.had = s.had
      /\ t.touched = s.touched /\ t.plan = s.plan
  <2>1. 1 \in DOMAIN Docs
    BY DocFacts
  <2> QED
    BY <1>4, <1>5, <2>1 DEF Sessions, Persona!Saving
<1>8. SessionSound(t) /\ t.at \in Persona!Saving
  BY <1>1, <1>3, <1>4, <1>7 DEF SessionSound, Persona!Saving, Persona!Swapping, Writing
<1>9. pSpoilt' \subseteq Persona!Spoils /\ pSpoilt \subseteq pSpoilt'
  BY PersonaTypeFacts DEF Persona!Save, Persona!Spoils
<1>10. ASSUME pSpoilt' \subseteq {"crash"}
       PROVE  (\A q \in Clients : ~SavingNow(q)) /\ Undoable(r, t, pFile)
  <2>1. \A q \in Clients : ~SavingNow(q)
    BY <1>10 DEF Persona!Save, SavingNow
  <2>2. \A d \in Persona!DocSet : AsSaved(d)
    BY <1>9, <1>10, <2>1 DEF PersonaInv, Serial
  <2>3. t.had = {} /\ t.touched = {} /\ \A d \in Persona!DocSet : pReq[r].bak[d] = Persona!Absent
    BY <1>1, <1>3, <1>7, DocFacts DEF SessionSound
  <2>4. \A d \in Persona!DocSet : pFile[d] = Persona!Absent => Others(r, d)
    BY <2>2, <2>3 DEF AsSaved, Others
  <2>5. Backed(r, t, pFile)
    BY <2>2, <2>3, <2>4 DEF Backed, Was, AsSaved
  <2> QED
    BY <1>7, <2>1, <2>5 DEF Undoable, Writing, Undoing
<1> QED
  BY <1>3, <1>6, <1>7, <1>8, <1>9, <1>10, PersonaTypeFacts, SavingMoves, Zenon

\* Reading a document: a session that loads, checks or verifies what it saved goes on, or has read them all.
LEMMA ReadStep == ASSUME PersonaInv, NEW r \in Clients, Persona!Read(r) PROVE PersonaInv'
<1>1. PICK s \in Sessions : s = pReq[r] /\ SessionSound(s)
  BY SessionFacts
<1>2. s.at \in {"load", "check", "reread"} /\ UNCHANGED <<pFile, pFaults, pAgreed, pSpoilt>>
  BY <1>1 DEF Persona!Read
<1>3. PICK c \in Persona!Contents : c = Persona!Content(Docs[s.i]) /\ c # Persona!Absent
  <2>1. Docs[s.i] \in Persona!DocSet
    BY DocFacts DEF Sessions
  <2> QED
    BY <2>1, PersonaTypeFacts
<1>4. PICK u : u = [s EXCEPT !.saw[Docs[s.i]] = c]
  OBVIOUS
<1>5. pReq' = [pReq EXCEPT ![r] = Persona!AfterRead(u)]
  BY <1>1, <1>3, <1>4 DEF Persona!Read, Persona!Doc
<1>6. /\ u \in Sessions /\ u.at = s.at /\ u.i = s.i /\ u.want = s.want /\ u.bak = s.bak /\ u.had = s.had
      /\ u.touched = s.touched /\ u.plan = s.plan /\ u.rev = s.rev /\ u.saw[Docs[u.i]] # Persona!Absent
      /\ \A d : u.saw[d] # Persona!Absent \/ s.saw[d] = Persona!Absent \/ d \notin Persona!DocSet
      /\ u.tmp = s.tmp
  <2>1. Docs[s.i] \in Persona!DocSet
    BY DocFacts DEF Sessions
  <2>2. PICK g : g = [s.saw EXCEPT ![Docs[s.i]] = c]
    OBVIOUS
  <2>3. g \in Persona!Files /\ g[Docs[s.i]] = c /\ \A d \in Persona!DocSet : g[d] = c \/ g[d] = s.saw[d]
    BY <2>1, <2>2 DEF Sessions, Persona!Files
  <2>4. u = [s EXCEPT !.saw = g]
    BY <1>4, <2>2
  <2>5. /\ u \in Sessions /\ u.at = s.at /\ u.i = s.i /\ u.want = s.want /\ u.bak = s.bak /\ u.had = s.had
        /\ u.touched = s.touched /\ u.plan = s.plan /\ u.rev = s.rev /\ u.saw = g /\ u.tmp = s.tmp
    BY <2>3, <2>4 DEF Sessions
  <2> QED
    BY <1>3, <2>3, <2>5
<1>7. /\ SessionSound(u)
      /\ s.at = "load" => \A k \in DOMAIN Docs : k <= u.i => u.saw[Docs[k]] # Persona!Absent
  <2>1. SessionSound(u)
    BY <1>1, <1>2, <1>6, DocFacts DEF SessionSound, Writing
  <2>2. \A k \in DOMAIN Docs : k <= u.i => k < u.i \/ k = u.i
    BY DocFacts, <1>6 DEF Sessions
  <2> QED
    BY <1>6, <2>1, <2>2 DEF SessionSound
<1>8. pSpoilt \subseteq {"crash"} /\ SavingNow(r) => Undoable(r, s, pFile)
  BY <1>1, SessionFacts
<1>9. u.i \in 1 .. Len(Docs) /\ Len(Docs) \in Nat \ {0} /\ DOMAIN Docs = 1 .. Len(Docs)
  BY <1>6, DocFacts DEF Sessions
<1>10. PICK t : t = Persona!AfterRead(u)
  OBVIOUS
<1>11. CASE u.i < Len(Docs)
  <2>1. PICK j : j = u.i + 1
    OBVIOUS
  <2>2. t = [u EXCEPT !.i = j]
    BY <1>10, <1>11, <2>1 DEF Persona!AfterRead
  <2>3. /\ t \in Sessions /\ t.at = s.at /\ t.i = j /\ t.want = u.want /\ t.bak = u.bak /\ t.had = u.had
        /\ t.touched = u.touched /\ t.plan = u.plan /\ t.saw = u.saw /\ t.rev = u.rev /\ t.tmp = u.tmp
    BY <1>6, <1>9, <1>11, <2>1, <2>2 DEF Sessions
  <2>4. SessionSound(t)
    <3>1. \A k \in DOMAIN Docs : k < j => k <= u.i
      BY <1>9, <2>1
    <3> QED
      BY <1>2, <1>6, <1>7, <2>3, <3>1 DEF SessionSound, Writing
  <2>5. CASE s.at = "load"
    <3>1. t.at \notin Persona!Saving /\ ~SavingNow(r)
      BY <1>1, <2>3, <2>5 DEF Persona!Saving, Persona!Swapping, SavingNow
    <3> QED
      BY <1>1, <1>2, <1>5, <1>6, <1>10, <2>3, <2>4, <3>1, PersonaTypeFacts, IdleMoves, Zenon
  <2>6. CASE s.at # "load"
    <3>1. t.at \in Persona!Saving /\ SavingNow(r)
      BY <1>1, <1>2, <2>3, <2>6 DEF Persona!Saving, Persona!Swapping, SavingNow
    <3>2. Undoable(r, s, pFile) => Undoable(r, t, pFile)
      <4>1. Backed(r, s, pFile) /\ s.at = "check" => Backed(r, t, pFile)
        BY <1>6, <2>3 DEF Backed, Was
      <4> QED
        BY <1>2, <1>6, <2>3, <2>6, <4>1 DEF Undoable, Writing, Undoing
    <3> QED
      BY <1>2, <1>5, <1>8, <1>10, <2>3, <2>4, <3>1, <3>2, PersonaTypeFacts, SavingMoves, Zenon
  <2> QED
    BY <2>5, <2>6
<1>12. CASE u.i = Len(Docs)
  <2>1. CASE s.at = "load"
    <3>1. t = [u EXCEPT !.at = "loaded", !.rev = u.saw]
      BY <1>6, <1>10, <1>12, <2>1 DEF Persona!AfterRead
    <3>2. /\ t \in Sessions /\ t.at = "loaded" /\ t.bak = u.bak /\ t.had = u.had
          /\ t.touched = u.touched /\ t.plan = u.plan /\ t.rev = u.saw
      BY <1>6, <3>1 DEF Sessions
    <3>3. \A d \in Persona!DocSet : t.rev[d] # Persona!Absent
      BY <1>7, <1>9, <1>12, <2>1, <3>2, DocFacts
    <3>4. SessionSound(t)
      BY <1>6, <1>7, <2>1, <3>2, <3>3 DEF SessionSound, Writing, Persona!Saving, Persona!Swapping
    <3>5. t.at \notin Persona!Saving /\ ~SavingNow(r)
      BY <1>1, <3>2, <2>1 DEF Persona!Saving, Persona!Swapping, SavingNow
    <3> QED
      BY <1>1, <1>2, <1>5, <1>6, <1>10, <3>2, <3>4, <3>5, PersonaTypeFacts, IdleMoves, Zenon
  <2>2. CASE s.at = "reread"
    <3>1. t = [u EXCEPT !.at = "audit"]
      BY <1>6, <1>10, <1>12, <2>2 DEF Persona!AfterRead
    <3>2. /\ t \in Sessions /\ t.at = "audit" /\ t.bak = u.bak /\ t.had = u.had
          /\ t.touched = u.touched /\ t.plan = u.plan /\ t.want = u.want
      BY <1>6, <3>1 DEF Sessions, Persona!Saving, Persona!Swapping
    <3>4. SessionSound(t) /\ t.at \in Persona!Saving /\ SavingNow(r)
      BY <1>1, <1>6, <1>7, <2>2, <3>2 DEF SessionSound, Writing, Persona!Saving, Persona!Swapping, SavingNow
    <3>5. Undoable(r, s, pFile) => Undoable(r, t, pFile)
      BY <2>2, <3>2 DEF Undoable, Writing, Undoing
    <3> QED
      BY <1>2, <1>5, <1>8, <1>10, <3>2, <3>4, <3>5, PersonaTypeFacts, SavingMoves, Zenon
  <2>3. CASE s.at = "check"
    <3> DEFINE plan == {k \in DOMAIN Docs : u.saw[Docs[k]] # u.want[Docs[k]]}
    <3>1. t = Persona!Checked(u) /\ SavingNow(r)
      BY <1>1, <1>6, <1>10, <1>12, <2>3 DEF Persona!AfterRead, SavingNow, Persona!Saving
    <3>2. s.had = {} /\ s.touched = {} /\ s.bak = Persona!NoFiles
      BY <1>1, <2>3 DEF SessionSound
    <3>3. Undoable(r, s, pFile) =>
            \A d \in Persona!DocSet : /\ pSpoilt = {} => pFile[d] = pAgreed[d]
                                      /\ pFile[d] = Persona!Absent => Others(r, d)
      BY <2>3, <3>2 DEF Undoable, Backed, Was
    <3>4. ASSUME NEW at \in {"conflict", "noop"}, t = [u EXCEPT !.at = at]
          PROVE  PersonaInv'
      <4>1. /\ t \in Sessions /\ t.at = at /\ t.touched = u.touched /\ t.plan = u.plan
        BY <1>6, <3>4 DEF Sessions, Persona!Ended
      <4>2. SessionSound(t) /\ t.at \notin Persona!Saving
        BY <1>6, <3>2, <4>1 DEF SessionSound, Writing, Persona!Saving, Persona!Swapping
      <4> QED
        BY <1>2, <1>5, <1>8, <1>10, <3>1, <3>3, <4>1, <4>2, PersonaTypeFacts, SaveEnds, Zenon
    <3>5. ASSUME plan # {}, t = [u EXCEPT !.at = "stage", !.plan = plan, !.i = Persona!Min(plan)]
          PROVE  PersonaInv'
      <4>1. PICK p : p = plan
        OBVIOUS
      <4>2. p \in SUBSET (1 .. Len(Docs)) /\ p # {}
        BY <1>9, <3>5, <4>1
      <4>3. PICK j : j = Persona!Min(p)
        OBVIOUS
      <4>4. j \in p /\ \A k \in p : j <= k
        BY <1>9, <4>2, <4>3, ExtremeFacts
      <4>5. t = [u EXCEPT !.at = "stage", !.plan = p, !.i = j]
        BY <3>5, <4>1, <4>3
      <4>6. /\ t \in Sessions /\ t.at = "stage" /\ t.plan = p /\ t.i = j /\ t.bak = s.bak /\ t.had = s.had
            /\ t.touched = s.touched /\ t.want = s.want
        BY <1>6, <1>9, <4>2, <4>4, <4>5 DEF Sessions, Persona!Saving
      <4>7. /\ \A d \in Persona!DocSet : s.want[d] # Persona!Absent
            /\ \A k \in p : ~(k < j) /\ t.bak[Docs[k]] = Persona!Absent
        BY <1>1, <1>9, <2>3, <3>2, <4>2, <4>4, <4>6, DocFacts DEF SessionSound, Persona!Saving
      <4>8. SessionSound(t) /\ t.at \in Persona!Saving
        BY <3>2, <4>2, <4>4, <4>6, <4>7 DEF SessionSound, Writing, Persona!Saving, Persona!Swapping
      <4>9. Undoable(r, s, pFile) => Undoable(r, t, pFile)
        <5>1. Undoable(r, s, pFile) => Backed(r, t, pFile)
          BY <3>2, <3>3, <4>6 DEF Backed, Was
        <5> QED
          BY <4>6, <4>7, <5>1 DEF Undoable, Writing, Undoing, Copied
      <4> QED
        BY <1>2, <1>5, <1>8, <1>10, <3>1, <4>6, <4>8, <4>9, PersonaTypeFacts, SavingMoves, Zenon
    <3> QED
      <4>1. CASE u.saw # u.rev
        BY <3>1, <3>4, <4>1 DEF Persona!Checked
      <4>2. CASE u.saw = u.rev /\ plan = {}
        BY <3>1, <3>4, <4>2 DEF Persona!Checked
      <4>3. CASE u.saw = u.rev /\ plan # {}
        BY <3>1, <3>5, <4>3 DEF Persona!Checked
      <4> QED
        BY <4>1, <4>2, <4>3
  <2> QED
    BY <1>2, <2>1, <2>2, <2>3
<1> QED
  BY <1>9, <1>11, <1>12

\* What a session at a document of its plan is about.
LEMMA AtDocument ==
  ASSUME NEW s \in Sessions
  PROVE  /\ Docs[s.i] \in Persona!DocSet /\ s.i \in DOMAIN Docs /\ s.plan \in SUBSET (1 .. Len(Docs))
         /\ s.had \in SUBSET Persona!DocSet /\ s.touched \in SUBSET Persona!DocSet
         /\ \A k \in s.plan : k \in DOMAIN Docs /\ Docs[k] \in Persona!DocSet
         /\ \A k \in s.plan : Docs[k] = Docs[s.i] => k = s.i
         /\ s.rev \in Persona!Files /\ s.want \in Persona!Files /\ s.tmp \in Persona!Files /\ s.bak \in Persona!Files
         /\ \A k \in DOMAIN Docs, i \in DOMAIN Docs : k < i \/ k = i \/ k > i
<1>1. \A k \in DOMAIN Docs, i \in DOMAIN Docs : k < i \/ k = i \/ k > i
  BY DocFacts
<1> QED
  BY <1>1, DocFacts DEF Sessions

\* A document has been staged: the session goes to the next one, or starts to swap.
LEMMA StagedStep ==
  ASSUME PersonaInv, NEW r \in Clients, NEW s \in Sessions, s.at = "stage", s.i \in s.plan, s.touched = {},
         NEW t, t = Persona!Advance(s, "remove", Persona!Min(s.plan)), pReq' = [pReq EXCEPT ![r] = t],
         UNCHANGED <<pFile, pFaults, pAgreed, pSpoilt>>, SavingNow(r),
         \A d \in Persona!DocSet : s.want[d] # Persona!Absent,
         \A k \in s.plan : k <= s.i => s.tmp[Docs[k]] # Persona!Absent,
         \A k \in s.plan : k > s.i => s.bak[Docs[k]] = Persona!Absent,
         pSpoilt \subseteq {"crash"} =>
             /\ Backed(r, s, pFile)
             /\ \A k \in s.plan : k <= s.i =>
                    s.bak[Docs[k]] = pFile[Docs[k]] /\ (s.bak[Docs[k]] # Persona!Absent => Docs[k] \in s.had)
  PROVE  PersonaInv'
<1>1. PICK m : m = Persona!Min(s.plan)
  OBVIOUS
<1>2. m \in s.plan /\ \A k \in s.plan : m <= k
  BY <1>1, AtDocument, DocFacts, ExtremeFacts
<1>3. m \in DOMAIN Docs /\ s.i \in Nat /\ \A k \in s.plan : k \in Nat
  BY <1>2, AtDocument, DocFacts
<1>4. /\ t \in Sessions /\ Keeps(t, s) /\ t.tmp = s.tmp /\ t.bak = s.bak
      /\ \/ t.at = "remove" /\ t.i = m /\ \A k \in s.plan : k <= s.i
         \/ t.at = "stage" /\ t.i \in s.plan /\ t.i > s.i /\ \A k \in s.plan : k < t.i => k <= s.i
  BY <1>1, <1>3, PlanFacts
<1>5. SessionSound(t) /\ t.at \in Persona!Saving
  <2>1. CASE t.at = "remove"
    BY <1>2, <1>4, <2>1 DEF SessionSound, Writing, Keeps, Persona!Saving, Persona!Swapping
  <2>2. CASE t.at = "stage"
    <3>1. t.i \in Nat /\ \A k \in s.plan : ~(k < t.i) => k > s.i
      BY <1>3, <1>4, <2>2
    <3>2. \A k \in t.plan : IF k < t.i THEN t.tmp[Docs[k]] # Persona!Absent ELSE t.bak[Docs[k]] = Persona!Absent
      BY <1>4, <2>2, <3>1 DEF Keeps
    <3> QED
      BY <1>4, <2>2, <3>2 DEF SessionSound, Writing, Keeps, Persona!Saving, Persona!Swapping
  <2> QED
    BY <1>4, <2>1, <2>2
<1>6. ASSUME pSpoilt \subseteq {"crash"} PROVE Undoable(r, t, pFile)
  <2>1. Backed(r, t, pFile)
    BY <1>4, <1>6 DEF Backed, Was, Keeps
  <2>2. CASE t.at = "remove"
    <3>1. AllCopied(t, pFile)
      BY <1>4, <1>6, <2>2 DEF AllCopied, Keeps
    <3>2. \A k \in t.plan : ~(k < t.i)
      BY <1>2, <1>3, <1>4, <2>2 DEF Keeps
    <3> QED
      BY <2>1, <2>2, <3>1, <3>2 DEF Undoable, Writing, Undoing
  <2>3. CASE t.at = "stage"
    <3>1. Copied(t, pFile)
      BY <1>4, <1>6, <2>3 DEF Copied, Keeps
    <3> QED
      BY <2>1, <2>3, <3>1 DEF Undoable, Writing, Undoing
  <2> QED
    BY <1>4, <2>2, <2>3
<1> QED
  BY <1>4, <1>5, <1>6, PersonaTypeFacts, SavingMoves, Zenon

LEMMA StageStep == ASSUME PersonaInv, NEW r \in Clients, Persona!Stage(r) PROVE PersonaInv'
<1>1. PICK s \in Sessions : s = pReq[r] /\ SessionSound(s)
  BY SessionFacts
<1>2. s.at = "stage" /\ UNCHANGED <<pFile, pFaults, pAgreed, pSpoilt>> /\ SavingNow(r)
  BY <1>1 DEF Persona!Stage, SavingNow, Persona!Saving
<1>3. PICK d \in Persona!DocSet : d = Docs[s.i]
  BY AtDocument
<1>4. PICK u : u = [s EXCEPT !.tmp[d] = s.want[d]]
  OBVIOUS
<1>5. /\ u \in Sessions /\ Keeps(u, s) /\ u.at = "stage" /\ u.i = s.i /\ u.bak = s.bak
      /\ u.tmp[d] = s.want[d] /\ \A e \in Persona!DocSet : e # d => u.tmp[e] = s.tmp[e]
  <2>1. PICK g : g = [s.tmp EXCEPT ![d] = s.want[d]]
    OBVIOUS
  <2>2. /\ g \in Persona!Files /\ g[d] = s.want[d]
        /\ \A e \in Persona!DocSet : e # d => g[e] = s.tmp[e]
    BY <2>1, AtDocument DEF Persona!Files
  <2>3. u = [s EXCEPT !.tmp = g]
    BY <1>4, <2>1
  <2>4. u \in Sessions /\ Keeps(u, s) /\ u.at = s.at /\ u.i = s.i /\ u.bak = s.bak /\ u.tmp = g
    BY <2>2, <2>3 DEF Sessions, Keeps
  <2> QED
    BY <1>2, <2>2, <2>4
<1>6. /\ s.i \in s.plan /\ s.touched = {} /\ s.plan # {}
      /\ \A e \in Persona!DocSet : s.want[e] # Persona!Absent
      /\ \A k \in s.plan : IF k < s.i THEN s.tmp[Docs[k]] # Persona!Absent ELSE s.bak[Docs[k]] = Persona!Absent
  BY <1>1, <1>2 DEF SessionSound, Persona!Saving
<1>7. pSpoilt \subseteq {"crash"} => Undoable(r, s, pFile)
  BY <1>1, <1>2, SessionFacts
<1>8. \A k \in s.plan : k < s.i => Docs[k] # d /\ u.tmp[Docs[k]] # Persona!Absent
  <2>1. \A k \in s.plan : k < s.i => k # s.i
    BY AtDocument, DocFacts
  <2> QED
    BY <1>3, <1>5, <1>6, <2>1, AtDocument
<1>9. CASE pFile[d] # Persona!Absent
  <2>1. PICK h : h = s.had \cup {d}
    OBVIOUS
  <2>2. PICK t : t = [u EXCEPT !.had = h, !.at = "copy"]
    OBVIOUS
  <2>3. pReq' = [pReq EXCEPT ![r] = t]
    <3>1. u.had = s.had
      BY <1>5 DEF Keeps
    <3>2. t = [u EXCEPT !.had = u.had \cup {d}, !.at = "copy"]
      BY <2>1, <2>2, <3>1
    <3> QED
      BY <1>1, <1>3, <1>4, <1>9, <3>2 DEF Persona!Stage, Persona!Doc
  <2>4. /\ t \in Sessions /\ t.at = "copy" /\ t.had = h /\ t.i = s.i /\ t.bak = s.bak /\ t.tmp = u.tmp
        /\ t.plan = s.plan /\ t.touched = s.touched /\ t.want = s.want
    <3>1. h \in SUBSET Persona!DocSet
      BY <2>1, AtDocument
    <3> QED
      BY <1>5, <2>2, <3>1 DEF Sessions, Keeps, Persona!Saving
  <2>5. SessionSound(t) /\ t.at \in Persona!Saving
    BY <1>3, <1>5, <1>6, <1>8, <2>1, <2>4 DEF SessionSound, Writing, Persona!Saving, Persona!Swapping
  <2>6. Undoable(r, s, pFile) => Undoable(r, t, pFile)
    <3>1. Undoable(r, s, pFile) => Backed(r, t, pFile)
      BY <1>2, <1>3, <2>1, <2>4 DEF Undoable, Backed, Was
    <3>2. Undoable(r, s, pFile) => Copied(t, pFile)
      BY <1>2, <2>1, <2>4 DEF Undoable, Copied
    <3> QED
      BY <2>4, <3>1, <3>2 DEF Undoable, Writing, Undoing
  <2> QED
    BY <1>2, <1>7, <2>3, <2>4, <2>5, <2>6, PersonaTypeFacts, SavingMoves, Zenon
<1>10. CASE pFile[d] = Persona!Absent
  <2>1. PICK t : t = Persona!Advance(u, "remove", Persona!Min(u.plan))
    OBVIOUS
  <2>2. pReq' = [pReq EXCEPT ![r] = t]
    BY <1>1, <1>3, <1>4, <1>10, <2>1 DEF Persona!Stage, Persona!Doc
  <2>3. u.plan = s.plan /\ u.had = s.had /\ u.touched = s.touched /\ u.want = s.want
    BY <1>5 DEF Keeps
  <2>4. \A k \in s.plan : (k <= s.i => k < s.i \/ k = s.i) /\ (k > s.i => ~(k < s.i))
    BY AtDocument, DocFacts
  <2>5. /\ \A k \in u.plan : k <= u.i => u.tmp[Docs[k]] # Persona!Absent
        /\ \A k \in u.plan : k > u.i => u.bak[Docs[k]] = Persona!Absent
    BY <1>3, <1>5, <1>6, <1>8, <2>3, <2>4
  <2>6. ASSUME pSpoilt \subseteq {"crash"}
        PROVE  /\ Backed(r, u, pFile)
               /\ \A k \in u.plan : k <= u.i =>
                      u.bak[Docs[k]] = pFile[Docs[k]] /\ (u.bak[Docs[k]] # Persona!Absent => Docs[k] \in u.had)
    <3>1. Backed(r, u, pFile)
      BY <1>2, <1>5, <1>7, <2>3, <2>6 DEF Undoable, Backed, Was
    <3>2. Copied(s, pFile)
      BY <1>2, <1>7, <2>6 DEF Undoable
    <3>3. s.bak[d] = pFile[d] /\ s.bak[d] = Persona!Absent
      <4>1. ~(s.i < s.i)
        BY AtDocument, DocFacts
      <4> QED
        BY <1>3, <1>6, <1>10, <4>1
    <3> QED
      BY <1>3, <1>5, <2>3, <2>4, <3>1, <3>2, <3>3 DEF Copied
  <2>7. u.i \in u.plan /\ u.touched = {} /\ \A e \in Persona!DocSet : u.want[e] # Persona!Absent
    BY <1>5, <1>6, <2>3
  <2> QED
    BY <1>2, <1>5, <2>1, <2>2, <2>5, <2>6, <2>7, StagedStep, Zenon
<1> QED
  BY <1>9, <1>10

LEMMA CopyStep == ASSUME PersonaInv, NEW r \in Clients, Persona!Copy(r) PROVE PersonaInv'
<1>1. PICK s \in Sessions : s = pReq[r] /\ SessionSound(s)
  BY SessionFacts
<1>2. s.at = "copy" /\ UNCHANGED <<pFile, pFaults, pAgreed, pSpoilt>> /\ SavingNow(r)
  BY <1>1 DEF Persona!Copy, SavingNow, Persona!Saving
<1>3. PICK d \in Persona!DocSet : d = Docs[s.i]
  BY AtDocument
<1>4. /\ s.i \in s.plan /\ s.touched = {} /\ s.plan # {} /\ d \in s.had /\ s.tmp[d] # Persona!Absent
      /\ \A e \in Persona!DocSet : s.want[e] # Persona!Absent
      /\ \A k \in s.plan : IF k < s.i THEN s.tmp[Docs[k]] # Persona!Absent ELSE s.bak[Docs[k]] = Persona!Absent
  BY <1>1, <1>2, <1>3 DEF SessionSound, Persona!Saving
<1>5. pSpoilt \subseteq {"crash"} => Undoable(r, s, pFile)
  BY <1>1, <1>2, SessionFacts
<1>6. CASE pFile[d] = Persona!Absent
  <2>1. PICK t : t = [s EXCEPT !.at = "failed"]
    OBVIOUS
  <2>2. pReq' = [pReq EXCEPT ![r] = t]
    BY <1>1, <1>3, <1>6, <2>1 DEF Persona!Copy, Persona!Doc
  <2>3. t \in Sessions /\ t.at = "failed" /\ t.touched = s.touched /\ t.plan = s.plan
    BY <2>1 DEF Sessions, Persona!Ended
  <2>4. SessionSound(t) /\ t.at \notin Persona!Saving
    BY <1>4, <2>3 DEF SessionSound, Writing, Persona!Saving, Persona!Swapping
  <2>5. Undoable(r, s, pFile) =>
          \A e \in Persona!DocSet : /\ pSpoilt = {} => pFile[e] = pAgreed[e]
                                    /\ pFile[e] = Persona!Absent => Others(r, e)
    BY <1>2, <1>4 DEF Undoable, Backed, Was
  <2> QED
    BY <1>2, <1>5, <2>2, <2>3, <2>4, <2>5, PersonaTypeFacts, SaveEnds, Zenon
<1>7. CASE pFile[d] # Persona!Absent
  <2>1. PICK c : c = pFile[d]
    OBVIOUS
  <2>2. PICK g : g = [s.bak EXCEPT ![d] = c]
    OBVIOUS
  <2>3. g \in Persona!Files /\ g[d] = c /\ \A e \in Persona!DocSet : e # d => g[e] = s.bak[e]
    BY <2>1, <2>2, AtDocument, PersonaTypeFacts DEF Persona!Files
  <2>4. PICK u : u = [s EXCEPT !.bak = g, !.at = "stage"]
    OBVIOUS
  <2>5. u \in Sessions /\ Keeps(u, s) /\ u.at = "stage" /\ u.i = s.i /\ u.bak = g /\ u.tmp = s.tmp
    BY <2>3, <2>4 DEF Sessions, Keeps, Persona!Saving
  <2>6. u.plan = s.plan /\ u.had = s.had /\ u.touched = s.touched /\ u.want = s.want
    BY <2>5 DEF Keeps
  <2>7. PICK t : t = Persona!Advance(u, "remove", Persona!Min(u.plan))
    OBVIOUS
  <2>8. pReq' = [pReq EXCEPT ![r] = t]
    <3>1. u = [s EXCEPT !.bak[d] = pFile[d], !.at = "stage"]
      BY <2>1, <2>2, <2>4
    <3>2. pReq' = [pReq EXCEPT ![r] = Persona!Advance([s EXCEPT !.bak[d] = pFile[d], !.at = "stage"], "remove",
                                                      Persona!Min(s.plan))]
      BY <1>1, <1>3, <1>7 DEF Persona!Copy, Persona!Doc
    <3> QED
      BY <2>6, <2>7, <3>1, <3>2
  <2>9. \A k \in s.plan : /\ k <= s.i => (k < s.i /\ Docs[k] # d) \/ k = s.i
                          /\ k > s.i => ~(k < s.i) /\ Docs[k] # d
    <3>1. \A k \in s.plan : /\ k <= s.i => (k < s.i /\ k # s.i) \/ k = s.i
                            /\ k > s.i => ~(k < s.i) /\ k # s.i
      BY AtDocument, DocFacts
    <3> QED
      BY <1>3, <3>1, AtDocument
  <2>10. /\ \A k \in u.plan : k <= u.i => u.tmp[Docs[k]] # Persona!Absent
         /\ \A k \in u.plan : k > u.i => u.bak[Docs[k]] = Persona!Absent
    BY <1>3, <1>4, <2>3, <2>5, <2>6, <2>9, AtDocument
  <2>11. ASSUME pSpoilt \subseteq {"crash"}
         PROVE  /\ Backed(r, u, pFile)
                /\ \A k \in u.plan : k <= u.i =>
                       u.bak[Docs[k]] = pFile[Docs[k]] /\ (u.bak[Docs[k]] # Persona!Absent => Docs[k] \in u.had)
    <3>1. Backed(r, s, pFile) /\ Copied(s, pFile)
      BY <1>2, <1>5, <2>11 DEF Undoable
    <3>2. Backed(r, u, pFile)
      <4>1. \A e \in u.had : u.bak[e] # Persona!Absent
        BY <1>3, <1>7, <2>1, <2>3, <2>5, <2>6, <3>1, AtDocument DEF Backed
      <4>2. \A e \in Persona!DocSet : Was(u, pFile, e) = Was(s, pFile, e)
        BY <1>4, <2>6 DEF Was
      <4> QED
        BY <3>1, <4>1, <4>2 DEF Backed
    <3> QED
      BY <1>3, <1>4, <2>1, <2>3, <2>5, <2>6, <2>9, <3>1, <3>2, AtDocument DEF Copied
  <2>12. u.i \in u.plan /\ u.touched = {} /\ \A e \in Persona!DocSet : u.want[e] # Persona!Absent
    BY <1>4, <2>5, <2>6
  <2> QED
    BY <1>2, <2>5, <2>7, <2>8, <2>10, <2>11, <2>12, StagedStep, Zenon
<1> QED
  BY <1>6, <1>7

\* A document is removed, or is not: from now on it is its backup copy that counts.
LEMMA RemovedStep ==
  ASSUME PersonaInv, NEW r \in Clients, NEW s \in Sessions, s = pReq[r], s.at = "remove",
         NEW t, t = [s EXCEPT !.at = "rename", !.touched = @ \cup {Docs[s.i]}], pReq' = [pReq EXCEPT ![r] = t],
         NEW f \in Persona!Files, \A d \in Persona!DocSet : d # Docs[s.i] => f[d] = pFile[d], pFile' = f,
         UNCHANGED <<pAgreed, pSpoilt>>, pFaults' \in 0 .. Faults
  PROVE  PersonaInv'
<1>1. SessionSound(s) /\ SavingNow(r) /\ (pSpoilt \subseteq {"crash"} => Undoable(r, s, pFile))
  BY SessionFacts DEF SavingNow, Persona!Saving, Persona!Swapping
<1>2. PICK d \in Persona!DocSet : d = Docs[s.i]
  BY AtDocument
<1>3. PICK w : w = s.touched \cup {d}
  OBVIOUS
<1>4. t = [s EXCEPT !.at = "rename", !.touched = w]
  BY <1>2, <1>3
<1>5. /\ t \in Sessions /\ t.at = "rename" /\ t.touched = w /\ t.i = s.i /\ t.want = s.want /\ t.plan = s.plan
      /\ t.tmp = s.tmp /\ t.bak = s.bak /\ t.had = s.had
  <2>1. w \in SUBSET Persona!DocSet
    BY <1>3, AtDocument
  <2> QED
    BY <1>4, <2>1 DEF Sessions, Persona!Saving, Persona!Swapping
<1>6. s.i \in s.plan /\ s.plan # {} /\ s.touched \subseteq {Docs[k] : k \in s.plan}
  BY <1>1 DEF SessionSound, Persona!Swapping, Writing
<1>7. SessionSound(t) /\ t.at \in Persona!Saving
  <2>1. w \subseteq {Docs[k] : k \in s.plan}
    BY <1>2, <1>3, <1>6
  <2> QED
    BY <1>1, <1>5, <1>6, <2>1 DEF SessionSound, Writing, Persona!Saving, Persona!Swapping
<1>8. ASSUME pSpoilt \subseteq {"crash"} PROVE Undoable(r, t, f)
  <2>1. /\ Backed(r, s, pFile) /\ AllCopied(s, pFile)
        /\ \A k \in s.plan : k < s.i => Docs[k] \in s.touched /\ pFile[Docs[k]] # Persona!Absent
    BY <1>1, <1>8 DEF Undoable, Writing
  <2>2. \A e \in Persona!DocSet : Was(t, f, e) = Was(s, pFile, e)
    <3>1. d \notin s.touched => s.bak[d] = pFile[d]
      BY <1>2, <1>6, <2>1 DEF AllCopied
    <3> QED
      BY <1>2, <1>3, <1>5, <3>1 DEF Was
  <2>3. Backed(r, t, f)
    BY <1>5, <2>1, <2>2 DEF Backed
  <2>4. AllCopied(t, f)
    BY <1>2, <1>3, <1>5, <2>1, AtDocument DEF AllCopied
  <2>5. \A k \in s.plan : k < s.i => Docs[k] \in w /\ f[Docs[k]] # Persona!Absent
    <3>1. \A k \in s.plan : k < s.i => k # s.i
      BY AtDocument, DocFacts
    <3>2. \A k \in s.plan : k < s.i => Docs[k] # Docs[s.i]
      BY <3>1, AtDocument
    <3> QED
      BY <1>3, <2>1, <3>2, AtDocument
  <2> QED
    BY <1>2, <1>3, <1>5, <2>3, <2>4, <2>5 DEF Undoable, Writing, Undoing
<1> QED
  BY <1>1, <1>5, <1>7, <1>8, PersonaTypeFacts, SavingMoves, Zenon

LEMMA RemoveStep == ASSUME PersonaInv, NEW r \in Clients, Persona!Remove(r) PROVE PersonaInv'
<1>1. PICK s \in Sessions : s = pReq[r]
  BY SessionFacts
<1>2. PICK t : t = [s EXCEPT !.at = "rename", !.touched = @ \cup {Docs[s.i]}]
  OBVIOUS
<1>3. s.at = "remove" /\ UNCHANGED <<pFaults, pAgreed, pSpoilt>> /\ pReq' = [pReq EXCEPT ![r] = t]
  <2>1. pReq' = [pReq EXCEPT ![r].at = "rename", ![r].touched = @ \cup {Docs[pReq[r].i]}]
    BY DEF Persona!Remove, Persona!Doc
  <2> QED
    BY <1>1, <1>2, <2>1 DEF Persona!Remove, PersonaInv, PersonaTypes
<1>4. PICK f : f = [pFile EXCEPT ![Docs[s.i]] = Persona!Absent]
  OBVIOUS
<1>5. pFile' = f
  BY <1>1, <1>4 DEF Persona!Remove, Persona!Doc
<1>6. f \in Persona!Files /\ \A d \in Persona!DocSet : d # Docs[s.i] => f[d] = pFile[d]
  BY <1>4, PersonaTypeFacts DEF Persona!Files
<1> QED
  BY <1>1, <1>2, <1>3, <1>5, <1>6, PersonaTypeFacts, RemovedStep, Zenon

\* A document is replaced; after the last one the backup copies go.
LEMMA ReplaceStep == ASSUME PersonaInv, NEW r \in Clients, Persona!Rename(r) PROVE PersonaInv'
<1>1. PICK s \in Sessions : s = pReq[r] /\ SessionSound(s)
  BY SessionFacts
<1>2. s.at = "rename" /\ UNCHANGED <<pFaults, pAgreed, pSpoilt>> /\ SavingNow(r)
  BY <1>1 DEF Persona!Rename, SavingNow, Persona!Saving, Persona!Swapping
<1>3. PICK d \in Persona!DocSet : d = Docs[s.i]
  BY AtDocument
<1>4. /\ s.i \in s.plan /\ s.plan # {} /\ s.touched \subseteq {Docs[k] : k \in s.plan}
      /\ \A e \in Persona!DocSet : s.want[e] # Persona!Absent
      /\ \A k \in s.plan : k >= s.i => s.tmp[Docs[k]] # Persona!Absent
  BY <1>1, <1>2 DEF SessionSound, Persona!Saving, Persona!Swapping, Writing
<1>5. pSpoilt \subseteq {"crash"} => Undoable(r, s, pFile)
  BY <1>1, <1>2, SessionFacts
<1>6. PICK g : g = [s.tmp EXCEPT ![d] = Persona!Absent]
  OBVIOUS
<1>7. g \in Persona!Files /\ \A e \in Persona!DocSet : e # d => g[e] = s.tmp[e]
  BY <1>6, AtDocument DEF Persona!Files
<1>8. PICK u : u = [s EXCEPT !.at = "remove", !.tmp = g]
  OBVIOUS
<1>9. /\ u \in Sessions /\ u.at = "remove" /\ u.i = s.i /\ u.bak = s.bak /\ u.tmp = g
      /\ u.plan = s.plan /\ u.had = s.had /\ u.touched = s.touched /\ u.want = s.want
  BY <1>7, <1>8 DEF Sessions, Persona!Saving, Persona!Swapping
<1>10. PICK v : v = Persona!Advance(u, "reread", 1)
  OBVIOUS
<1>11. /\ v \in Sessions /\ v.tmp = g /\ v.bak = s.bak /\ v.plan = s.plan /\ v.had = s.had
       /\ v.touched = s.touched /\ v.want = s.want
       /\ \/ v.at = "reread" /\ v.i = 1 /\ \A k \in s.plan : k <= s.i
          \/ v.at = "remove" /\ v.i \in s.plan /\ v.i > s.i /\ \A k \in s.plan : k < v.i => k <= s.i
  <2>1. PICK next \in {"remove", "reread"} : next = "reread"
    OBVIOUS
  <2>2. PICK i \in DOMAIN Docs : i = 1
    BY DocFacts
  <2>3. v = Persona!Advance(u, next, i)
    BY <1>10, <2>1, <2>2
  <2>4. /\ v \in Sessions /\ Keeps(v, u) /\ v.tmp = u.tmp /\ v.bak = u.bak
        /\ \/ v.at = next /\ v.i = i /\ \A k \in u.plan : k <= u.i
           \/ v.at = u.at /\ v.i \in u.plan /\ v.i > u.i /\ \A k \in u.plan : k < v.i => k <= u.i
    <3>1. u \in Sessions
      BY <1>9
    <3> QED
      BY <2>3, <3>1, PlanFacts
  <2> QED
    BY <1>9, <2>1, <2>2, <2>4 DEF Keeps
<1>12. PICK f : f = [pFile EXCEPT ![d] = s.tmp[d]]
  OBVIOUS
<1>13. /\ f \in Persona!Files /\ f[d] # Persona!Absent /\ \A e \in Persona!DocSet : e # d => f[e] = pFile[e]
  <2>1. s.tmp[d] # Persona!Absent
    <3>1. s.i >= s.i
      BY AtDocument, DocFacts
    <3> QED
      BY <1>3, <1>4, <3>1
  <2> QED
    BY <1>12, <2>1, AtDocument, PersonaTypeFacts DEF Persona!Files
<1>14. pFile' = f
  BY <1>1, <1>3, <1>12 DEF Persona!Rename, Persona!Doc
<1>15. pReq' = [pReq EXCEPT ![r] = IF v.at = "reread" THEN [v EXCEPT !.bak = Persona!NoFiles] ELSE v]
  <2>1. v = Persona!Advance([s EXCEPT !.at = "remove", !.tmp[d] = Persona!Absent], "reread", 1)
    BY <1>6, <1>8, <1>10
  <2> QED
    BY <1>1, <1>3, <2>1 DEF Persona!Rename, Persona!Doc
<1>16. ASSUME pSpoilt \subseteq {"crash"}
       PROVE  /\ Backed(r, s, pFile) /\ AllCopied(s, pFile) /\ d \in s.touched
              /\ \A k \in s.plan : k <= s.i => Docs[k] \in s.touched /\ f[Docs[k]] # Persona!Absent
  <2>1. /\ Backed(r, s, pFile) /\ AllCopied(s, pFile) /\ d \in s.touched
        /\ \A k \in s.plan : k < s.i => Docs[k] \in s.touched /\ pFile[Docs[k]] # Persona!Absent
    BY <1>2, <1>3, <1>5, <1>16 DEF Undoable, Writing
  <2>2. \A k \in s.plan : k <= s.i => k < s.i \/ k = s.i
    BY AtDocument, DocFacts
  <2>3. \A k \in s.plan : k <= s.i => Docs[k] \in s.touched /\ f[Docs[k]] # Persona!Absent
    BY <1>3, <1>13, <2>1, <2>2, AtDocument
  <2> QED
    BY <2>1, <2>3
<1>17. CASE v.at = "reread"
  <2>1. PICK none \in Persona!Files : none = Persona!NoFiles
    BY DocFacts
  <2>2. PICK t : t = [v EXCEPT !.bak = none]
    OBVIOUS
  <2>3. pReq' = [pReq EXCEPT ![r] = t]
    BY <1>15, <1>17, <2>1, <2>2
  <2>4. /\ t \in Sessions /\ t.at = "reread" /\ t.plan = s.plan /\ t.touched = s.touched /\ t.want = s.want
    BY <1>11, <1>17, <2>2 DEF Sessions
  <2>5. SessionSound(t) /\ t.at \in Persona!Saving
    BY <1>4, <2>4 DEF SessionSound, Writing, Persona!Saving, Persona!Swapping
  <2>6. ASSUME pSpoilt \subseteq {"crash"} PROVE Undoable(r, t, f)
    <3>1. \A e \in Persona!DocSet : f[e] # Persona!Absent \/ Others(r, e)
      <4> SUFFICES ASSUME NEW e \in Persona!DocSet, f[e] = Persona!Absent PROVE Others(r, e)
        OBVIOUS
      <4>1. \A k \in s.plan : Docs[k] # e
        BY <1>11, <1>16, <1>17, <2>6
      <4>2. e \notin s.touched /\ f[e] = pFile[e]
        BY <1>3, <1>4, <1>13, <4>1
      <4> QED
        BY <1>16, <2>6, <4>2 DEF Backed, Was
    <3> QED
      BY <2>4, <3>1 DEF Undoable, Writing, Undoing
  <2> QED
    BY <1>2, <1>13, <1>14, <2>3, <2>4, <2>5, <2>6, PersonaTypeFacts, SavingMoves, Zenon
<1>18. CASE v.at # "reread"
  <2>1. pReq' = [pReq EXCEPT ![r] = v]
    BY <1>15, <1>18
  <2>2. \A k \in s.plan : k >= v.i => k >= s.i /\ Docs[k] # d
    <3>1. \A k \in s.plan : k >= v.i => k >= s.i /\ k # s.i
      BY <1>11, <1>18, AtDocument, DocFacts
    <3> QED
      BY <1>3, <3>1, AtDocument
  <2>3. SessionSound(v) /\ v.at \in Persona!Saving
    <3>1. \A k \in s.plan : k >= v.i => v.tmp[Docs[k]] # Persona!Absent
      BY <1>4, <1>7, <1>11, <2>2, AtDocument
    <3> QED
      BY <1>4, <1>11, <1>18, <3>1 DEF SessionSound, Writing, Persona!Saving, Persona!Swapping
  <2>4. ASSUME pSpoilt \subseteq {"crash"} PROVE Undoable(r, v, f)
    <3>1. \A e \in Persona!DocSet : Was(v, f, e) = Was(s, pFile, e)
      BY <1>11, <1>13, <1>16, <2>4 DEF Was
    <3>2. Backed(r, v, f)
      BY <1>2, <1>11, <1>16, <2>4, <3>1 DEF Backed
    <3>3. AllCopied(v, f)
      BY <1>11, <1>13, <1>16, <2>4, AtDocument DEF AllCopied
    <3> QED
      BY <1>11, <1>16, <1>18, <2>4, <3>2, <3>3 DEF Undoable, Writing, Undoing
  <2> QED
    BY <1>2, <1>11, <1>13, <1>14, <2>1, <2>3, <2>4, PersonaTypeFacts, SavingMoves, Zenon
<1> QED
  BY <1>17, <1>18

\* A save falls back: when nothing is left to put back it has failed, and the documents are what they were.
LEMMA RolledBackStep ==
  ASSUME PersonaInv, NEW r \in Clients, NEW s \in Sessions, s = pReq[r], s.at \in {"rename"} \cup Undoing,
         NEW i \in 0 .. Len(Docs), NEW t, t = Persona!Rollback(s, i), pReq' = [pReq EXCEPT ![r] = t],
         NEW f \in Persona!Files, pFile' = f, pAgreed' = pAgreed, pFaults' \in 0 .. Faults,
         pSpoilt' \subseteq Persona!Spoils, pSpoilt \subseteq pSpoilt',
         pSpoilt' \subseteq {"crash"} =>
             PutBack(s, f, i) /\ \A d \in Persona!DocSet : d \notin s.touched => f[d] = pFile[d]
  PROVE  PersonaInv'
<1>1. SessionSound(s) /\ SavingNow(r) /\ (pSpoilt \subseteq {"crash"} => Undoable(r, s, pFile))
  BY SessionFacts DEF SavingNow, Persona!Saving, Persona!Swapping, Undoing
<1>2. /\ t \in Sessions /\ Keeps(t, s)
      /\ \/ t.at = "failed" /\ \A k \in 1 .. i : Docs[k] \notin s.touched
         \/ /\ t.at = "undo" /\ t.i \in 1 .. i /\ Docs[t.i] \in s.touched /\ t.bak = s.bak
            /\ \A k \in 1 .. i : k > t.i => Docs[k] \notin s.touched
  BY RollbackFacts
<1>3. t.plan = s.plan /\ t.had = s.had /\ t.touched = s.touched /\ t.want = s.want
  BY <1>2 DEF Keeps
<1>4. /\ s.plan # {} /\ s.touched \subseteq {Docs[k] : k \in s.plan}
      /\ \A d \in Persona!DocSet : s.want[d] # Persona!Absent
  BY <1>1 DEF SessionSound, Undoing, Persona!Saving, Persona!Swapping
<1>5. SessionSound(t)
  BY <1>2, <1>3, <1>4 DEF SessionSound, Writing, Persona!Saving, Persona!Swapping
<1>6. ASSUME pSpoilt' \subseteq {"crash"}
      PROVE  /\ Backed(r, s, pFile) /\ AllCopied(s, pFile) /\ PutBack(s, f, i)
             /\ \A d \in Persona!DocSet : Was(s, f, d) = Was(s, pFile, d)
             /\ \A d \in Persona!DocSet : d \notin s.touched => f[d] = pFile[d]
  <2>1. Backed(r, s, pFile) /\ AllCopied(s, pFile)
    BY <1>1, <1>6 DEF Undoable, Undoing, Writing
  <2>2. \A d \in Persona!DocSet : Was(s, f, d) = Was(s, pFile, d)
    BY <1>6 DEF Was
  <2> QED
    BY <1>6, <2>1, <2>2
<1>7. CASE t.at = "failed"
  <2>1. t.at \notin Persona!Saving
    BY <1>7 DEF Persona!Saving, Persona!Swapping
  <2>2. ASSUME pSpoilt' \subseteq {"crash"}
        PROVE  \A d \in Persona!DocSet : /\ pSpoilt = {} => f[d] = pAgreed[d]
                                         /\ f[d] = Persona!Absent => Others(r, d)
    <3>1. \A d \in s.touched : \A k \in 1 .. i : Docs[k] # d
      BY <1>2, <1>7
    <3>2. \A d \in Persona!DocSet : Was(s, f, d) = f[d]
      BY <1>6, <2>2, <3>1 DEF PutBack, Was
    <3> QED
      BY <1>6, <2>2, <3>2 DEF Backed
  <2> QED
    BY <1>1, <1>2, <1>5, <2>1, <2>2, PersonaTypeFacts, SaveEnds, Zenon
<1>8. CASE t.at # "failed"
  <2>1. t.at = "undo" /\ t.at \in Persona!Saving
    BY <1>2, <1>8 DEF Persona!Saving, Persona!Swapping
  <2>2. ASSUME pSpoilt' \subseteq {"crash"} PROVE Undoable(r, t, f)
    <3>1. Backed(r, t, f)
      <4>1. \A d \in Persona!DocSet : Was(t, f, d) = Was(s, pFile, d)
        BY <1>2, <1>3, <1>6, <2>1, <2>2 DEF Was
      <4>2. \A d \in s.had : s.bak[d] # Persona!Absent
        BY <1>6, <2>2 DEF Backed, Undoing
      <4> QED
        BY <1>2, <1>3, <1>6, <2>1, <2>2, <4>1, <4>2 DEF Backed
    <3>2. AllCopied(t, f)
      BY <1>2, <1>3, <1>6, <2>1, <2>2, AtDocument DEF AllCopied
    <3>3. PutBack(t, f, t.i)
      <4>1. i \in Nat /\ t.i \in 1 .. i /\ \A k \in 1 .. i : k > t.i => Docs[k] \notin s.touched
        BY <1>2, <2>1, DocFacts
      <4>2. \A d \in s.touched : (\A k \in 1 .. t.i : Docs[k] # d) => \A k \in 1 .. i : Docs[k] # d
        <5> SUFFICES ASSUME NEW d \in s.touched, \A k \in 1 .. t.i : Docs[k] # d, NEW k \in 1 .. i, Docs[k] = d
                     PROVE  FALSE
          OBVIOUS
        <5>1. k \in 1 .. t.i \/ k > t.i
          BY <4>1
        <5> QED
          BY <4>1, <5>1
      <4> QED
        BY <1>2, <1>3, <1>6, <2>1, <2>2, <4>2 DEF PutBack
    <3> QED
      BY <1>2, <1>3, <2>1, <3>1, <3>2, <3>3 DEF Undoable, Writing, Undoing
  <2> QED
    BY <1>1, <1>2, <1>5, <2>1, <2>2, PersonaTypeFacts, SavingMoves, Zenon
<1> QED
  BY <1>7, <1>8

\* A document to be put back is one that was removed: without a backup copy it was not there.
LEMMA UndoingFacts ==
  ASSUME PersonaInv, NEW r \in Clients, pReq[r].at \in Undoing, pSpoilt \subseteq {"crash"},
         NEW f \in Persona!Files, NEW d, d = Docs[pReq[r].i],
         \A e \in Persona!DocSet : e # d => f[e] = pFile[e]
  PROVE  /\ d \in pReq[r].touched
         /\ d \notin pReq[r].had => pReq[r].bak[d] = Persona!Absent
         /\ d \in pReq[r].had => pReq[r].bak[d] # Persona!Absent
         /\ f[d] = pReq[r].bak[d] => PutBack(pReq[r], f, pReq[r].i - 1)
         /\ PutBack(pReq[r], f, pReq[r].i)
<1>1. PICK s \in Sessions : s = pReq[r] /\ SessionSound(s)
  BY SessionFacts
<1>2. Undoable(r, s, pFile)
  BY <1>1, SessionFacts DEF SavingNow, Undoing, Persona!Saving, Persona!Swapping
<1>3. Backed(r, s, pFile) /\ AllCopied(s, pFile) /\ PutBack(s, pFile, s.i) /\ d \in s.touched
  BY <1>1, <1>2 DEF Undoable, Undoing
<1>4. d \notin s.had => s.bak[d] = Persona!Absent
  BY <1>1, <1>3 DEF SessionSound, AllCopied
<1>5. d \in s.had => s.bak[d] # Persona!Absent
  BY <1>1, <1>3 DEF Backed, Undoing
<1>6. s.i \in Nat \ {0} /\ s.i \in 1 .. s.i
  BY AtDocument, DocFacts
<1>7. PutBack(s, f, s.i)
  BY <1>1, <1>3, <1>6, AtDocument DEF PutBack
<1>8. f[d] = s.bak[d] => PutBack(s, f, s.i - 1)
  <2> SUFFICES ASSUME f[d] = s.bak[d], NEW e \in s.touched, \A k \in 1 .. (s.i - 1) : Docs[k] # e
               PROVE  f[e] = s.bak[e]
    BY DEF PutBack
  <2>1. CASE e = d
    BY <2>1
  <2>2. CASE e # d
    <3>1. \A k \in 1 .. s.i : k \in 1 .. (s.i - 1) \/ k = s.i
      BY <1>6
    <3>2. \A k \in 1 .. s.i : Docs[k] # e
      BY <1>1, <2>2, <3>1
    <3> QED
      BY <1>3, <2>2, <3>2, AtDocument DEF PutBack
  <2> QED
    BY <2>1, <2>2
<1> QED
  BY <1>1, <1>3, <1>4, <1>5, <1>7, <1>8

LEMMA UndoStep == ASSUME PersonaInv, NEW r \in Clients, Persona!Undo(r) PROVE PersonaInv'
<1>1. PICK s \in Sessions : s = pReq[r] /\ SessionSound(s)
  BY SessionFacts
<1>2. s.at = "undo" /\ UNCHANGED <<pFaults, pAgreed, pSpoilt>> /\ SavingNow(r)
  BY <1>1 DEF Persona!Undo, SavingNow, Persona!Saving, Persona!Swapping
<1>3. PICK d \in Persona!DocSet : d = Docs[s.i]
  BY AtDocument
<1>4. PICK f : f = [pFile EXCEPT ![d] = Persona!Absent]
  OBVIOUS
<1>5. /\ f \in Persona!Files /\ f[d] = Persona!Absent /\ \A e \in Persona!DocSet : e # d => f[e] = pFile[e]
  BY <1>4, PersonaTypeFacts DEF Persona!Files
<1>6. pFile' = f /\ pReq' = [pReq EXCEPT ![r] = Persona!Undone(s)]
  BY <1>1, <1>3, <1>4 DEF Persona!Undo, Persona!Doc
<1>7. ASSUME pSpoilt \subseteq {"crash"}
      PROVE  /\ d \in s.touched /\ PutBack(s, f, s.i) /\ (d \notin s.had => PutBack(s, f, s.i - 1))
             /\ \A e \in Persona!DocSet : e \notin s.touched => f[e] = pFile[e]
  <2>1. s.at \in Undoing
    BY <1>2 DEF Undoing
  <2>2. /\ d \in s.touched /\ PutBack(s, f, s.i) /\ (d \notin s.had => s.bak[d] = Persona!Absent)
        /\ (f[d] = s.bak[d] => PutBack(s, f, s.i - 1))
    BY <1>1, <1>3, <1>5, <1>7, <2>1, UndoingFacts
  <2> QED
    BY <1>5, <2>2
<1>8. CASE d \in s.had
  <2>1. PICK t : t = [s EXCEPT !.at = "restore"]
    OBVIOUS
  <2>2. pReq' = [pReq EXCEPT ![r] = t]
    BY <1>3, <1>6, <1>8, <2>1 DEF Persona!Undone
  <2>3. /\ t \in Sessions /\ t.at = "restore" /\ t.i = s.i /\ t.bak = s.bak /\ t.tmp = s.tmp /\ t.plan = s.plan
        /\ t.had = s.had /\ t.touched = s.touched /\ t.want = s.want
    BY <2>1 DEF Sessions, Persona!Saving, Persona!Swapping
  <2>4. SessionSound(t) /\ t.at \in Persona!Saving
    BY <1>1, <1>2, <2>3 DEF SessionSound, Writing, Persona!Saving, Persona!Swapping
  <2>5. ASSUME pSpoilt \subseteq {"crash"} PROVE Undoable(r, t, f)
    <3>1. Backed(r, s, pFile) /\ AllCopied(s, pFile)
      BY <1>1, <1>2, <2>5, SessionFacts DEF Undoable, Undoing
    <3>2. \A e \in Persona!DocSet : Was(t, f, e) = Was(s, pFile, e)
      BY <1>7, <2>3, <2>5 DEF Was
    <3>3. Backed(r, t, f)
      BY <1>2, <2>3, <3>1, <3>2 DEF Backed
    <3>4. AllCopied(t, f)
      BY <1>7, <2>3, <2>5, <3>1, AtDocument DEF AllCopied
    <3>5. PutBack(t, f, t.i)
      BY <1>7, <2>3, <2>5 DEF PutBack
    <3> QED
      BY <1>3, <1>7, <1>8, <2>3, <2>5, <3>3, <3>4, <3>5 DEF Undoable, Writing, Undoing
  <2> QED
    BY <1>2, <1>5, <1>6, <2>2, <2>3, <2>4, <2>5, PersonaTypeFacts, SavingMoves, Zenon
<1>9. CASE d \notin s.had
  <2>1. PICK i \in 0 .. Len(Docs) : i = s.i - 1
    BY AtDocument, DocFacts
  <2>2. PICK t : t = Persona!Rollback(s, i)
    OBVIOUS
  <2>3. pReq' = [pReq EXCEPT ![r] = t]
    BY <1>3, <1>6, <1>9, <2>1, <2>2 DEF Persona!Undone
  <2>4. s.at \in {"rename"} \cup Undoing
    BY <1>2 DEF Undoing
  <2>5. pSpoilt \subseteq {"crash"} =>
            PutBack(s, f, i) /\ \A e \in Persona!DocSet : e \notin s.touched => f[e] = pFile[e]
    BY <1>7, <1>9, <2>1
  <2>6. /\ pFile' = f /\ pAgreed' = pAgreed /\ pFaults' \in 0 .. Faults
        /\ pSpoilt' \subseteq Persona!Spoils /\ pSpoilt \subseteq pSpoilt'
    BY <1>2, <1>6, PersonaTypeFacts
  <2>7. pSpoilt' \subseteq {"crash"} =>
            PutBack(s, f, i) /\ \A e \in Persona!DocSet : e \notin s.touched => f[e] = pFile[e]
    BY <1>2, <2>5
  <2> QED
    BY <1>1, <1>5, <2>2, <2>3, <2>4, <2>6, <2>7, RolledBackStep, Zenon
<1> QED
  BY <1>8, <1>9

LEMMA RestoreBackupStep == ASSUME PersonaInv, NEW r \in Clients, Persona!RestoreBackup(r) PROVE PersonaInv'
<1>1. PICK s \in Sessions : s = pReq[r]
  BY SessionFacts
<1>2. s.at = "restore" /\ UNCHANGED <<pFaults, pAgreed, pSpoilt>>
  BY <1>1 DEF Persona!RestoreBackup
<1>3. PICK d \in Persona!DocSet : d = Docs[s.i]
  BY AtDocument
<1>4. PICK f : f = IF s.bak[d] = Persona!Absent THEN pFile ELSE [pFile EXCEPT ![d] = s.bak[d]]
  OBVIOUS
<1>5. /\ f \in Persona!Files /\ \A e \in Persona!DocSet : e # d => f[e] = pFile[e]
      /\ s.bak[d] # Persona!Absent => f[d] = s.bak[d]
  BY <1>4, AtDocument, PersonaTypeFacts DEF Persona!Files
<1>6. PICK i \in 0 .. Len(Docs) : i = s.i - 1
  BY AtDocument, DocFacts
<1>7. PICK t : t = Persona!Rollback(s, i)
  OBVIOUS
<1>8. pFile' = f /\ pReq' = [pReq EXCEPT ![r] = t]
  BY <1>1, <1>3, <1>4, <1>6, <1>7 DEF Persona!RestoreBackup, Persona!Doc
<1>9. ASSUME pSpoilt \subseteq {"crash"}
      PROVE  PutBack(s, f, i) /\ \A e \in Persona!DocSet : e \notin s.touched => f[e] = pFile[e]
  <2>1. s.at \in Undoing
    BY <1>2 DEF Undoing
  <2>2. d \in s.had
    BY <1>1, <1>2, <1>3, <1>9, SessionFacts DEF Undoable, SavingNow, Persona!Saving, Persona!Swapping
  <2>3. /\ d \in s.touched /\ (d \in s.had => s.bak[d] # Persona!Absent)
        /\ (f[d] = s.bak[d] => PutBack(s, f, s.i - 1))
    BY <1>1, <1>3, <1>5, <1>9, <2>1, UndoingFacts
  <2> QED
    BY <1>5, <1>6, <2>2, <2>3
<1>10. s.at \in {"rename"} \cup Undoing
  BY <1>2 DEF Undoing
<1> QED
  BY <1>1, <1>2, <1>5, <1>7, <1>8, <1>9, <1>10, PersonaTypeFacts, RolledBackStep, Zenon

LEMMA AuditStep == ASSUME PersonaInv, NEW r \in Clients, Persona!Audit(r) PROVE PersonaInv'
<1>1. PICK s \in Sessions : s = pReq[r] /\ SessionSound(s)
  BY SessionFacts
<1>2. PICK t : t = [s EXCEPT !.at = "updated"]
  OBVIOUS
<1>3. /\ pReq' = [pReq EXCEPT ![r] = t] /\ s.at = "audit" /\ pAgreed' = pFile
      /\ UNCHANGED <<pFile, pFaults, pSpoilt>>
  BY <1>1, <1>2 DEF Persona!Audit
<1>4. t \in Sessions /\ t.at = "updated" /\ t.touched = s.touched /\ t.plan = s.plan
  BY <1>2 DEF Sessions, Persona!Ended
<1>5. SessionSound(t) /\ t.at \notin Persona!Saving /\ SavingNow(r)
  BY <1>1, <1>3, <1>4 DEF SessionSound, Writing, Persona!Saving, Persona!Swapping, SavingNow
<1> QED
  BY <1>3, <1>4, <1>5, PersonaTypeFacts, SaveEnds, Zenon

\* An operation fails: before the swap, in it, after it, or in the rollback.
LEMMA FailStep == ASSUME PersonaInv, NEW r \in Clients, Persona!Fail(r) PROVE PersonaInv'
<1>1. PICK s \in Sessions : s = pReq[r] /\ SessionSound(s)
  BY SessionFacts
<1>2. /\ s.at \in Persona!Saving \cup {"load"} /\ UNCHANGED <<pFile, pAgreed>>
      /\ pReq' = [pReq EXCEPT ![r] = Persona!Failed(s)]
  BY <1>1 DEF Persona!Fail
<1>3. /\ pFaults' \in 0 .. Faults /\ pSpoilt' \subseteq Persona!Spoils /\ pSpoilt \subseteq pSpoilt'
      /\ s.at \notin {"reread", "audit", "undo", "restore"} => pSpoilt' = pSpoilt
      /\ s.at \in {"reread", "audit", "undo", "restore"} => ~(pSpoilt' \subseteq {"crash"})
  <2>1. pFaults \in 0 .. Faults /\ pSpoilt \subseteq Persona!Spoils /\ Faults \in Nat
    BY PersonaTypeFacts, StateFilesAssumption
  <2>2. pFaults' \in 0 .. Faults
    BY <2>1 DEF Persona!Fail
  <2>3. pSpoilt' = pSpoilt \cup (CASE s.at \in {"reread", "audit"} -> {"late"}
                                   [] s.at \in {"undo", "restore"} -> {"undo"}
                                   [] OTHER -> {})
    BY <1>1 DEF Persona!Fail
  <2>4. CASE s.at \in {"reread", "audit"}
    <3>1. pSpoilt' = pSpoilt \cup {"late"}
      BY <2>3, <2>4
    <3> QED
      BY <2>1, <2>2, <2>4, <3>1 DEF Persona!Spoils
  <2>5. CASE s.at \in {"undo", "restore"}
    <3>1. pSpoilt' = pSpoilt \cup {"undo"}
      BY <2>3, <2>5
    <3> QED
      BY <2>1, <2>2, <2>5, <3>1 DEF Persona!Spoils
  <2>6. CASE s.at \notin {"reread", "audit", "undo", "restore"}
    <3>1. pSpoilt' = pSpoilt
      BY <2>3, <2>6
    <3> QED
      BY <2>1, <2>2, <2>6, <3>1
  <2> QED
    BY <2>4, <2>5, <2>6
<1>4. CASE s.at \in {"load", "check", "stage", "copy"}
  <2>1. PICK t : t = [s EXCEPT !.at = "failed"]
    OBVIOUS
  <2>2. pReq' = [pReq EXCEPT ![r] = t]
    BY <1>2, <1>4, <2>1 DEF Persona!Failed
  <2>3. t \in Sessions /\ t.at = "failed" /\ t.touched = s.touched /\ t.plan = s.plan /\ t.bak = s.bak
    BY <2>1 DEF Sessions, Persona!Ended
  <2>4. s.touched = {} /\ SessionSound(t) /\ t.at \notin Persona!Saving
    BY <1>1, <1>4, <2>3 DEF SessionSound, Writing, Persona!Saving, Persona!Swapping
  <2>5. CASE s.at = "load"
    <3>1. ~SavingNow(r) /\ pSpoilt' = pSpoilt
      BY <1>1, <1>3, <2>5 DEF SavingNow, Persona!Saving, Persona!Swapping
    <3> QED
      BY <1>1, <1>2, <1>3, <2>2, <2>3, <2>4, <3>1, IdleMoves, Zenon
  <2>6. CASE s.at # "load"
    <3>1. SavingNow(r)
      BY <1>1, <1>4, <2>6 DEF SavingNow, Persona!Saving
    <3>2. ASSUME pSpoilt' \subseteq {"crash"}
          PROVE  \A d \in Persona!DocSet : /\ pSpoilt = {} => pFile[d] = pAgreed[d]
                                           /\ pFile[d] = Persona!Absent => Others(r, d)
      <4>1. pSpoilt \subseteq {"crash"}
        BY <1>3, <3>2
      <4>2. Backed(r, s, pFile)
        BY <1>1, <1>4, <3>1, <4>1, SessionFacts DEF Undoable
      <4> QED
        BY <2>4, <4>2 DEF Backed, Was
    <3> QED
      BY <1>2, <1>3, <2>2, <2>3, <2>4, <3>1, <3>2, PersonaTypeFacts, SaveEnds, Zenon
  <2> QED
    BY <2>5, <2>6
<1>5. CASE s.at = "remove"
  <2>1. PICK t : t = [s EXCEPT !.at = "rename", !.touched = @ \cup {Docs[s.i]}]
    OBVIOUS
  <2>2. pReq' = [pReq EXCEPT ![r] = t] /\ pSpoilt' = pSpoilt
    BY <1>2, <1>3, <1>5, <2>1 DEF Persona!Failed
  <2> QED
    <3>1. PICK f \in Persona!Files : f = pFile
      BY PersonaTypeFacts
    <3>2. pFile' = f /\ pAgreed' = pAgreed /\ \A d \in Persona!DocSet : d # Docs[s.i] => f[d] = pFile[d]
      BY <1>2, <3>1
    <3> QED
      BY <1>1, <1>3, <1>5, <2>1, <2>2, <3>2, RemovedStep, Zenon
<1>6. ASSUME s.at \in {"rename"} \cup Undoing, NEW i \in 0 .. Len(Docs),
             pReq' = [pReq EXCEPT ![r] = Persona!Rollback(s, i)], s.at = "rename" => i = Len(Docs)
      PROVE  PersonaInv'
  <2>1. PICK t : t = Persona!Rollback(s, i)
    OBVIOUS
  <2>2. pReq' = [pReq EXCEPT ![r] = t]
    BY <1>6, <2>1
  <2>3. pSpoilt' \subseteq {"crash"} => PutBack(s, pFile, i)
    <3>1. CASE s.at = "rename"
      <4>1. \A d \in s.touched : \E k \in 1 .. i : Docs[k] = d
        BY <1>6, <3>1, AtDocument, DocFacts
      <4> QED
        BY <4>1 DEF PutBack
    <3>2. CASE s.at \in Undoing
      BY <1>3, <3>2 DEF Undoing
    <3> QED
      BY <1>6, <3>1, <3>2
  <2> QED
    <3>1. PICK f \in Persona!Files : f = pFile
      BY PersonaTypeFacts
    <3>2. pFile' = f /\ pAgreed' = pAgreed
      BY <1>2, <3>1
    <3>3. pSpoilt' \subseteq {"crash"} =>
              PutBack(s, f, i) /\ \A d \in Persona!DocSet : d \notin s.touched => f[d] = pFile[d]
      BY <2>3, <3>1
    <3>4. s.at \in {"rename"} \cup Undoing /\ s = pReq[r]
      BY <1>1, <1>6
    <3>5. pFaults' \in 0 .. Faults /\ pSpoilt' \subseteq Persona!Spoils /\ pSpoilt \subseteq pSpoilt'
      BY <1>3
    <3> QED
      BY <2>1, <2>2, <3>2, <3>3, <3>4, <3>5, RolledBackStep, Zenon
<1>7. ASSUME NEW t \in Sessions, pReq' = [pReq EXCEPT ![r] = t], SessionSound(t), ~(pSpoilt' \subseteq {"crash"})
      PROVE  PersonaInv'
  <2>1. CASE t.at \in Persona!Saving
    BY <1>2, <1>3, <1>7, <2>1, PersonaTypeFacts, SavingMoves, Zenon
  <2>2. CASE t.at \notin Persona!Saving
    BY <1>2, <1>3, <1>7, <2>2, PersonaTypeFacts, SaveEnds, Zenon
  <2> QED
    BY <2>1, <2>2
<1>8. ASSUME NEW t, NEW i \in 0 .. Len(Docs), t = Persona!Rollback(s, i), s.at \in Persona!Swapping
      PROVE  t \in Sessions /\ SessionSound(t)
  <2>1. t \in Sessions /\ Keeps(t, s) /\ t.at \in {"failed", "undo"}
    BY <1>8, RollbackFacts
  <2> QED
    BY <1>1, <1>8, <2>1 DEF SessionSound, Keeps, Writing, Persona!Saving, Persona!Swapping
<1>9. CASE s.at = "rename"
  <2>1. PICK i \in 0 .. Len(Docs) : i = Len(Docs)
    <3>1. Len(Docs) \in Nat
      BY DocFacts
    <3> QED
      BY <3>1
  <2>2. pReq' = [pReq EXCEPT ![r] = Persona!Rollback(s, i)]
    BY <1>2, <1>9, <2>1 DEF Persona!Failed
  <2> QED
    BY <1>6, <1>9, <2>1, <2>2
<1>10. CASE s.at \in {"reread", "audit"}
  <2>1. PICK i \in 0 .. Len(Docs) : i = Len(Docs)
    <3>1. Len(Docs) \in Nat
      BY DocFacts
    <3> QED
      BY <3>1
  <2>2. PICK t : t = Persona!Rollback(s, i)
    OBVIOUS
  <2>3. pReq' = [pReq EXCEPT ![r] = t]
    BY <1>2, <1>10, <2>1, <2>2 DEF Persona!Failed
  <2> QED
    BY <1>3, <1>7, <1>8, <1>10, <2>2, <2>3 DEF Persona!Swapping
<1>11. CASE s.at \in Undoing
  <2>1. ~(pSpoilt' \subseteq {"crash"}) /\ s.at \in Persona!Swapping
    BY <1>3, <1>11 DEF Undoing, Persona!Swapping
  <2>2. PICK i \in 0 .. Len(Docs) : i = s.i - 1
    BY AtDocument, DocFacts
  <2>3. CASE s.at = "undo" /\ Docs[s.i] \in s.had
    <3>1. PICK t : t = [s EXCEPT !.at = "restore"]
      OBVIOUS
    <3>2. pReq' = [pReq EXCEPT ![r] = t]
      BY <1>2, <2>3, <3>1 DEF Persona!Failed, Persona!Undone
    <3>3. /\ t \in Sessions /\ t.at = "restore" /\ t.plan = s.plan /\ t.touched = s.touched /\ t.want = s.want
      BY <3>1 DEF Sessions, Persona!Saving, Persona!Swapping
    <3>4. SessionSound(t)
      BY <1>1, <2>3, <3>3 DEF SessionSound, Writing, Persona!Saving, Persona!Swapping
    <3> QED
      BY <1>7, <2>1, <3>2, <3>3, <3>4
  <2>4. CASE ~(s.at = "undo" /\ Docs[s.i] \in s.had)
    <3>1. PICK t : t = Persona!Rollback(s, i)
      OBVIOUS
    <3>2. pReq' = [pReq EXCEPT ![r] = t]
      BY <1>2, <1>11, <2>2, <2>4, <3>1 DEF Persona!Failed, Persona!Undone, Undoing
    <3> QED
      BY <1>7, <1>8, <2>1, <3>1, <3>2
  <2> QED
    BY <2>3, <2>4
<1> QED
  BY <1>2, <1>4, <1>5, <1>9, <1>10, <1>11 DEF Undoing, Persona!Saving, Persona!Swapping

\* The process dies: no save goes on, and the copies that its saves made stay.
LEMMA DieStep == ASSUME PersonaInv, Persona!Die PROVE PersonaInv'
<1>1. /\ pReq' = [q \in Clients |-> IF pReq[q].at \in Persona!Saving \cup {"load"} THEN [pReq[q] EXCEPT !.at = "dead"]
                                    ELSE pReq[q]]
      /\ UNCHANGED <<pFile, pAgreed>> /\ pSpoilt' = pSpoilt \cup {"crash"} /\ pFaults' = pFaults + 1 /\ pFaults < Faults
  BY DEF Persona!Die
<1>2. ASSUME NEW q \in Clients
      PROVE  /\ pReq'[q] \in Sessions /\ SessionSound(pReq'[q]) /\ pReq'[q].at \notin Persona!Saving
             /\ pReq'[q].bak = pReq[q].bak
  <2>1. PICK s \in Sessions : s = pReq[q] /\ SessionSound(s)
    BY SessionFacts
  <2>2. CASE s.at \in Persona!Saving \cup {"load"}
    <3>1. PICK t : t = [s EXCEPT !.at = "dead"]
      OBVIOUS
    <3>2. pReq'[q] = t
      BY <1>1, <2>1, <2>2, <3>1
    <3>3. t \in Sessions /\ t.at = "dead" /\ t.bak = s.bak /\ t.touched = s.touched /\ t.plan = s.plan
      BY <3>1 DEF Sessions, Persona!Ended
    <3> QED
      BY <2>1, <3>2, <3>3 DEF SessionSound, Writing, Persona!Saving, Persona!Swapping
  <2>3. CASE s.at \notin Persona!Saving \cup {"load"}
    <3>1. pReq'[q] = s
      BY <1>1, <2>1, <2>3
    <3> QED
      BY <2>1, <2>3, <3>1
  <2> QED
    BY <2>2, <2>3
<1>3. PersonaTypes'
  <2>1. pReq' \in [Clients -> Sessions]
    <3>1. pReq' = [q \in Clients |-> pReq'[q]]
      BY <1>1
    <3> QED
      BY <1>2, <3>1
  <2>2. pFaults' \in 0 .. Faults /\ pSpoilt' \subseteq Persona!Spoils
    BY <1>1, PersonaTypeFacts, StateFilesAssumption DEF Persona!Spoils
  <2> QED
    BY <1>1, <2>1, <2>2 DEF PersonaInv, PersonaTypes
<1>4. (\A q \in Clients : SessionSound(pReq[q]))'
  BY <1>2 DEF SessionSound
<1>5. ASSUME pSpoilt' \subseteq {"crash"}, NEW d \in Persona!DocSet PROVE AsSaved(d)'
  <2>1. pSpoilt \subseteq {"crash"} /\ pSpoilt' # {}
    BY <1>1, <1>5
  <2>2. pAgreed[d] = Persona!Absent \/ pFile[d] # Persona!Absent \/ \E q \in Clients : pReq[q].bak[d] # Persona!Absent
    BY <2>1, NothingIsLost
  <2>3. pAgreed'[d] = Persona!Absent \/ pFile'[d] # Persona!Absent \/ \E q \in Clients : pReq'[q].bak[d] # Persona!Absent
    BY <1>1, <1>2, <2>2
  <2> QED
    BY <2>1, <2>3 DEF AsSaved
<1>6. \A q \in Clients : ~SavingNow(q)'
  BY <1>2 DEF SavingNow
<1>7. Serial'
  BY <1>5, <1>6, Zenon DEF Serial
<1> QED
  BY <1>3, <1>4, <1>7 DEF PersonaInv

LEMMA PersonaInitially == Init => PersonaInv
<1> SUFFICES ASSUME Init PROVE PersonaInv
  OBVIOUS
<1>1. Persona!Init
  BY DEF Init
<1>2. /\ pFile \in Persona!Files /\ pAgreed = pFile /\ pFaults = 0 /\ pSpoilt = {}
      /\ pReq = [r \in Clients |-> Persona!NewSession]
  BY <1>1 DEF Persona!Init, Persona!Files, Persona!Contents
<1>3. PICK none \in Persona!Files : none = Persona!NoFiles
  BY DocFacts
<1>4. PICK s : s = Persona!NewSession
  OBVIOUS
<1>5. s = [at |-> "new", i |-> 1, rev |-> none, want |-> none, saw |-> none,
           plan |-> {}, had |-> {}, touched |-> {}, tmp |-> none, bak |-> none]
  BY <1>3, <1>4 DEF Persona!NewSession
<1>6. s \in Sessions /\ s.at = "new" /\ s.i = 1 /\ s.had = {} /\ s.touched = {} /\ s.bak = Persona!NoFiles
  <2>1. 1 \in DOMAIN Docs
    BY DocFacts
  <2> QED
    BY <1>3, <1>5, <2>1 DEF Sessions
<1>7. SessionSound(s) /\ s.at \notin Persona!Saving
  BY <1>6 DEF SessionSound, Writing, Persona!Saving, Persona!Swapping
<1>8. \A r \in Clients : pReq[r] = s
  BY <1>2, <1>4
<1>9. PersonaTypes
  <2>1. pReq = [r \in Clients |-> s]
    BY <1>2, <1>4
  <2> QED
    BY <1>2, <1>6, <2>1, StateFilesAssumption DEF PersonaTypes, Persona!Spoils
<1>10. Serial
  BY <1>2, <1>7, <1>8 DEF Serial, SavingNow, AsSaved
<1> QED
  BY <1>7, <1>8, <1>9, <1>10 DEF PersonaInv

LEMMA PersonaStep == PersonaInv /\ [Persona!Next]_PersonaVars => PersonaInv'
<1> SUFFICES ASSUME PersonaInv, [Persona!Next]_PersonaVars PROVE PersonaInv'
  OBVIOUS
<1>1. CASE UNCHANGED PersonaVars
  BY <1>1 DEF PersonaVars, PersonaInv, PersonaTypes, Serial, SavingNow, AsSaved, Undoable, Backed, Others, Was, Copied,
              AllCopied, PutBack, SessionSound
<1>2. ASSUME NEW r \in Clients, Persona!Load(r) PROVE PersonaInv'
  BY <1>2, LoadStep
<1>3. ASSUME NEW r \in Clients, Persona!Read(r) PROVE PersonaInv'
  BY <1>3, ReadStep
<1>4. ASSUME NEW r \in Clients, Persona!SaveInvalid(r) PROVE PersonaInv'
  BY <1>4, SaveInvalidStep
<1>5. ASSUME NEW r \in Clients, NEW edited \in SUBSET Persona!DocSet, Persona!Save(r, edited) PROVE PersonaInv'
  BY <1>5, BeginSaveStep
<1>6. ASSUME NEW r \in Clients, Persona!Stage(r) PROVE PersonaInv'
  BY <1>6, StageStep
<1>7. ASSUME NEW r \in Clients, Persona!Copy(r) PROVE PersonaInv'
  BY <1>7, CopyStep
<1>8. ASSUME NEW r \in Clients, Persona!Remove(r) PROVE PersonaInv'
  BY <1>8, RemoveStep
<1>9. ASSUME NEW r \in Clients, Persona!Rename(r) PROVE PersonaInv'
  BY <1>9, ReplaceStep
<1>10. ASSUME NEW r \in Clients, Persona!Audit(r) PROVE PersonaInv'
  BY <1>10, AuditStep
<1>11. ASSUME NEW r \in Clients, Persona!Undo(r) PROVE PersonaInv'
  BY <1>11, UndoStep
<1>12. ASSUME NEW r \in Clients, Persona!RestoreBackup(r) PROVE PersonaInv'
  BY <1>12, RestoreBackupStep
<1>13. ASSUME NEW r \in Clients, Persona!Fail(r) PROVE PersonaInv'
  BY <1>13, FailStep
<1>14. CASE Persona!Die
  BY <1>14, DieStep
<1> QED
  BY <1>1, <1>2, <1>3, <1>4, <1>5, <1>6, <1>7, <1>8, <1>9, <1>10, <1>11, <1>12, <1>13, <1>14 DEF Persona!Next

\* A save of the persona documents is all or nothing, and a death in it loses no document.
THEOREM SavesAreAtomic == Spec => []PersonaSafe
<1>1. Init => PersonaInv
  BY PersonaInitially
<1>2. PersonaInv /\ [Next]_vars => PersonaInv'
  BY PersonaPart, PersonaStep
<1>3. PersonaInv => PersonaSafe
  BY SavesAreSafe
<1> QED
  BY <1>1, <1>2, <1>3, PTL DEF Spec

(***************************************************************************)
(* Backups.                                                                 *)
(***************************************************************************)

LiveContents == [Restore!LiveFiles -> 0 .. (MaxEvents + 2)]
TargetCopies == [Restore!TargetSet -> LiveContents]
LocalSnapshots == [dir : BOOLEAN, tree : LiveContents, manifest : BOOLEAN, sums : TargetCopies, quiet : BOOLEAN]
SnapshotJobs == [at : {"idle", "copy", "manifest", "prune"}, id : 0 .. MaxBackups, i : DOMAIN Targets,
                 sums : TargetCopies, quiet : BOOLEAN]
Forwards == {"clear", "move", "persist"}
Backwards == {"undo", "putback"}
Restores == [at : {"none", "validate", "stage"} \cup Forwards \cup Backwards, id : 0 .. MaxBackups,
             i : DOMAIN Targets, plan : SUBSET DOMAIN Targets, dry : BOOLEAN, present : SUBSET Restore!TargetSet,
             staged : TargetCopies, saved : TargetCopies,
             before : LiveContents, written : SUBSET Restore!LiveFiles, torn : SUBSET Restore!TargetSet]

RestoreTypes ==
    /\ bLive \in LiveContents
    /\ bSnap \in [Restore!Ids -> LocalSnapshots]
    /\ Restore!RowIds \subseteq 0 .. MaxBackups
    /\ bJob \in [Restore!Triggers -> SnapshotJobs]
    /\ bRestore \in Restores
    /\ bEvents \in Seq({"restored", "dry-run", "failed"})
    /\ bMoves \in 0 .. MaxEvents

\* A snapshot has a manifest when it has a row, which says what is in it unless it was disturbed.
SnapshotSound(i) ==
    /\ ~bSnap[i].dir => bSnap[i] = Restore!NoSnapshot
    /\ bSnap[i].manifest <=> i \in Restore!RowIds
    /\ bSnap[i].manifest /\ bSnap[i].quiet => Restore!ValidFor(i, DOMAIN Targets)

\* The targets a snapshot under way has copied.
CopiedSoFar(j) == {k \in DOMAIN Targets : j.at = "copy" => k < j.i}

\* What is as it was copied: a file of the snapshot, and a target with its checksum.
FileCopied(j, f) == bSnap[j.id].tree[f] \in {Restore!Absent, bLive[f]}
TargetCopied(j, t) == \/ ~Restore!Exists(j.sums[t], t)
                      \/ /\ j.sums[t] = Restore!Part(bLive, t)
                         /\ \A f \in Holds[t] : bSnap[j.id].tree[f] = bLive[f]

\* A quiet snapshot is the only call under way and has copied what is there.
JobSound(t) ==
    bJob[t].at # "idle" =>
        /\ bJob[t].id \in Restore!Ids
        /\ \A q \in Restore!Triggers \ {t} : bJob[q].at # "idle" => bJob[q].id # bJob[t].id /\ ~bJob[t].quiet
        /\ bJob[t].at # "prune" => bJob[t].id \notin Restore!RowIds
        /\ bJob[t].quiet => /\ bRestore.at = "none"
                            /\ bJob[t].at # "prune" => /\ \A f \in Restore!LiveFiles : FileCopied(bJob[t], f)
                                                       /\ \A k \in CopiedSoFar(bJob[t]) : TargetCopied(bJob[t], Targets[k])

\* A restore, by what the program did not write since it began.
HeldBy(f, done) == \E k \in done : f \in Holds[Targets[k]]
Unwritten(r) == Restore!LiveFiles \ r.written

\* The rollback copy of a target is what was there, and what is not in the snapshot is not staged.
CopiesKept(r, k) == LET t == Targets[k] IN
    /\ \A f \in Unwritten(r) \cap Holds[t] : r.saved[t][f] = r.before[f]
    /\ t \notin r.present => \A f \in Holds[t] : r.staged[t][f] = Restore!Absent

\* A file as the targets done have left it: as staged for one of them, or as it was.
Come(r, f, content, done) ==
    IF HeldBy(f, done) THEN \E k \in done : f \in Holds[Targets[k]] /\ content = r.staged[Targets[k]][f]
    ELSE content = r.before[f]
Done(r) == {k \in r.plan : r.at = "persist" \/ k < r.i}
ToUndo(r) == {k \in r.plan : k <= r.i}
AtTarget(r, f) == r.at \in {"move", "putback"} /\ f \in Holds[Targets[r.i]]
Spared(r, f) == \A t \in r.torn : f \notin Holds[t]

RestoreSound(r, files) ==
    r.at # "none" =>
        /\ r.id \in Restore!Ids /\ r.i \in r.plan
        /\ r.at \notin Backwards => r.torn = {}
        /\ r.at = "validate" => \A k \in r.plan : r.i <= k
        /\ \A k \in r.plan : (r.at = "stage" /\ k < r.i) \/ r.at \in Forwards \cup Backwards => CopiesKept(r, k)
        /\ \A f \in Unwritten(r) :
              IF AtTarget(r, f) THEN files[f] = Restore!Absent
              ELSE /\ r.at \in {"validate", "stage"} => files[f] = r.before[f]
                   /\ r.at \in Forwards => Come(r, f, files[f], Done(r))
                   /\ r.at \in Backwards => HeldBy(f, ToUndo(r)) \/ ~Spared(r, f) \/ files[f] = r.before[f]

RestoreInv == /\ RestoreTypes
              /\ \A i \in Restore!Ids : SnapshotSound(i)
              /\ \A t \in Restore!Triggers : JobSound(t)
              /\ RestoreSound(bRestore, bLive)

LEMMA RestorePart == [Next]_vars => [Restore!Next]_RestoreVars
BY DEF Next, Rest, vars

\* The targets, and the start of what is kept of them.
LEMMA TargetFacts ==
  /\ Len(Targets) \in Nat \ {0} /\ DOMAIN Targets = 1 .. Len(Targets)
  /\ \A k \in DOMAIN Targets : Targets[k] \in Restore!TargetSet
  /\ \A t \in Restore!TargetSet : \E k \in DOMAIN Targets : t = Targets[k]
  /\ \A j, k \in DOMAIN Targets : Targets[j] = Targets[k] => j = k
  /\ \A t \in Restore!TargetSet : Holds[t] \subseteq Restore!LiveFiles
<1>1. PICK q : q = Targets
  OBVIOUS
<1>2. q \in Seq({q[i] : i \in DOMAIN q}) /\ q # <<>> /\ \A i, j \in DOMAIN q : q[i] = q[j] => i = j
  <2>1. Listed(Targets)
    BY StateFilesAssumption, Zenon
  <2> QED
    BY <1>1, <2>1, Zenon DEF Listed
<1>3. Len(q) \in Nat \ {0} /\ DOMAIN q = 1 .. Len(q)
  BY <1>2
<1>4. /\ \A k \in DOMAIN Targets : Targets[k] \in Restore!TargetSet
      /\ \A t \in Restore!TargetSet : \E k \in DOMAIN Targets : t = Targets[k]
  BY DEF Restore!TargetSet
<1>5. \A t \in Restore!TargetSet : Holds[t] \subseteq Restore!LiveFiles
  BY DEF Restore!LiveFiles
<1> QED
  BY <1>1, <1>2, <1>3, <1>4, <1>5

LEMMA StartFacts ==
  /\ Restore!Absent = 0 /\ Restore!Damaged \in 0 .. (MaxEvents + 2)
  /\ Restore!Nothing \in LiveContents /\ \A f \in Restore!LiveFiles : Restore!Nothing[f] = 0
  /\ Restore!NoCopies \in TargetCopies /\ \A t \in Restore!TargetSet : Restore!NoCopies[t] = Restore!Nothing
  /\ Restore!NoSnapshot \in LocalSnapshots /\ ~Restore!NoSnapshot.dir /\ ~Restore!NoSnapshot.manifest
  /\ Restore!NoSnapshot.tree = Restore!Nothing
  /\ Restore!NoJob \in SnapshotJobs /\ Restore!NoJob.at = "idle"
  /\ Restore!NoRestore \in Restores /\ Restore!NoRestore.at = "none"
<1>1. /\ Restore!Absent = 0 /\ Restore!Damaged \in 0 .. (MaxEvents + 2) /\ 0 \in 0 .. (MaxEvents + 2)
  BY StateFilesAssumption DEF Restore!Absent, Restore!Damaged
<1>2. Restore!Nothing \in LiveContents /\ \A f \in Restore!LiveFiles : Restore!Nothing[f] = 0
  BY <1>1 DEF Restore!Nothing, LiveContents
<1>3. Restore!NoCopies \in TargetCopies /\ \A t \in Restore!TargetSet : Restore!NoCopies[t] = Restore!Nothing
  BY <1>2 DEF Restore!NoCopies, TargetCopies
<1>4. /\ Restore!NoSnapshot \in LocalSnapshots /\ ~Restore!NoSnapshot.dir /\ ~Restore!NoSnapshot.manifest
      /\ Restore!NoSnapshot.tree = Restore!Nothing
  BY <1>2, <1>3 DEF Restore!NoSnapshot, LocalSnapshots
<1>5. 1 \in DOMAIN Targets /\ 0 \in 0 .. MaxBackups
  BY TargetFacts, StateFilesAssumption
<1>6. Restore!NoJob \in SnapshotJobs /\ Restore!NoJob.at = "idle"
  BY <1>3, <1>5 DEF Restore!NoJob, SnapshotJobs
<1>7. Restore!NoRestore \in Restores /\ Restore!NoRestore.at = "none"
  BY <1>2, <1>3, <1>5 DEF Restore!NoRestore, Restores
<1> QED
  BY <1>1, <1>2, <1>3, <1>4, <1>6, <1>7

\* Taking, removing and putting back a target.
LEMMA FileFacts ==
  ASSUME NEW files \in LiveContents, NEW t \in Restore!TargetSet
  PROVE  /\ Restore!Part(files, t) \in LiveContents
         /\ \A f \in Restore!LiveFiles : Restore!Part(files, t)[f] = IF f \in Holds[t] THEN files[f] ELSE 0
         /\ Restore!Without(files, t) \in LiveContents
         /\ \A f \in Restore!LiveFiles : Restore!Without(files, t)[f] = IF f \in Holds[t] THEN 0 ELSE files[f]
<1>1. 0 \in 0 .. (MaxEvents + 2) /\ Restore!Absent = 0
  BY StartFacts, StateFilesAssumption
<1> QED
  BY <1>1 DEF LiveContents, Restore!Part, Restore!Without

LEMMA CopyFacts ==
  ASSUME NEW files \in LiveContents, NEW from \in LiveContents, NEW t \in Restore!TargetSet
  PROVE  /\ Restore!CopiedOver(files, t, from) \in LiveContents
         /\ \A f \in Restore!LiveFiles :
              Restore!CopiedOver(files, t, from)[f] = IF f \in Holds[t] /\ from[f] # 0 THEN from[f] ELSE files[f]
BY StartFacts DEF LiveContents, Restore!CopiedOver

\* A target whose checksum is that of nothing.
LEMMA ExistsFacts ==
  ASSUME NEW files \in LiveContents, NEW t \in Restore!TargetSet
  PROVE  Restore!Exists(files, t) <=> \E f \in Holds[t] : files[f] # 0
BY StartFacts DEF Restore!Exists

LEMMA PositionFacts ==
  ASSUME NEW S \in SUBSET DOMAIN Targets, S # {}
  PROVE  /\ Restore!Min(S) \in S /\ \A k \in S : Restore!Min(S) <= k
         /\ Restore!Max(S) \in S /\ \A k \in S : k <= Restore!Max(S)
<1>1. PICK n \in Nat : DOMAIN Targets = 1 .. n
  BY TargetFacts
<1>2. S \in SUBSET (1 .. n)
  BY <1>1
<1>3. /\ Persona!Min(S) \in S /\ \A k \in S : Persona!Min(S) <= k
      /\ Persona!Max(S) \in S /\ \A k \in S : k <= Persona!Max(S)
  BY <1>2, ExtremeFacts, Zenon
<1>4. Persona!Min(S) = Restore!Min(S) /\ Persona!Max(S) = Restore!Max(S)
  BY Zenon DEF Persona!Min, Restore!Min, Persona!Max, Restore!Max
<1> QED
  BY <1>3, <1>4, Zenon

LEMMA RestoreInitially == Init => RestoreInv
<1> SUFFICES ASSUME Init PROVE RestoreInv
  OBVIOUS
<1>1. /\ bLive = [f \in Restore!LiveFiles |-> 1] /\ bSnap = [i \in Restore!Ids |-> Restore!NoSnapshot]
      /\ bRows = {} /\ bEvents = <<>> /\ bJob = [t \in Restore!Triggers |-> Restore!NoJob]
      /\ bRestore = Restore!NoRestore /\ bMoves = 0
  BY DEF Init, Restore!Init
<1>2. Restore!RowIds = {}
  BY <1>1 DEF Restore!RowIds
<1>3. 1 \in 0 .. (MaxEvents + 2) /\ 0 \in 0 .. MaxEvents
  BY StateFilesAssumption
<1>4. bLive \in LiveContents
  BY <1>1, <1>3 DEF LiveContents
<1>5. RestoreTypes
  BY <1>1, <1>2, <1>3, <1>4, StartFacts DEF RestoreTypes
<1>6. \A i \in Restore!Ids : SnapshotSound(i)
  BY <1>1, <1>2, StartFacts DEF SnapshotSound
<1>7. \A t \in Restore!Triggers : JobSound(t)
  BY <1>1, StartFacts DEF JobSound
<1>8. RestoreSound(bRestore, bLive)
  BY <1>1, StartFacts DEF RestoreSound
<1> QED
  BY <1>5, <1>6, <1>7, <1>8 DEF RestoreInv

\* What is known of a restore under way, and of the files, when a restore step is taken.
LEMMA RestoreFacts ==
  ASSUME RestoreInv
  PROVE  /\ bLive \in LiveContents /\ bRestore \in Restores /\ RestoreSound(bRestore, bLive)
         /\ bSnap \in [Restore!Ids -> LocalSnapshots] /\ bJob \in [Restore!Triggers -> SnapshotJobs]
         /\ bEvents \in Seq({"restored", "dry-run", "failed"}) /\ bMoves \in 0 .. MaxEvents
         /\ Restore!RowIds \subseteq 0 .. MaxBackups
         /\ Restore!Restoring <=> bRestore.at # "none"
<1>1. RestoreTypes /\ RestoreSound(bRestore, bLive)
  BY DEF RestoreInv
<1>2. bRestore.at \in {"none", "validate", "stage"} \cup Forwards \cup Backwards
  BY <1>1 DEF RestoreTypes, Restores
<1>3. Restore!Restoring <=> bRestore.at # "none"
  BY <1>2 DEF Restore!Restoring, Forwards, Backwards
<1> QED
  BY <1>1, <1>3 DEF RestoreTypes

LEMMA RestoreEnded == ASSUME NEW files PROVE RestoreSound(Restore!NoRestore, files)
BY StartFacts DEF RestoreSound

LEMMA SnapshotSame ==
  ASSUME RestoreInv, NEW i \in Restore!Ids, bSnap'[i] = bSnap[i],
         i \in Restore!RowIds' <=> i \in Restore!RowIds
  PROVE  SnapshotSound(i)'
<1>1. SnapshotSound(i)
  BY DEF RestoreInv
<1>2. Restore!ValidFor(i, DOMAIN Targets)' <=> Restore!ValidFor(i, DOMAIN Targets)
  BY Zenon DEF Restore!ValidFor
<1> QED
  BY <1>1, <1>2 DEF SnapshotSound

\* A step of a restore leaves the snapshots alone, and no snapshot under way is quiet in it.
LEMMA SnapshotsKept ==
  ASSUME RestoreInv, bRestore.at # "none" \/ (bRestore'.at = "none" /\ bLive' = bLive),
         bSnap' = bSnap, bRows' = bRows, bJob' = bJob
  PROVE  /\ \A i \in Restore!Ids : SnapshotSound(i)'
         /\ \A t \in Restore!Triggers : JobSound(t)'
<1>1. Restore!RowIds' = Restore!RowIds
  BY DEF Restore!RowIds
<1>2. \A i \in Restore!Ids : SnapshotSound(i)'
  BY <1>1, SnapshotSame
<1>3. \A t \in Restore!Triggers : JobSound(t)'
  <2> TAKE t \in Restore!Triggers
  <2>1. JobSound(t)
    BY DEF RestoreInv
  <2>2. CASE bRestore.at # "none"
    BY <1>1, <2>1, <2>2 DEF JobSound
  <2>3. CASE bRestore'.at = "none" /\ bLive' = bLive
    <3>1. \A f : FileCopied(bJob[t], f)' <=> FileCopied(bJob[t], f)
      BY <2>3, Zenon DEF FileCopied
    <3>2. \A k : TargetCopied(bJob[t], Targets[k])' <=> TargetCopied(bJob[t], Targets[k])
      BY <2>3, Zenon DEF TargetCopied
    <3>3. CopiedSoFar(bJob[t])' = CopiedSoFar(bJob[t])
      BY Zenon DEF CopiedSoFar
    <3> QED
      BY <1>1, <2>1, <2>3, <3>1, <3>2, <3>3, Zenon DEF JobSound
  <2> QED
    BY <2>2, <2>3
<1> QED
  BY <1>2, <1>3

LEMMA RestoreMoves ==
  ASSUME RestoreInv, bRestore.at # "none", bSnap' = bSnap, bRows' = bRows, bJob' = bJob,
         bRestore' \in Restores, bLive' \in LiveContents, bMoves' \in 0 .. MaxEvents,
         bEvents' \in Seq({"restored", "dry-run", "failed"}),
         RestoreSound(bRestore', bLive')
  PROVE  RestoreInv'
<1>1. Restore!RowIds' = Restore!RowIds
  BY DEF Restore!RowIds
<1>2. RestoreTypes'
  BY <1>1, RestoreFacts, Zenon DEF RestoreTypes
<1> QED
  BY <1>2, SnapshotsKept, Zenon DEF RestoreInv

\* The next target, or the next phase.
LEMMA OnToFacts ==
  ASSUME NEW r \in Restores, NEW phase \in {"stage", "clear"}, NEW next \in Forwards, r.i \in r.plan,
         NEW t, t = Restore!OnTo(r, phase, next)
  PROVE  /\ t \in Restores /\ t.id = r.id /\ t.plan = r.plan /\ t.present = r.present /\ t.staged = r.staged
         /\ t.saved = r.saved /\ t.before = r.before /\ t.written = r.written /\ t.torn = r.torn
         /\ t.i \in r.plan
         /\ \/ t.at = next /\ \A k \in r.plan : k <= r.i /\ t.i <= k
            \/ t.at = phase /\ t.i > r.i /\ \A k \in r.plan : k < t.i => k <= r.i
<1> DEFINE rest == {k \in r.plan : k > r.i}
<1>1. r.plan \in SUBSET DOMAIN Targets /\ r.i \in DOMAIN Targets
  BY DEF Restores
<1>2. CASE rest = {}
  <2>1. PICK j : j = Restore!Min(r.plan)
    OBVIOUS
  <2>2. j \in r.plan /\ \A k \in r.plan : j <= k
    BY <1>1, <2>1, PositionFacts
  <2>3. t = [r EXCEPT !.at = next, !.i = j]
    BY <1>2, <2>1 DEF Restore!OnTo
  <2>4. \A k \in r.plan : k <= r.i
    BY <1>1, <1>2, TargetFacts
  <2> QED
    BY <1>1, <2>2, <2>3, <2>4 DEF Restores
<1>3. CASE rest # {}
  <2>1. PICK j : j = Restore!Min(rest)
    OBVIOUS
  <2>2. rest \in SUBSET DOMAIN Targets
    BY <1>1
  <2>3. j \in rest /\ \A k \in rest : j <= k
    <3> HIDE DEF rest
    <3> QED
      BY <1>3, <2>1, <2>2, PositionFacts
  <2>4. t = [r EXCEPT !.at = phase, !.i = j]
    BY <1>3, <2>1 DEF Restore!OnTo
  <2>5. \A k \in r.plan : k < j => k <= r.i
    BY <1>1, <2>3, TargetFacts
  <2>6. j \in r.plan /\ j > r.i /\ j \in DOMAIN Targets
    BY <1>1, <2>3
  <2> QED
    BY <1>1, <2>4, <2>5, <2>6 DEF Restores, Forwards
<1> QED
  BY <1>2, <1>3

\* The end of a restore, and its rollback.
LEMMA OutcomeFacts ==
  ASSUME RestoreInv, NEW outcome \in {"restored", "dry-run", "failed"}, Restore!Outcome(outcome)
  PROVE  /\ bEvents' \in Seq({"restored", "dry-run", "failed"}) /\ bEvents' = Append(bEvents, outcome)
         /\ bRestore' = Restore!NoRestore /\ bRestore' \in Restores /\ bRestore'.at = "none"
BY RestoreFacts, StartFacts DEF Restore!Outcome

LEMMA RollBackFacts ==
  ASSUME RestoreInv, NEW r \in Restores, NEW last \in Nat, Restore!RollBack(r, last)
  PROVE  \/ Restore!Outcome("failed") /\ \A k \in r.plan : k > last
         \/ /\ bEvents' = bEvents /\ bRestore' \in Restores
            /\ bRestore'.id = r.id /\ bRestore'.plan = r.plan /\ bRestore'.present = r.present
            /\ bRestore'.staged = r.staged /\ bRestore'.saved = r.saved /\ bRestore'.before = r.before
            /\ bRestore'.written = r.written /\ bRestore'.torn = r.torn
            /\ bRestore'.at = "undo" /\ bRestore'.i \in r.plan /\ bRestore'.i <= last
            /\ \A k \in r.plan : k <= last => k <= bRestore'.i
<1> DEFINE applied == {k \in r.plan : k <= last}
<1>1. r.plan \in SUBSET DOMAIN Targets
  BY DEF Restores
<1>2. CASE applied = {}
  <2>1. Restore!Outcome("failed")
    BY <1>2 DEF Restore!RollBack
  <2>2. \A k \in r.plan : k > last
    BY <1>1, <1>2, TargetFacts
  <2> QED
    BY <2>1, <2>2
<1>3. CASE applied # {}
  <2>1. PICK j : j = Restore!Max(applied)
    OBVIOUS
  <2>2. applied \in SUBSET DOMAIN Targets
    BY <1>1
  <2>3. j \in applied /\ \A k \in applied : k <= j
    <3> HIDE DEF applied
    <3> QED
      BY <1>3, <2>1, <2>2, PositionFacts
  <2>4. bRestore' = [r EXCEPT !.at = "undo", !.i = j] /\ bEvents' = bEvents
    BY <1>3, <2>1 DEF Restore!RollBack
  <2>5. j \in r.plan /\ j <= last /\ j \in DOMAIN Targets /\ \A k \in r.plan : k <= last => k <= j
    BY <1>1, <2>3
  <2> HIDE DEF applied
  <2> QED
    BY <1>1, <2>4, <2>5 DEF Restores, Backwards
<1> QED
  BY <1>2, <1>3

\* What a restore keeps as it moves on.
SameRestore(t, r) ==
    /\ t.id = r.id /\ t.plan = r.plan /\ t.present = r.present /\ t.staged = r.staged /\ t.saved = r.saved
    /\ t.before = r.before /\ t.written = r.written

LEMMA SameRestoreFacts ==
  ASSUME NEW r, NEW t, SameRestore(t, r)
  PROVE  /\ Unwritten(t) = Unwritten(r)
         /\ \A k : CopiesKept(t, k) <=> CopiesKept(r, k)
         /\ \A f, content, done : Come(t, f, content, done) <=> Come(r, f, content, done)
<1>1. Unwritten(t) = Unwritten(r)
  BY DEF SameRestore, Unwritten
<1> QED
  BY <1>1, Zenon DEF SameRestore, CopiesKept, Come

\* A target that is as it was staged: the restore goes on to the next, or to its end.
LEMMA TargetCame ==
  ASSUME NEW r \in Restores, r.at \in {"clear", "move"}, NEW files, NEW after, RestoreSound(r, files),
         \A f \in Unwritten(r) : after[f] = IF f \in Holds[Targets[r.i]] THEN r.staged[Targets[r.i]][f] ELSE files[f],
         NEW t, t = Restore!OnTo(r, "clear", "persist")
  PROVE  t \in Restores /\ RestoreSound(t, after)
<1>1. /\ r.id \in Restore!Ids /\ r.i \in r.plan /\ r.torn = {}
      /\ \A k \in r.plan : CopiesKept(r, k)
      /\ \A f \in Unwritten(r) : f \in Holds[Targets[r.i]] \/ Come(r, f, files[f], Done(r))
  BY DEF RestoreSound, Forwards, Backwards, AtTarget
<1>2. r \in Restores /\ "persist" \in Forwards /\ "clear" \in {"stage", "clear"}
  BY DEF Forwards
<1>3. /\ t \in Restores /\ SameRestore(t, r) /\ t.torn = r.torn /\ t.i \in r.plan
      /\ \/ t.at = "persist" /\ \A k \in r.plan : k <= r.i /\ t.i <= k
         \/ t.at = "clear" /\ t.i > r.i /\ \A k \in r.plan : k < t.i => k <= r.i
  BY <1>1, <1>2, OnToFacts DEF SameRestore
<1>4. r.plan \in SUBSET DOMAIN Targets /\ r.i \in DOMAIN Targets /\ t.i \in DOMAIN Targets
  BY <1>3 DEF Restores
<1>5. Done(t) = Done(r) \cup {r.i}
  <2>1. Done(r) = {k \in r.plan : k < r.i}
    BY Zenon DEF Done
  <2>2. Done(t) = {k \in r.plan : k <= r.i}
    <3>1. CASE t.at = "persist"
      BY <1>3, <3>1 DEF Done, SameRestore
    <3>2. CASE t.at = "clear"
      <4>1. Done(t) = {k \in r.plan : k < t.i}
        BY <1>3, <3>2 DEF Done, SameRestore
      <4>2. t.i > r.i /\ \A k \in r.plan : k < t.i => k <= r.i
        BY <1>3, <3>2
      <4> QED
        BY <1>4, <4>1, <4>2, TargetFacts
    <3> QED
      BY <1>3, <3>1, <3>2
  <2>3. \A k \in r.plan : k \in Nat
    BY <1>4, TargetFacts
  <2> QED
    BY <1>1, <2>1, <2>2, <2>3
<1>6. \A f \in Unwritten(r) : Come(r, f, after[f], Done(t))
  <2> TAKE f \in Unwritten(r)
  <2>1. CASE f \in Holds[Targets[r.i]]
    <3>1. r.i \in Done(t) /\ after[f] = r.staged[Targets[r.i]][f]
      BY <1>5, <2>1
    <3>2. HeldBy(f, Done(t))
      BY <2>1, <3>1, Zenon DEF HeldBy
    <3>3. \E k \in Done(t) : f \in Holds[Targets[k]] /\ after[f] = r.staged[Targets[k]][f]
      BY <2>1, <3>1, Zenon
    <3> QED
      BY <3>2, <3>3, Zenon DEF Come
  <2>2. CASE f \notin Holds[Targets[r.i]]
    <3>1. after[f] = files[f] /\ Come(r, f, files[f], Done(r))
      BY <1>1, <2>2
    <3>2. HeldBy(f, Done(t)) <=> HeldBy(f, Done(r))
      BY <1>5, <2>2, Zenon DEF HeldBy
    <3>3. CASE HeldBy(f, Done(r))
      <4>1. PICK k \in Done(r) : f \in Holds[Targets[k]] /\ files[f] = r.staged[Targets[k]][f]
        BY <3>1, <3>3, Zenon DEF Come
      <4>2. k \in Done(t)
        BY <1>5, <4>1
      <4> QED
        BY <3>1, <3>2, <3>3, <4>1, <4>2, Zenon DEF Come
    <3>4. CASE ~HeldBy(f, Done(r))
      BY <3>1, <3>2, <3>4, Zenon DEF Come
    <3> QED
      BY <3>3, <3>4
  <2> QED
    BY <2>1, <2>2
<1>7. /\ Unwritten(t) = Unwritten(r)
      /\ \A k : CopiesKept(t, k) <=> CopiesKept(r, k)
      /\ \A f, content, done : Come(t, f, content, done) <=> Come(r, f, content, done)
  BY <1>3, SameRestoreFacts, Zenon
<1>8. t.at \in Forwards /\ t.at \notin Backwards /\ t.at \notin {"validate", "stage"} /\ t.at \notin {"move", "putback"}
  BY <1>3 DEF Forwards, Backwards
<1>9. t.id \in Restore!Ids /\ t.i \in t.plan /\ t.torn = {} /\ t.plan = r.plan
  BY <1>1, <1>3 DEF SameRestore
<1>10. \A k \in t.plan : CopiesKept(t, k)
  BY <1>1, <1>7, <1>9
<1>11. \A f \in Unwritten(t) : ~AtTarget(t, f) /\ Come(t, f, after[f], Done(t))
  BY <1>6, <1>7, <1>8 DEF AtTarget
<1> QED
  BY <1>3, <1>8, <1>9, <1>10, <1>11, Zenon DEF RestoreSound

\* A restore turned back, or that goes on undoing: what is left to undo is what is not as it was.
LEMMA TurnedBack ==
  ASSUME RestoreInv, NEW r \in Restores, NEW last \in Nat, NEW after, Restore!RollBack(r, last),
         r.id \in Restore!Ids, \A k \in r.plan : k <= last => \A j \in r.plan : CopiesKept(r, j),
         \A f \in Unwritten(r) :
            (\E k \in r.plan : k <= last /\ f \in Holds[Targets[k]]) \/ ~Spared(r, f) \/ after[f] = r.before[f]
  PROVE  /\ bRestore' \in Restores /\ RestoreSound(bRestore', after)
         /\ bEvents' \in Seq({"restored", "dry-run", "failed"})
<1>1. CASE Restore!Outcome("failed")
  <2>1. "failed" \in {"restored", "dry-run", "failed"}
    OBVIOUS
  <2>2. /\ bRestore' = Restore!NoRestore /\ bRestore' \in Restores
        /\ bEvents' \in Seq({"restored", "dry-run", "failed"})
    BY <1>1, <2>1, OutcomeFacts
  <2> QED
    BY <2>2, RestoreEnded
<1>2. CASE ~Restore!Outcome("failed")
  <2>1. /\ bEvents' = bEvents /\ bRestore' \in Restores /\ SameRestore(bRestore', r) /\ bRestore'.torn = r.torn
        /\ bRestore'.at = "undo" /\ bRestore'.i \in r.plan /\ bRestore'.i <= last
        /\ \A k \in r.plan : k <= last => k <= bRestore'.i
    BY <1>2, RollBackFacts DEF SameRestore
  <2>2. PICK t : t = bRestore'
    OBVIOUS
  <2>3. /\ SameRestore(t, r) /\ t.torn = r.torn /\ t.at = "undo" /\ t.i \in r.plan /\ t.i <= last
        /\ \A k \in r.plan : k <= last => k <= t.i
    BY <2>1, <2>2
  <2>4. /\ Unwritten(t) = Unwritten(r)
        /\ \A k : CopiesKept(t, k) <=> CopiesKept(r, k)
    BY <2>3, SameRestoreFacts, Zenon
  <2>5. t.id \in Restore!Ids /\ t.i \in t.plan /\ t.plan = r.plan /\ t.before = r.before
    BY <2>3 DEF SameRestore
  <2>6. \A k \in t.plan : CopiesKept(t, k)
    BY <2>3, <2>4, <2>5
  <2>7. t.at \in Backwards /\ t.at \notin Forwards /\ t.at \notin {"validate", "stage"} /\ t.at \notin {"move", "putback"}
    BY <2>3 DEF Forwards, Backwards
  <2>8. \A f \in Unwritten(t) : ~AtTarget(t, f) /\ (HeldBy(f, ToUndo(t)) \/ ~Spared(t, f) \/ after[f] = t.before[f])
    <3> TAKE f \in Unwritten(t)
    <3>1. ~AtTarget(t, f)
      BY <2>7 DEF AtTarget
    <3>2. Spared(t, f) <=> Spared(r, f)
      BY <2>3, Zenon DEF Spared
    <3>3. CASE \E k \in r.plan : k <= last /\ f \in Holds[Targets[k]]
      <4>1. PICK k \in r.plan : k <= last /\ f \in Holds[Targets[k]]
        BY <3>3
      <4>2. k \in ToUndo(t)
        BY <2>3, <2>5, <4>1 DEF ToUndo
      <4> QED
        BY <3>1, <4>1, <4>2, Zenon DEF HeldBy
    <3>4. CASE ~\E k \in r.plan : k <= last /\ f \in Holds[Targets[k]]
      BY <2>4, <2>5, <3>1, <3>2, <3>4
    <3> QED
      BY <3>3, <3>4
  <2>9. RestoreSound(t, after)
    BY <2>3, <2>5, <2>6, <2>7, <2>8, Zenon DEF RestoreSound
  <2> QED
    BY <2>1, <2>2, <2>9, RestoreFacts
<1> QED
  BY <1>1, <1>2

LEMMA TargetOfRestore ==
  ASSUME RestoreInv, bRestore.at # "none"
  PROVE  /\ Restore!Target = Targets[bRestore.i] /\ Restore!Target \in Restore!TargetSet
         /\ bRestore.i \in bRestore.plan /\ bRestore.id \in Restore!Ids
         /\ bRestore.plan \in SUBSET DOMAIN Targets /\ \A k \in bRestore.plan : k \in Nat /\ 1 <= k /\ k <= Len(Targets)
         /\ bRestore.saved[Restore!Target] \in LiveContents /\ bRestore.staged[Restore!Target] \in LiveContents
         /\ bRestore.before \in LiveContents
<1>1. /\ bRestore \in Restores /\ bRestore.i \in bRestore.plan /\ bRestore.id \in Restore!Ids
  BY RestoreFacts DEF RestoreSound
<1>2. bRestore.i \in DOMAIN Targets /\ bRestore.plan \in SUBSET DOMAIN Targets
  BY <1>1 DEF Restores
<1>3. Restore!Target = Targets[bRestore.i] /\ Restore!Target \in Restore!TargetSet
  BY <1>2, TargetFacts DEF Restore!Target
<1>4. /\ bRestore.saved[Restore!Target] \in LiveContents /\ bRestore.staged[Restore!Target] \in LiveContents
      /\ bRestore.before \in LiveContents
  BY <1>1, <1>3 DEF Restores, TargetCopies
<1> QED
  BY <1>1, <1>2, <1>3, <1>4, TargetFacts

LEMMA ValidateStep == ASSUME RestoreInv, Restore!Validate PROVE RestoreInv'
<1>1. /\ bRestore.at = "validate" /\ bLive' = bLive /\ bSnap' = bSnap /\ bRows' = bRows /\ bJob' = bJob /\ bMoves' = bMoves
  BY DEF Restore!Validate
<1>2. CASE \E outcome \in {"failed", "dry-run"} : Restore!Outcome(outcome)
  <2>1. bRestore' \in Restores /\ RestoreSound(bRestore', bLive') /\ bEvents' \in Seq({"restored", "dry-run", "failed"})
    BY <1>2, OutcomeFacts, RestoreEnded
  <2> QED
    BY <1>1, <2>1, RestoreFacts, RestoreMoves
<1>3. CASE ~\E outcome \in {"failed", "dry-run"} : Restore!Outcome(outcome)
  <2> DEFINE here == {t \in Restore!TargetSet : Restore!Exists(bSnap[bRestore.id].sums[t], t)}
  <2>1. bRestore' = [bRestore EXCEPT !.at = "stage", !.present = here] /\ bEvents' = bEvents
    BY <1>3 DEF Restore!Validate
  <2>2. here \in SUBSET Restore!TargetSet
    OBVIOUS
  <2> HIDE DEF here
  <2>3. PICK r : r = bRestore
    OBVIOUS
  <2>4. PICK t : t = [r EXCEPT !.at = "stage", !.present = here]
    OBVIOUS
  <2>5. /\ t \in Restores /\ t.at = "stage" /\ t.id = r.id /\ t.i = r.i /\ t.plan = r.plan /\ t.torn = r.torn
        /\ t.before = r.before /\ t.written = r.written
    BY <2>2, <2>3, <2>4, RestoreFacts DEF Restores
  <2>6. /\ r.id \in Restore!Ids /\ r.i \in r.plan /\ r.torn = {}
        /\ \A k \in r.plan : r.i <= k
        /\ \A f \in Unwritten(r) : bLive[f] = r.before[f]
    BY <1>1, <2>3, RestoreFacts DEF RestoreSound, AtTarget, Backwards
  <2>7. Unwritten(t) = Unwritten(r)
    BY <2>5 DEF Unwritten
  <2>8. \A k \in t.plan : ~(k < t.i)
    BY <2>3, <2>5, <2>6, <1>1, TargetOfRestore
  <2>9. t.at \notin Forwards \cup Backwards
    BY <2>5 DEF Forwards, Backwards
  <2>10. RestoreSound(t, bLive)
    BY <2>5, <2>6, <2>7, <2>8, <2>9 DEF RestoreSound, AtTarget
  <2> QED
    BY <1>1, <2>1, <2>3, <2>4, <2>5, <2>10, RestoreFacts, RestoreMoves
<1> QED
  BY <1>2, <1>3

LEMMA StageTargetStep == ASSUME RestoreInv, Restore!StageTarget PROVE RestoreInv'
<1> DEFINE T == Targets[bRestore.i]
           copy == Restore!Part(bLive, T)
           coming == IF Restore!InSnapshot(T) THEN Restore!Part(bSnap[bRestore.id].tree, T) ELSE Restore!Nothing
<1>1. /\ bRestore.at = "stage" /\ bLive' = bLive /\ bSnap' = bSnap /\ bRows' = bRows /\ bJob' = bJob
      /\ bMoves' = bMoves /\ bEvents' = bEvents
      /\ bRestore' = Restore!OnTo([bRestore EXCEPT !.saved[T] = copy, !.staged[T] = coming], "stage", "clear")
  BY DEF Restore!StageTarget, Restore!Target
<1>2. /\ T \in Restore!TargetSet /\ bRestore.i \in bRestore.plan /\ bRestore.id \in Restore!Ids
      /\ bRestore \in Restores /\ bLive \in LiveContents
      /\ bRestore.i \in Nat /\ bRestore.plan \in SUBSET DOMAIN Targets /\ \A k \in bRestore.plan : k \in Nat
  BY <1>1, TargetOfRestore, RestoreFacts
<1>3. copy \in LiveContents /\ \A f \in Restore!LiveFiles : f \in Holds[T] => copy[f] = bLive[f]
  BY <1>2, FileFacts
<1>4. bSnap[bRestore.id].tree \in LiveContents
  BY <1>2, RestoreFacts DEF LocalSnapshots
<1>5. coming \in LiveContents /\ (T \notin bRestore.present => \A f \in Restore!LiveFiles : coming[f] = 0)
  BY <1>2, <1>4, FileFacts, StartFacts DEF Restore!InSnapshot
<1>6. PICK r : r = bRestore
  OBVIOUS
<1>7. PICK c, d : c = copy /\ d = coming
  OBVIOUS
<1>8. PICK u : u = T
  OBVIOUS
<1> HIDE DEF T, copy, coming
<1>9. PICK s : s = [r EXCEPT !.saved[u] = c, !.staged[u] = d]
  OBVIOUS
<1>10. /\ s \in Restores /\ s.at = r.at /\ s.i = r.i /\ s.id = r.id /\ s.plan = r.plan /\ s.before = r.before
       /\ s.present = r.present /\ s.written = r.written /\ s.torn = r.torn
       /\ s.saved = [r.saved EXCEPT ![u] = c] /\ s.staged = [r.staged EXCEPT ![u] = d]
  BY <1>2, <1>3, <1>5, <1>6, <1>7, <1>8, <1>9 DEF Restores, TargetCopies
<1>11. /\ r.torn = {}
       /\ \A k \in r.plan : k < r.i => CopiesKept(r, k)
       /\ \A f \in Unwritten(r) : bLive[f] = r.before[f]
  BY <1>1, <1>6, RestoreFacts DEF RestoreSound, AtTarget, Backwards
<1>12. \A k \in r.plan : k <= r.i => CopiesKept(s, k)
  <2> TAKE k \in r.plan
  <2> HAVE k <= r.i
  <2>1. CASE k = r.i
    <3>1. s.saved[u] = c /\ s.staged[u] = d /\ u = Targets[k]
      BY <1>2, <1>6, <1>8, <1>10, <2>1 DEF T, Restores, TargetCopies
    <3>2. Unwritten(s) = Unwritten(r) /\ Unwritten(r) \subseteq Restore!LiveFiles
      BY <1>10 DEF Unwritten
    <3>3. \A f \in Unwritten(s) \cap Holds[u] : s.saved[u][f] = s.before[f]
      BY <1>3, <1>7, <1>8, <1>10, <1>11, <3>1, <3>2
    <3>4. Holds[u] \subseteq Restore!LiveFiles
      BY <1>2, <1>8, TargetFacts
    <3>5. u \notin s.present => \A f \in Holds[u] : s.staged[u][f] = Restore!Absent
      BY <1>5, <1>6, <1>7, <1>8, <1>10, <3>1, <3>4, StartFacts
    <3> QED
      BY <3>1, <3>3, <3>5 DEF CopiesKept
  <2>2. CASE k # r.i
    <3>1. k < r.i /\ k \in DOMAIN Targets /\ r.i \in DOMAIN Targets
      BY <1>2, <1>6, <2>2
    <3>2. Targets[k] # u /\ Targets[k] \in Restore!TargetSet
      BY <1>6, <1>8, <2>2, <3>1, TargetFacts DEF T
    <3>3. s.saved[Targets[k]] = r.saved[Targets[k]] /\ s.staged[Targets[k]] = r.staged[Targets[k]]
      BY <1>2, <1>6, <1>10, <3>2 DEF Restores, TargetCopies
    <3>4. CopiesKept(r, k)
      BY <1>11, <3>1
    <3> QED
      BY <1>10, <3>3, <3>4 DEF CopiesKept, Unwritten
  <2> QED
    BY <2>1, <2>2
<1>13. PICK t : t = Restore!OnTo(s, "stage", "clear")
  OBVIOUS
<1>14. /\ t \in Restores /\ SameRestore(t, s) /\ t.torn = s.torn /\ t.i \in s.plan
       /\ \/ t.at = "clear" /\ \A k \in s.plan : k <= s.i /\ t.i <= k
          \/ t.at = "stage" /\ t.i > s.i /\ \A k \in s.plan : k < t.i => k <= s.i
  <2>1. "clear" \in Forwards /\ "stage" \in {"stage", "clear"} /\ s.i \in s.plan
    BY <1>2, <1>6, <1>10 DEF Forwards
  <2> QED
    BY <1>10, <1>13, <2>1, OnToFacts DEF SameRestore
<1>15. /\ Unwritten(t) = Unwritten(s) /\ Unwritten(s) = Unwritten(r)
       /\ \A k : CopiesKept(t, k) <=> CopiesKept(s, k)
       /\ \A f, content, done : Come(t, f, content, done) <=> Come(s, f, content, done)
  BY <1>10, <1>14, SameRestoreFacts, Zenon DEF Unwritten
<1>16. /\ t.id \in Restore!Ids /\ t.i \in t.plan /\ t.torn = {} /\ t.plan = r.plan /\ t.before = r.before
  BY <1>2, <1>6, <1>10, <1>11, <1>14 DEF SameRestore
<1>17. \A k \in t.plan : t.at = "clear" \/ k < t.i => CopiesKept(t, k)
  BY <1>10, <1>12, <1>14, <1>15, <1>16
<1>18. \A f \in Unwritten(t) : ~AtTarget(t, f) /\ bLive[f] = t.before[f]
  BY <1>11, <1>14, <1>15, <1>16 DEF AtTarget
<1>19. t.at = "clear" => \A f \in Unwritten(t) : Come(t, f, bLive[f], Done(t))
  <2> SUFFICES ASSUME t.at = "clear", NEW f \in Unwritten(t) PROVE Come(t, f, bLive[f], Done(t))
    OBVIOUS
  <2>1. \A k \in t.plan : ~(k < t.i)
    BY <1>2, <1>6, <1>10, <1>14, <1>16
  <2>2. Done(t) = {}
    BY <2>1 DEF Done
  <2>3. ~HeldBy(f, Done(t))
    BY <2>2 DEF HeldBy
  <2> QED
    BY <1>18, <2>3, Zenon DEF Come
<1>20. t.at \notin Backwards /\ t.at # "validate" /\ t.at # "none" /\ (t.at \in Forwards <=> t.at = "clear")
  BY <1>14 DEF Backwards, Forwards
<1>21. RestoreSound(t, bLive)
  BY <1>16, <1>17, <1>18, <1>19, <1>20, Zenon DEF RestoreSound
<1>22. bRestore' = t
  BY <1>1, <1>6, <1>7, <1>8, <1>9, <1>13, Zenon
<1> QED
  BY <1>1, <1>14, <1>21, <1>22, RestoreFacts, RestoreMoves

LEMMA StagingMissesStep == ASSUME RestoreInv, Restore!StagingMisses PROVE RestoreInv'
<1>1. /\ bRestore.at = "stage" /\ bLive' = bLive /\ bSnap' = bSnap /\ bRows' = bRows /\ bJob' = bJob /\ bMoves' = bMoves
      /\ Restore!RollBack(bRestore, 0)
  BY DEF Restore!StagingMisses
<1>2. \A k \in bRestore.plan : ~(k <= 0)
  BY <1>1, TargetOfRestore
<1>3. \A f \in Unwritten(bRestore) : bLive'[f] = bRestore.before[f]
  BY <1>1, RestoreFacts DEF RestoreSound, AtTarget
<1>4. bRestore \in Restores /\ bRestore.id \in Restore!Ids
  BY <1>1, TargetOfRestore, RestoreFacts
<1>5. /\ bRestore' \in Restores /\ RestoreSound(bRestore', bLive')
      /\ bEvents' \in Seq({"restored", "dry-run", "failed"})
  BY <1>1, <1>2, <1>3, <1>4, TurnedBack
<1> QED
  BY <1>1, <1>5, RestoreFacts, RestoreMoves

LEMMA ClearTargetStep == ASSUME RestoreInv, Restore!ClearTarget PROVE RestoreInv'
<1> DEFINE T == Targets[bRestore.i]
<1>1. /\ bRestore.at = "clear" /\ bSnap' = bSnap /\ bRows' = bRows /\ bJob' = bJob /\ bMoves' = bMoves
      /\ bEvents' = bEvents /\ bLive' = Restore!Without(bLive, T)
      /\ bRestore' = IF T \in bRestore.present THEN [bRestore EXCEPT !.at = "move"]
                     ELSE Restore!OnTo(bRestore, "clear", "persist")
  BY DEF Restore!ClearTarget, Restore!Target, Restore!InSnapshot
<1>2. /\ T \in Restore!TargetSet /\ bRestore.i \in bRestore.plan /\ bRestore.id \in Restore!Ids
      /\ bRestore \in Restores /\ bLive \in LiveContents /\ RestoreSound(bRestore, bLive)
  BY <1>1, TargetOfRestore, RestoreFacts
<1>3. /\ bLive' \in LiveContents
      /\ \A f \in Restore!LiveFiles : bLive'[f] = IF f \in Holds[T] THEN 0 ELSE bLive[f]
  <2>1. bLive' = Restore!Without(bLive, T)
    BY <1>1
  <2>2. /\ Restore!Without(bLive, T) \in LiveContents
        /\ \A f \in Restore!LiveFiles : Restore!Without(bLive, T)[f] = IF f \in Holds[T] THEN 0 ELSE bLive[f]
    BY <1>2, FileFacts, Zenon
  <2> QED
    BY <2>1, <2>2
<1>4. PICK r : r = bRestore
  OBVIOUS
<1>5. /\ r.torn = {} /\ \A k \in r.plan : CopiesKept(r, k)
      /\ \A f \in Unwritten(r) : Come(r, f, bLive[f], Done(r))
  BY <1>1, <1>2, <1>4 DEF RestoreSound, AtTarget, Forwards, Backwards
<1>6. CASE T \in bRestore.present
  <2>1. PICK t : t = [r EXCEPT !.at = "move"]
    OBVIOUS
  <2>2. t \in Restores /\ SameRestore(t, r) /\ t.at = "move" /\ t.i = r.i /\ t.torn = r.torn
    BY <1>2, <1>4, <2>1 DEF Restores, SameRestore, Forwards
  <2>3. /\ Unwritten(t) = Unwritten(r)
        /\ \A k : CopiesKept(t, k) <=> CopiesKept(r, k)
        /\ \A f, content, done : Come(t, f, content, done) <=> Come(r, f, content, done)
    BY <2>2, SameRestoreFacts, Zenon
  <2>4. Done(t) = Done(r)
    BY <1>1, <1>4, <2>2 DEF Done, SameRestore
  <2>5. \A f \in Unwritten(t) : IF AtTarget(t, f) THEN bLive'[f] = Restore!Absent ELSE Come(t, f, bLive'[f], Done(t))
    <3> TAKE f \in Unwritten(t)
    <3>1. f \in Restore!LiveFiles
      BY DEF Unwritten
    <3>2. AtTarget(t, f) <=> f \in Holds[T]
      BY <1>4, <2>2 DEF AtTarget
    <3> HIDE DEF T
    <3>3. CASE f \in Holds[T]
      BY <1>3, <3>1, <3>2, <3>3, StartFacts
    <3>4. CASE f \notin Holds[T]
      <4>1. bLive'[f] = bLive[f] /\ Come(r, f, bLive[f], Done(r))
        BY <1>3, <1>5, <2>3, <3>1, <3>4
      <4> QED
        BY <2>3, <2>4, <3>2, <3>4, <4>1
    <3> QED
      BY <3>3, <3>4
  <2>6. t.id \in Restore!Ids /\ t.i \in t.plan /\ t.torn = {} /\ \A k \in t.plan : CopiesKept(t, k)
    BY <1>2, <1>4, <1>5, <2>2, <2>3 DEF SameRestore
  <2>7. t.at \notin Backwards /\ t.at \notin {"validate", "stage"}
    BY <2>2 DEF Backwards
  <2>8. RestoreSound(t, bLive')
    BY <2>5, <2>6, <2>7, Zenon DEF RestoreSound
  <2>9. bRestore' = t
    BY <1>1, <1>4, <1>6, <2>1, Zenon
  <2> QED
    BY <1>1, <1>3, <2>2, <2>8, <2>9, RestoreFacts, RestoreMoves
<1>7. CASE T \notin bRestore.present
  <2>1. \A f \in Unwritten(r) : bLive'[f] = IF f \in Holds[Targets[r.i]] THEN r.staged[Targets[r.i]][f] ELSE bLive[f]
    <3> TAKE f \in Unwritten(r)
    <3>1. f \in Restore!LiveFiles
      BY DEF Unwritten
    <3>2. CopiesKept(r, r.i)
      BY <1>2, <1>4, <1>5
    <3>3. f \in Holds[T] => r.staged[T][f] = 0
      BY <1>4, <1>7, <3>2, StartFacts DEF CopiesKept
    <3> QED
      BY <1>3, <1>4, <3>1, <3>3
  <2>2. PICK t : t = Restore!OnTo(r, "clear", "persist")
    OBVIOUS
  <2>3. r \in Restores /\ r.at \in {"clear", "move"} /\ RestoreSound(r, bLive)
    BY <1>1, <1>2, <1>4
  <2>4. t \in Restores /\ RestoreSound(t, bLive')
    BY <2>1, <2>2, <2>3, TargetCame
  <2>5. bRestore' = t
    BY <1>1, <1>4, <1>7, <2>2, Zenon
  <2> QED
    BY <1>1, <1>3, <2>4, <2>5, RestoreFacts, RestoreMoves
<1> QED
  BY <1>6, <1>7

LEMMA MoveTargetStep == ASSUME RestoreInv, Restore!MoveTarget PROVE RestoreInv'
<1> DEFINE T == Targets[bRestore.i]
<1>1. /\ bRestore.at = "move" /\ bSnap' = bSnap /\ bRows' = bRows /\ bJob' = bJob /\ bMoves' = bMoves
      /\ bEvents' = bEvents /\ bLive' = Restore!CopiedOver(bLive, T, bRestore.staged[T])
      /\ bRestore' = Restore!OnTo(bRestore, "clear", "persist")
  BY DEF Restore!MoveTarget, Restore!Target
<1>2. /\ T \in Restore!TargetSet /\ bRestore.staged[T] \in LiveContents
      /\ bRestore \in Restores /\ bLive \in LiveContents /\ RestoreSound(bRestore, bLive)
  BY <1>1, TargetOfRestore, RestoreFacts
<1>3. /\ bLive' \in LiveContents
      /\ \A f \in Restore!LiveFiles :
           bLive'[f] = IF f \in Holds[T] /\ bRestore.staged[T][f] # 0 THEN bRestore.staged[T][f] ELSE bLive[f]
  BY <1>1, <1>2, CopyFacts, Zenon
<1>4. \A f \in Unwritten(bRestore) : f \in Holds[T] => bLive[f] = 0
  BY <1>1, <1>2, StartFacts DEF RestoreSound, AtTarget
<1>5. PICK r : r = bRestore
  OBVIOUS
<1>6. \A f \in Unwritten(r) : bLive'[f] = IF f \in Holds[Targets[r.i]] THEN r.staged[Targets[r.i]][f] ELSE bLive[f]
  BY <1>3, <1>4, <1>5 DEF Unwritten
<1>7. PICK t : t = Restore!OnTo(r, "clear", "persist")
  OBVIOUS
<1>8. r \in Restores /\ r.at \in {"clear", "move"} /\ RestoreSound(r, bLive)
  BY <1>1, <1>2, <1>5
<1>9. t \in Restores /\ RestoreSound(t, bLive')
  BY <1>6, <1>7, <1>8, TargetCame
<1> QED
  BY <1>1, <1>3, <1>5, <1>7, <1>9, RestoreFacts, RestoreMoves

LEMMA PersistRestoredStep == ASSUME RestoreInv, Restore!PersistRestored PROVE RestoreInv'
<1>1. /\ bRestore.at = "persist" /\ bLive' = bLive /\ bSnap' = bSnap /\ bRows' = bRows /\ bJob' = bJob /\ bMoves' = bMoves
      /\ Restore!Outcome("restored")
  BY DEF Restore!PersistRestored
<1>2. bRestore' \in Restores /\ RestoreSound(bRestore', bLive') /\ bEvents' \in Seq({"restored", "dry-run", "failed"})
  BY <1>1, OutcomeFacts, RestoreEnded
<1> QED
  BY <1>1, <1>2, RestoreFacts, RestoreMoves

LEMMA RollBackFailsStep == ASSUME RestoreInv, Restore!RollBackFails PROVE RestoreInv'
<1>1. /\ bRestore.at \in {"undo", "putback"} /\ bLive' = bLive /\ bSnap' = bSnap /\ bRows' = bRows /\ bJob' = bJob
      /\ bMoves < MaxEvents /\ bMoves' = bMoves + 1 /\ bEvents' = bEvents /\ bRestore' = Restore!NoRestore
  BY DEF Restore!RollBackFails
<1>2. bMoves' \in 0 .. MaxEvents
  BY <1>1, RestoreFacts, StateFilesAssumption
<1>3. bRestore' \in Restores /\ RestoreSound(bRestore', bLive')
  BY <1>1, StartFacts, RestoreEnded
<1> QED
  BY <1>1, <1>2, <1>3, RestoreFacts, RestoreMoves

LEMMA RestoreFailsStep == ASSUME RestoreInv, Restore!RestoreFails PROVE RestoreInv'
<1> DEFINE T == Targets[bRestore.i]
<1>1. /\ bRestore.at \in {"stage", "clear", "move", "persist"}
      /\ bSnap' = bSnap /\ bRows' = bRows /\ bJob' = bJob /\ bMoves < MaxEvents /\ bMoves' = bMoves + 1
      /\ bLive' \in {bLive, Restore!Without(bLive, T)} /\ (bRestore.at # "clear" => bLive' = bLive)
      /\ bRestore.at = "stage" => Restore!RollBack(bRestore, 0)
      /\ bRestore.at = "persist" => Restore!RollBack(bRestore, Len(Targets))
      /\ bRestore.at \in {"clear", "move"} => Restore!RollBack([bRestore EXCEPT !.torn = {T}], bRestore.i - 1)
  BY DEF Restore!RestoreFails, Restore!Target
<1>2. bMoves' \in 0 .. MaxEvents
  BY <1>1, RestoreFacts, StateFilesAssumption
<1>3. /\ T \in Restore!TargetSet /\ bRestore.i \in bRestore.plan /\ bRestore.id \in Restore!Ids
      /\ bRestore \in Restores /\ bLive \in LiveContents /\ RestoreSound(bRestore, bLive)
      /\ \A k \in bRestore.plan : k \in Nat /\ 1 <= k /\ k <= Len(Targets)
  BY <1>1, TargetOfRestore, RestoreFacts
<1>4. /\ bLive' \in LiveContents
      /\ \A f \in Restore!LiveFiles : bLive'[f] = bLive[f] \/ (bRestore.at = "clear" /\ f \in Holds[T])
  <2>1. CASE bLive' = bLive
    BY <1>3, <2>1
  <2>2. CASE bLive' # bLive
    <3>1. bLive' = Restore!Without(bLive, T) /\ bRestore.at = "clear"
      BY <1>1, <2>2
    <3>2. /\ Restore!Without(bLive, T) \in LiveContents
          /\ \A f \in Restore!LiveFiles : Restore!Without(bLive, T)[f] = IF f \in Holds[T] THEN 0 ELSE bLive[f]
      BY <1>3, FileFacts, Zenon
    <3> QED
      BY <3>1, <3>2
  <2> QED
    BY <2>1, <2>2
<1>5. CASE bRestore.at = "stage"
  <2>1. \A k \in bRestore.plan : ~(k <= 0)
    BY <1>3
  <2>2. \A f \in Unwritten(bRestore) : bLive'[f] = bRestore.before[f]
    BY <1>1, <1>3, <1>5 DEF RestoreSound, AtTarget
  <2>3. /\ bRestore' \in Restores /\ RestoreSound(bRestore', bLive')
        /\ bEvents' \in Seq({"restored", "dry-run", "failed"})
    BY <1>1, <1>3, <1>5, <2>1, <2>2, TurnedBack
  <2> QED
    BY <1>1, <1>2, <1>4, <1>5, <2>3, RestoreFacts, RestoreMoves
<1>6. CASE bRestore.at = "persist"
  <2>1. /\ \A k \in bRestore.plan : CopiesKept(bRestore, k)
        /\ \A f \in Unwritten(bRestore) : Come(bRestore, f, bLive[f], Done(bRestore))
    BY <1>3, <1>6 DEF RestoreSound, AtTarget, Forwards
  <2>2. \A f \in Unwritten(bRestore) :
          (\E k \in bRestore.plan : k <= Len(Targets) /\ f \in Holds[Targets[k]]) \/ bLive'[f] = bRestore.before[f]
    <3> TAKE f \in Unwritten(bRestore)
    <3>1. HeldBy(f, Done(bRestore)) => \E k \in bRestore.plan : k <= Len(Targets) /\ f \in Holds[Targets[k]]
      BY <1>3 DEF HeldBy, Done
    <3>2. bLive' = bLive
      BY <1>1, <1>6
    <3> QED
      BY <2>1, <3>1, <3>2 DEF Come
  <2>3. Len(Targets) \in Nat
    BY TargetFacts
  <2>4. /\ bRestore' \in Restores /\ RestoreSound(bRestore', bLive')
        /\ bEvents' \in Seq({"restored", "dry-run", "failed"})
    BY <1>1, <1>3, <1>6, <2>1, <2>2, <2>3, TurnedBack
  <2> QED
    BY <1>1, <1>2, <1>4, <1>6, <2>4, RestoreFacts, RestoreMoves
<1>7. CASE bRestore.at \in {"clear", "move"}
  <2>1. /\ \A k \in bRestore.plan : CopiesKept(bRestore, k)
        /\ \A f \in Unwritten(bRestore) : f \in Holds[T] \/ Come(bRestore, f, bLive[f], Done(bRestore))
    BY <1>3, <1>7 DEF RestoreSound, AtTarget, Forwards
  <2>2. PICK r : r = bRestore
    OBVIOUS
  <2>3. PICK u : u = T
    OBVIOUS
  <2>4. PICK s : s = [r EXCEPT !.torn = {u}]
    OBVIOUS
  <2>5. s \in Restores /\ SameRestore(s, r) /\ s.torn = {u}
    BY <1>3, <2>2, <2>3, <2>4 DEF Restores, SameRestore
  <2>6. /\ Unwritten(s) = Unwritten(r) /\ s.plan = r.plan /\ s.id = r.id /\ s.before = r.before
        /\ \A k : CopiesKept(s, k) <=> CopiesKept(r, k)
    BY <2>5, SameRestoreFacts, Zenon DEF SameRestore
  <2>7. r.i - 1 \in Nat
    BY <1>3, <2>2
  <2>8. \A f \in Unwritten(s) :
          (\E k \in s.plan : k <= r.i - 1 /\ f \in Holds[Targets[k]]) \/ ~Spared(s, f) \/ bLive'[f] = s.before[f]
    <3> TAKE f \in Unwritten(s)
    <3>1. f \in Restore!LiveFiles
      BY DEF Unwritten
    <3>2. CASE f \in Holds[u]
      BY <2>5, <3>2 DEF Spared
    <3>3. CASE f \notin Holds[u]
      <4>1. bLive'[f] = bLive[f]
        BY <1>4, <2>3, <3>1, <3>3
      <4>2. Come(r, f, bLive[f], Done(r))
        BY <2>1, <2>2, <2>3, <2>6, <3>3
      <4>3. HeldBy(f, Done(r)) => \E k \in s.plan : k <= r.i - 1 /\ f \in Holds[Targets[k]]
        <5>1. r.at # "persist" /\ \A k \in r.plan : k < r.i => k <= r.i - 1
          BY <1>3, <1>7, <2>2
        <5> QED
          BY <2>6, <5>1 DEF HeldBy, Done
      <4> QED
        BY <2>6, <4>1, <4>2, <4>3 DEF Come
    <3> QED
      BY <3>2, <3>3
  <2>9. Restore!RollBack(s, r.i - 1)
    BY <1>1, <1>7, <2>2, <2>3, <2>4
  <2>10. s.id \in Restore!Ids /\ \A k \in s.plan : CopiesKept(s, k)
    BY <1>3, <2>1, <2>2, <2>6
  <2>11. /\ bRestore' \in Restores /\ RestoreSound(bRestore', bLive')
         /\ bEvents' \in Seq({"restored", "dry-run", "failed"})
    BY <2>5, <2>7, <2>8, <2>9, <2>10, TurnedBack
  <2> QED
    BY <1>1, <1>2, <1>4, <1>7, <2>11, RestoreFacts, RestoreMoves
<1> QED
  BY <1>1, <1>5, <1>6, <1>7

\* What a target put back, or removed for good, leaves to undo: what earlier ones hold.
LEMMA PutBackLeaves ==
  ASSUME RestoreInv, Restore!PutBack
  PROVE  \A f \in Unwritten(bRestore) :
            (\E k \in bRestore.plan : k <= bRestore.i - 1 /\ f \in Holds[Targets[k]])
            \/ ~Spared(bRestore, f) \/ bLive'[f] = bRestore.before[f]
<1> DEFINE T == Targets[bRestore.i]
<1>1. /\ bRestore.at = "putback" /\ bSnap' = bSnap /\ bRows' = bRows /\ bJob' = bJob /\ bMoves' = bMoves
      /\ bLive' = Restore!CopiedOver(bLive, T, bRestore.saved[T])
      /\ Restore!RollBack(bRestore, bRestore.i - 1)
  BY DEF Restore!PutBack, Restore!Target
<1>2. /\ T \in Restore!TargetSet /\ bRestore.saved[T] \in LiveContents /\ bRestore.i \in bRestore.plan
      /\ bRestore \in Restores /\ bLive \in LiveContents /\ RestoreSound(bRestore, bLive)
      /\ bRestore.id \in Restore!Ids /\ \A k \in bRestore.plan : k \in Nat /\ 1 <= k
  BY <1>1, TargetOfRestore, RestoreFacts
<1>3. /\ bLive' \in LiveContents
      /\ \A f \in Restore!LiveFiles :
           bLive'[f] = IF f \in Holds[T] /\ bRestore.saved[T][f] # 0 THEN bRestore.saved[T][f] ELSE bLive[f]
  BY <1>1, <1>2, CopyFacts, Zenon
<1>4. /\ \A k \in bRestore.plan : CopiesKept(bRestore, k)
      /\ \A f \in Unwritten(bRestore) : f \in Holds[T] => bLive[f] = 0
      /\ \A f \in Unwritten(bRestore) :
           f \in Holds[T] \/ HeldBy(f, ToUndo(bRestore)) \/ ~Spared(bRestore, f) \/ bLive[f] = bRestore.before[f]
  BY <1>1, <1>2, StartFacts DEF RestoreSound, AtTarget, Backwards
<1>5. \A f \in Unwritten(bRestore) :
        (\E k \in bRestore.plan : k <= bRestore.i - 1 /\ f \in Holds[Targets[k]])
        \/ ~Spared(bRestore, f) \/ bLive'[f] = bRestore.before[f]
  <2> TAKE f \in Unwritten(bRestore)
  <2>1. f \in Restore!LiveFiles
    BY DEF Unwritten
  <2>2. CASE f \in Holds[T]
    <3>1. CopiesKept(bRestore, bRestore.i)
      BY <1>2, <1>4
    <3>2. bRestore.saved[T][f] = bRestore.before[f]
      BY <2>2, <3>1 DEF CopiesKept
    <3>3. bLive[f] = 0
      BY <1>4, <2>2
    <3> QED
      BY <1>3, <2>1, <2>2, <3>2, <3>3
  <2>3. CASE f \notin Holds[T]
    <3>1. bLive'[f] = bLive[f]
      BY <1>3, <2>1, <2>3
    <3>2. HeldBy(f, ToUndo(bRestore)) => \E k \in bRestore.plan : k <= bRestore.i - 1 /\ f \in Holds[Targets[k]]
      <4>1. \A k \in bRestore.plan : k <= bRestore.i => k = bRestore.i \/ k <= bRestore.i - 1
        BY <1>2
      <4> QED
        BY <2>3, <4>1 DEF HeldBy, ToUndo
    <3> QED
      BY <1>4, <2>3, <3>1, <3>2
  <2> QED
    BY <2>2, <2>3
<1> QED
  BY <1>5

LEMMA PutBackStep == ASSUME RestoreInv, Restore!PutBack PROVE RestoreInv'
<1> DEFINE T == Targets[bRestore.i]
<1>1. /\ bRestore.at = "putback" /\ bSnap' = bSnap /\ bRows' = bRows /\ bJob' = bJob /\ bMoves' = bMoves
      /\ bLive' = Restore!CopiedOver(bLive, T, bRestore.saved[T])
      /\ Restore!RollBack(bRestore, bRestore.i - 1)
  BY DEF Restore!PutBack, Restore!Target
<1>2. /\ T \in Restore!TargetSet /\ bRestore.saved[T] \in LiveContents /\ bRestore.i \in bRestore.plan
      /\ bRestore \in Restores /\ bLive \in LiveContents /\ RestoreSound(bRestore, bLive)
      /\ bRestore.id \in Restore!Ids /\ \A k \in bRestore.plan : k \in Nat /\ 1 <= k
  BY <1>1, TargetOfRestore, RestoreFacts
<1>3. /\ bLive' \in LiveContents
      /\ \A f \in Restore!LiveFiles :
           bLive'[f] = IF f \in Holds[T] /\ bRestore.saved[T][f] # 0 THEN bRestore.saved[T][f] ELSE bLive[f]
  BY <1>1, <1>2, CopyFacts, Zenon
<1>4. \A k \in bRestore.plan : CopiesKept(bRestore, k)
  BY <1>1, <1>2 DEF RestoreSound, Backwards
<1>5. \A f \in Unwritten(bRestore) :
        (\E k \in bRestore.plan : k <= bRestore.i - 1 /\ f \in Holds[Targets[k]])
        \/ ~Spared(bRestore, f) \/ bLive'[f] = bRestore.before[f]
  BY PutBackLeaves
<1>6. bRestore.i - 1 \in Nat
  BY <1>2
<1>7. /\ bRestore' \in Restores /\ RestoreSound(bRestore', bLive')
      /\ bEvents' \in Seq({"restored", "dry-run", "failed"})
  BY <1>1, <1>2, <1>4, <1>5, <1>6, TurnedBack
<1> QED
  BY <1>1, <1>3, <1>7, RestoreFacts, RestoreMoves

LEMMA UndoLeaves ==
  ASSUME RestoreInv, Restore!UndoTarget, ~Restore!Exists(bRestore.saved[Restore!Target], Restore!Target)
  PROVE  \A f \in Unwritten(bRestore) :
            (\E k \in bRestore.plan : k <= bRestore.i - 1 /\ f \in Holds[Targets[k]])
            \/ ~Spared(bRestore, f) \/ bLive'[f] = bRestore.before[f]
<1> DEFINE T == Targets[bRestore.i]
<1>1. /\ bRestore.at = "undo" /\ bSnap' = bSnap /\ bRows' = bRows /\ bJob' = bJob /\ bMoves' = bMoves
      /\ bLive' = Restore!Without(bLive, T)
      /\ IF Restore!Exists(bRestore.saved[T], T)
         THEN bRestore' = [bRestore EXCEPT !.at = "putback"] /\ bEvents' = bEvents
         ELSE Restore!RollBack(bRestore, bRestore.i - 1)
  BY DEF Restore!UndoTarget, Restore!Target
<1>2. /\ T \in Restore!TargetSet /\ bRestore.saved[T] \in LiveContents /\ bRestore.i \in bRestore.plan
      /\ bRestore \in Restores /\ bLive \in LiveContents /\ RestoreSound(bRestore, bLive)
      /\ bRestore.id \in Restore!Ids /\ \A k \in bRestore.plan : k \in Nat /\ 1 <= k
  BY <1>1, TargetOfRestore, RestoreFacts
<1>3. /\ bLive' \in LiveContents
      /\ \A f \in Restore!LiveFiles : bLive'[f] = IF f \in Holds[T] THEN 0 ELSE bLive[f]
  <2>1. bLive' = Restore!Without(bLive, T)
    BY <1>1
  <2>2. /\ Restore!Without(bLive, T) \in LiveContents
        /\ \A f \in Restore!LiveFiles : Restore!Without(bLive, T)[f] = IF f \in Holds[T] THEN 0 ELSE bLive[f]
    BY <1>2, FileFacts, Zenon
  <2> QED
    BY <2>1, <2>2
<1>4. /\ \A k \in bRestore.plan : CopiesKept(bRestore, k)
      /\ \A f \in Unwritten(bRestore) :
           HeldBy(f, ToUndo(bRestore)) \/ ~Spared(bRestore, f) \/ bLive[f] = bRestore.before[f]
  BY <1>1, <1>2 DEF RestoreSound, AtTarget, Backwards
<1>5. ~Restore!Exists(bRestore.saved[T], T)
  BY <1>1, TargetOfRestore
<1>6. ASSUME NEW f \in Unwritten(bRestore)
      PROVE  (\E k \in bRestore.plan : k <= bRestore.i - 1 /\ f \in Holds[Targets[k]])
             \/ ~Spared(bRestore, f) \/ bLive'[f] = bRestore.before[f]
  <2>1. f \in Restore!LiveFiles
    BY DEF Unwritten
  <2>2. CASE f \in Holds[T]
    <3>1. CopiesKept(bRestore, bRestore.i)
      BY <1>2, <1>4
    <3>2. bRestore.saved[T][f] = bRestore.before[f]
      BY <2>2, <3>1 DEF CopiesKept
    <3>3. bRestore.saved[T][f] = 0
      BY <1>2, <1>5, <2>2, ExistsFacts
    <3> QED
      BY <1>3, <2>1, <2>2, <3>2, <3>3
  <2>3. CASE f \notin Holds[T]
    <3>1. bLive'[f] = bLive[f]
      BY <1>3, <2>1, <2>3
    <3>2. HeldBy(f, ToUndo(bRestore)) => \E k \in bRestore.plan : k <= bRestore.i - 1 /\ f \in Holds[Targets[k]]
      <4>1. \A k \in bRestore.plan : k <= bRestore.i => k = bRestore.i \/ k <= bRestore.i - 1
        BY <1>2
      <4> QED
        BY <2>3, <4>1 DEF HeldBy, ToUndo
    <3> QED
      BY <1>4, <3>1, <3>2
  <2> QED
    BY <2>2, <2>3
<1> QED
  BY <1>6

LEMMA UndoTargetStep == ASSUME RestoreInv, Restore!UndoTarget PROVE RestoreInv'
<1> DEFINE T == Targets[bRestore.i]
<1>1. /\ bRestore.at = "undo" /\ bSnap' = bSnap /\ bRows' = bRows /\ bJob' = bJob /\ bMoves' = bMoves
      /\ bLive' = Restore!Without(bLive, T)
      /\ IF Restore!Exists(bRestore.saved[T], T)
         THEN bRestore' = [bRestore EXCEPT !.at = "putback"] /\ bEvents' = bEvents
         ELSE Restore!RollBack(bRestore, bRestore.i - 1)
  BY DEF Restore!UndoTarget, Restore!Target
<1>2. /\ T \in Restore!TargetSet /\ bRestore.saved[T] \in LiveContents /\ bRestore.i \in bRestore.plan
      /\ bRestore \in Restores /\ bLive \in LiveContents /\ RestoreSound(bRestore, bLive)
      /\ bRestore.id \in Restore!Ids /\ \A k \in bRestore.plan : k \in Nat /\ 1 <= k
  BY <1>1, TargetOfRestore, RestoreFacts
<1>3. /\ bLive' \in LiveContents
      /\ \A f \in Restore!LiveFiles : bLive'[f] = IF f \in Holds[T] THEN 0 ELSE bLive[f]
  <2>1. bLive' = Restore!Without(bLive, T)
    BY <1>1
  <2>2. /\ Restore!Without(bLive, T) \in LiveContents
        /\ \A f \in Restore!LiveFiles : Restore!Without(bLive, T)[f] = IF f \in Holds[T] THEN 0 ELSE bLive[f]
    BY <1>2, FileFacts, Zenon
  <2> QED
    BY <2>1, <2>2
<1>4. /\ \A k \in bRestore.plan : CopiesKept(bRestore, k)
      /\ \A f \in Unwritten(bRestore) :
           HeldBy(f, ToUndo(bRestore)) \/ ~Spared(bRestore, f) \/ bLive[f] = bRestore.before[f]
  BY <1>1, <1>2 DEF RestoreSound, AtTarget, Backwards
<1>5. CASE Restore!Exists(bRestore.saved[T], T)
  <2>1. PICK r : r = bRestore
    OBVIOUS
  <2>2. PICK t : t = [r EXCEPT !.at = "putback"]
    OBVIOUS
  <2>3. t \in Restores /\ SameRestore(t, r) /\ t.at = "putback" /\ t.i = r.i /\ t.torn = r.torn
    BY <1>2, <2>1, <2>2 DEF Restores, SameRestore, Backwards
  <2>4. /\ Unwritten(t) = Unwritten(r) /\ t.plan = r.plan /\ t.id = r.id /\ t.before = r.before
        /\ \A k : CopiesKept(t, k) <=> CopiesKept(r, k)
    BY <2>3, SameRestoreFacts, Zenon DEF SameRestore
  <2>5. \A f \in Unwritten(t) :
          IF AtTarget(t, f) THEN bLive'[f] = Restore!Absent
          ELSE HeldBy(f, ToUndo(t)) \/ ~Spared(t, f) \/ bLive'[f] = t.before[f]
    <3> TAKE f \in Unwritten(t)
    <3>1. f \in Restore!LiveFiles
      BY DEF Unwritten
    <3>2. AtTarget(t, f) <=> f \in Holds[T]
      BY <2>1, <2>3 DEF AtTarget
    <3>3. ToUndo(t) = ToUndo(r) /\ (Spared(t, f) <=> Spared(r, f))
      BY <2>3, <2>4, Zenon DEF ToUndo, Spared
    <3> HIDE DEF T
    <3>4. CASE f \in Holds[T]
      BY <1>3, <3>1, <3>2, <3>4, StartFacts
    <3>5. CASE f \notin Holds[T]
      <4>1. bLive'[f] = bLive[f]
        BY <1>3, <3>1, <3>5
      <4> QED
        BY <1>4, <2>1, <2>4, <3>2, <3>3, <3>5, <4>1
    <3> QED
      BY <3>4, <3>5
  <2>6. t.id \in Restore!Ids /\ t.i \in t.plan /\ \A k \in t.plan : CopiesKept(t, k)
    BY <1>2, <1>4, <2>1, <2>3, <2>4
  <2>7. t.at \in Backwards /\ t.at \notin Forwards /\ t.at \notin {"validate", "stage"}
    BY <2>3 DEF Backwards, Forwards
  <2>8. RestoreSound(t, bLive')
    BY <2>5, <2>6, <2>7, Zenon DEF RestoreSound
  <2>9. bRestore' = t /\ bEvents' = bEvents
    BY <1>1, <1>5, <2>1, <2>2, Zenon
  <2> QED
    BY <1>1, <1>3, <2>3, <2>8, <2>9, RestoreFacts, RestoreMoves
<1>6. CASE ~Restore!Exists(bRestore.saved[T], T)
  <2>1. \A f \in Unwritten(bRestore) :
          (\E k \in bRestore.plan : k <= bRestore.i - 1 /\ f \in Holds[Targets[k]])
          \/ ~Spared(bRestore, f) \/ bLive'[f] = bRestore.before[f]
    BY <1>1, <1>6, UndoLeaves, TargetOfRestore
  <2>2. bRestore.i - 1 \in Nat
    BY <1>2
  <2>3. Restore!RollBack(bRestore, bRestore.i - 1)
    BY <1>1, <1>6
  <2>4. /\ bRestore' \in Restores /\ RestoreSound(bRestore', bLive')
        /\ bEvents' \in Seq({"restored", "dry-run", "failed"})
    BY <1>2, <1>4, <2>1, <2>2, <2>3, TurnedBack
  <2> QED
    BY <1>1, <1>3, <2>4, RestoreFacts, RestoreMoves
<1> QED
  BY <1>5, <1>6

(***************************************************************************)
(* Snapshots, and what disturbs them.                                       *)
(***************************************************************************)

LEMMA IdFacts ==
  /\ Restore!Ids \subseteq 0 .. MaxBackups /\ 0 \notin Restore!Ids
  /\ \A i \in 0 .. MaxBackups : i # 0 => i \in Restore!Ids
  /\ MaxBackups \in Nat /\ MaxEvents \in Nat
BY StateFilesAssumption DEF Restore!Ids

LEMMA JobFacts ==
  ASSUME RestoreInv, NEW t \in Restore!Triggers
  PROVE  /\ bJob[t] \in SnapshotJobs /\ JobSound(t)
         /\ bJob[t].at # "idle" => /\ bSnap[bJob[t].id] \in LocalSnapshots
                                   /\ SnapshotSound(bJob[t].id)
<1>1. bJob[t] \in SnapshotJobs /\ JobSound(t)
  BY RestoreFacts DEF RestoreInv
<1>2. bJob[t].at # "idle" => bJob[t].id \in Restore!Ids
  BY <1>1 DEF JobSound
<1> QED
  BY <1>1, <1>2, RestoreFacts DEF RestoreInv

\* What disturbs the snapshots under way leaves none of them quiet.
LEMMA DisturbFacts ==
  ASSUME RestoreInv
  PROVE  /\ Restore!Disturb(bJob) \in [Restore!Triggers -> SnapshotJobs]
         /\ \A t \in Restore!Triggers :
              /\ Restore!Disturb(bJob)[t].at = bJob[t].at /\ Restore!Disturb(bJob)[t].id = bJob[t].id
              /\ Restore!Disturb(bJob)[t].i = bJob[t].i /\ Restore!Disturb(bJob)[t].sums = bJob[t].sums
              /\ Restore!Disturb(bJob)[t].quiet => bJob[t].at = "idle"
<1>1. \A t \in Restore!Triggers :
        /\ Restore!Disturb(bJob)[t] \in SnapshotJobs
        /\ Restore!Disturb(bJob)[t].at = bJob[t].at /\ Restore!Disturb(bJob)[t].id = bJob[t].id
        /\ Restore!Disturb(bJob)[t].i = bJob[t].i /\ Restore!Disturb(bJob)[t].sums = bJob[t].sums
        /\ Restore!Disturb(bJob)[t].quiet => bJob[t].at = "idle"
  <2> TAKE t \in Restore!Triggers
  <2>1. PICK j : j = bJob[t]
    OBVIOUS
  <2>2. j \in SnapshotJobs
    BY <2>1, JobFacts
  <2>3. PICK b \in BOOLEAN : b = (j.quiet /\ j.at = "idle")
    OBVIOUS
  <2>4. PICK d : d = [j EXCEPT !.quiet = b]
    OBVIOUS
  <2>5. d \in SnapshotJobs /\ d.at = j.at /\ d.id = j.id /\ d.i = j.i /\ d.sums = j.sums /\ d.quiet = b
    BY <2>2, <2>3, <2>4 DEF SnapshotJobs
  <2>6. Restore!Disturb(bJob)[t] = [j EXCEPT !.quiet = j.quiet /\ j.at = "idle"]
    BY <2>1, <2>2 DEF Restore!Disturb, SnapshotJobs
  <2>7. Restore!Disturb(bJob)[t] = d
    BY <2>3, <2>4, <2>6
  <2> QED
    BY <2>1, <2>3, <2>5, <2>7
<1>2. Restore!Disturb(bJob) = [t \in Restore!Triggers |-> Restore!Disturb(bJob)[t]]
  BY DEF Restore!Disturb
<1> QED
  BY <1>1, <1>2

LEMMA JobsDisturbed ==
  ASSUME RestoreInv, Restore!RowIds' \cap Restore!Ids \subseteq Restore!RowIds, bJob' = Restore!Disturb(bJob)
  PROVE  \A t \in Restore!Triggers : JobSound(t)'
<1> TAKE t \in Restore!Triggers
<1>1. JobSound(t)
  BY JobFacts
<1>2. \A q \in Restore!Triggers : bJob'[q].at = bJob[q].at /\ bJob'[q].id = bJob[q].id /\ (bJob'[q].quiet => bJob[q].at = "idle")
  BY DisturbFacts
<1> QED
  BY <1>1, <1>2 DEF JobSound

LEMMA ProgramWriteStep == ASSUME RestoreInv, NEW f \in Restore!LiveFiles, Restore!Write(f) PROVE RestoreInv'
<1>1. /\ bMoves < MaxEvents /\ bLive[f] # 0 /\ bLive' = [bLive EXCEPT ![f] = bMoves + 2] /\ bMoves' = bMoves + 1
      /\ bRestore' = [bRestore EXCEPT !.written = IF Restore!Restoring THEN @ \cup {f} ELSE @]
      /\ bJob' = Restore!Disturb(bJob) /\ bSnap' = bSnap /\ bRows' = bRows /\ bEvents' = bEvents
  BY StartFacts DEF Restore!Write
<1>2. bMoves' \in 0 .. MaxEvents /\ bMoves + 2 \in 0 .. (MaxEvents + 2)
  BY <1>1, RestoreFacts, IdFacts
<1>3. bLive' \in LiveContents /\ \A g \in Restore!LiveFiles : g # f => bLive'[g] = bLive[g]
  BY <1>1, <1>2, RestoreFacts DEF LiveContents
<1>4. Restore!RowIds' = Restore!RowIds
  BY <1>1 DEF Restore!RowIds
<1>5. /\ \A i \in Restore!Ids : SnapshotSound(i)'
      /\ \A t \in Restore!Triggers : JobSound(t)'
  BY <1>1, <1>4, SnapshotSame, JobsDisturbed
<1>6. PICK r : r = bRestore
  OBVIOUS
<1>7. PICK w : w = IF Restore!Restoring THEN r.written \cup {f} ELSE r.written
  OBVIOUS
<1>8. PICK t : t = [r EXCEPT !.written = w]
  OBVIOUS
<1>9. r \in Restores /\ RestoreSound(r, bLive) /\ (Restore!Restoring <=> r.at # "none")
  BY <1>6, RestoreFacts
<1>10. w \in SUBSET Restore!LiveFiles
  BY <1>7, <1>9 DEF Restores
<1>11. /\ t \in Restores /\ t.at = r.at /\ t.id = r.id /\ t.i = r.i /\ t.plan = r.plan /\ t.present = r.present
       /\ t.staged = r.staged /\ t.saved = r.saved /\ t.before = r.before /\ t.torn = r.torn /\ t.written = w
  BY <1>8, <1>9, <1>10 DEF Restores
<1>12. bRestore' = t
  BY <1>1, <1>6, <1>7, <1>8
<1>13. RestoreSound(t, bLive')
  <2> SUFFICES ASSUME t.at # "none" PROVE RestoreSound(t, bLive')
    BY DEF RestoreSound
  <2>1. w = r.written \cup {f}
    BY <1>7, <1>9, <1>11
  <2>2. Unwritten(t) = Unwritten(r) \ {f}
    BY <1>11, <2>1 DEF Unwritten
  <2>3. \A g \in Unwritten(t) : g \in Unwritten(r) /\ bLive'[g] = bLive[g]
    BY <1>3, <2>2 DEF Unwritten
  <2>4. \A k : CopiesKept(r, k) => CopiesKept(t, k)
    BY <1>11, <2>2 DEF CopiesKept
  <2>5. /\ \A g, content, done : Come(t, g, content, done) <=> Come(r, g, content, done)
        /\ \A g : (AtTarget(t, g) <=> AtTarget(r, g)) /\ (Spared(t, g) <=> Spared(r, g))
        /\ Done(t) = Done(r) /\ ToUndo(t) = ToUndo(r)
    BY <1>11, Zenon DEF Come, AtTarget, Spared, Done, ToUndo
  <2>6. /\ r.id \in Restore!Ids /\ r.i \in r.plan
        /\ r.at \notin Backwards => r.torn = {}
        /\ r.at = "validate" => \A k \in r.plan : r.i <= k
    BY <1>9, <1>11, Zenon DEF RestoreSound
  <2>7. \A k \in r.plan : (r.at = "stage" /\ k < r.i) \/ r.at \in Forwards \cup Backwards => CopiesKept(r, k)
    BY <1>9, <1>11, Zenon DEF RestoreSound
  <2>8. \A g \in Unwritten(r) :
          IF AtTarget(r, g) THEN bLive[g] = Restore!Absent
          ELSE /\ r.at \in {"validate", "stage"} => bLive[g] = r.before[g]
               /\ r.at \in Forwards => Come(r, g, bLive[g], Done(r))
               /\ r.at \in Backwards => HeldBy(g, ToUndo(r)) \/ ~Spared(r, g) \/ bLive[g] = r.before[g]
    BY <1>9, <1>11, Zenon DEF RestoreSound
  <2>9. /\ t.id \in Restore!Ids /\ t.i \in t.plan
        /\ t.at \notin Backwards => t.torn = {}
        /\ t.at = "validate" => \A k \in t.plan : t.i <= k
    BY <1>11, <2>6
  <2>10. \A k \in t.plan : (t.at = "stage" /\ k < t.i) \/ t.at \in Forwards \cup Backwards => CopiesKept(t, k)
    BY <1>11, <2>4, <2>7
  <2>11. \A g \in Unwritten(t) :
          IF AtTarget(t, g) THEN bLive'[g] = Restore!Absent
          ELSE /\ t.at \in {"validate", "stage"} => bLive'[g] = t.before[g]
               /\ t.at \in Forwards => Come(t, g, bLive'[g], Done(t))
               /\ t.at \in Backwards => HeldBy(g, ToUndo(t)) \/ ~Spared(t, g) \/ bLive'[g] = t.before[g]
    BY <1>11, <2>3, <2>5, <2>8
  <2> QED
    BY <2>9, <2>10, <2>11, Zenon DEF RestoreSound
<1>14. RestoreTypes'
  BY <1>1, <1>2, <1>3, <1>4, <1>11, <1>12, RestoreFacts, DisturbFacts DEF RestoreTypes
<1> QED
  BY <1>5, <1>12, <1>13, <1>14 DEF RestoreInv

LEMMA BeginRestoreStep ==
  ASSUME RestoreInv, NEW id \in Restore!Dirs \cup Restore!LatestSnapshotIds,
         NEW selected \in (SUBSET Restore!TargetSet) \ {{}}, NEW dry \in BOOLEAN, Restore!RestoreSnapshot(id, selected, dry)
  PROVE  RestoreInv'
<1> DEFINE plan == {k \in DOMAIN Targets : Targets[k] \in selected}
<1>1. /\ ~Restore!Restoring /\ bJob' = Restore!Disturb(bJob) /\ bLive' = bLive /\ bSnap' = bSnap /\ bRows' = bRows
      /\ bMoves' = bMoves
      /\ IF id = 0 THEN Restore!Outcome("failed")
         ELSE /\ bRestore' = [Restore!NoRestore EXCEPT !.at = "validate", !.id = id, !.dry = dry, !.before = bLive,
                                                       !.plan = plan, !.i = Restore!Min(plan)]
              /\ bEvents' = bEvents
  BY DEF Restore!RestoreSnapshot
<1>2. id \in 0 .. MaxBackups
  <2>1. Restore!RowIds \subseteq 0 .. MaxBackups /\ Restore!Dirs \subseteq 0 .. MaxBackups
    BY RestoreFacts, IdFacts DEF Restore!Dirs
  <2>2. Restore!LatestSnapshotIds \subseteq Restore!RowIds \cup Restore!Dirs \cup {0}
    BY DEF Restore!LatestSnapshotIds, Restore!RowIds
  <2> QED
    BY <2>1, <2>2, IdFacts
<1>3. Restore!RowIds' = Restore!RowIds
  BY <1>1 DEF Restore!RowIds
<1>4. /\ \A i \in Restore!Ids : SnapshotSound(i)'
      /\ \A t \in Restore!Triggers : JobSound(t)'
  BY <1>1, <1>3, SnapshotSame, JobsDisturbed
<1>5. /\ bRestore' \in Restores /\ RestoreSound(bRestore', bLive')
      /\ bEvents' \in Seq({"restored", "dry-run", "failed"})
  <2>1. CASE id = 0
    BY <1>1, <2>1, OutcomeFacts, RestoreEnded
  <2>2. CASE id # 0
    <3>1. plan \in SUBSET DOMAIN Targets /\ plan # {}
      <4>1. PICK t \in selected : t \in Restore!TargetSet
        OBVIOUS
      <4>2. PICK k \in DOMAIN Targets : t = Targets[k]
        BY <4>1, TargetFacts
      <4>3. k \in plan
        BY <4>1, <4>2
      <4> QED
        BY <4>3
    <3> HIDE DEF plan
    <3>2. PICK j : j = Restore!Min(plan)
      OBVIOUS
    <3>3. j \in plan /\ \A k \in plan : j <= k
      BY <3>1, <3>2, PositionFacts
    <3>4. PICK n : n = Restore!NoRestore
      OBVIOUS
    <3>5. PICK t : t = [n EXCEPT !.at = "validate", !.id = id, !.dry = dry, !.before = bLive, !.plan = plan, !.i = j]
      OBVIOUS
    <3>6. n \in Restores /\ n.torn = {}
      BY <3>4, StartFacts DEF Restore!NoRestore
    <3>7. /\ t \in Restores /\ t.at = "validate" /\ t.id = id /\ t.i = j /\ t.plan = plan /\ t.before = bLive
          /\ t.torn = {}
      BY <1>2, <3>1, <3>3, <3>5, <3>6, RestoreFacts DEF Restores
    <3>8. id \in Restore!Ids
      BY <1>2, <2>2, IdFacts
    <3>9. RestoreSound(t, bLive)
      BY <3>3, <3>7, <3>8 DEF RestoreSound, AtTarget, Forwards, Backwards
    <3>10. bRestore' = t /\ bEvents' = bEvents
      BY <1>1, <2>2, <3>2, <3>4, <3>5
    <3> QED
      BY <1>1, <3>7, <3>9, <3>10, RestoreFacts
  <2> QED
    BY <2>1, <2>2
<1>6. RestoreTypes'
  BY <1>1, <1>3, <1>5, RestoreFacts, DisturbFacts DEF RestoreTypes
<1> QED
  BY <1>4, <1>5, <1>6 DEF RestoreInv

LEMMA RestoreDieStep == ASSUME RestoreInv, Restore!Die PROVE RestoreInv'
<1>1. /\ bMoves < MaxEvents /\ bMoves' = bMoves + 1 /\ bJob' = [t \in Restore!Triggers |-> Restore!NoJob]
      /\ bRestore' = Restore!NoRestore /\ bLive' = bLive /\ bSnap' = bSnap /\ bRows' = bRows /\ bEvents' = bEvents
  BY DEF Restore!Die
<1>2. bMoves' \in 0 .. MaxEvents
  BY <1>1, RestoreFacts, IdFacts
<1>3. Restore!RowIds' = Restore!RowIds
  BY <1>1 DEF Restore!RowIds
<1>4. \A i \in Restore!Ids : SnapshotSound(i)'
  BY <1>1, <1>3, SnapshotSame
<1>5. \A t \in Restore!Triggers : JobSound(t)'
  BY <1>1, StartFacts DEF JobSound
<1>6. bRestore' \in Restores /\ RestoreSound(bRestore', bLive')
  BY <1>1, StartFacts, RestoreEnded
<1>7. bJob' \in [Restore!Triggers -> SnapshotJobs]
  BY <1>1, StartFacts
<1>8. RestoreTypes'
  BY <1>1, <1>2, <1>3, <1>6, <1>7, RestoreFacts DEF RestoreTypes
<1> QED
  BY <1>4, <1>5, <1>6, <1>8 DEF RestoreInv

\* A step of a snapshot leaves the workspace and the restore alone.
LEMMA SnapshotMoves ==
  ASSUME RestoreInv, bLive' = bLive, bRestore' = bRestore, bEvents' = bEvents, bMoves' \in 0 .. MaxEvents,
         bSnap' \in [Restore!Ids -> LocalSnapshots], Restore!RowIds' \subseteq 0 .. MaxBackups,
         bJob' \in [Restore!Triggers -> SnapshotJobs],
         \A i \in Restore!Ids : SnapshotSound(i)', \A t \in Restore!Triggers : JobSound(t)'
  PROVE  RestoreInv'
<1>1. RestoreTypes'
  BY RestoreFacts, Zenon DEF RestoreTypes
<1>2. RestoreSound(bRestore', bLive')
  BY RestoreFacts, Zenon
<1> QED
  BY <1>1, <1>2 DEF RestoreInv

\* The other call, which is not quiet when there are two.
LEMMA OtherJob ==
  ASSUME RestoreInv, NEW t \in Restore!Triggers, bJob[t].at # "idle", NEW q \in Restore!Triggers, q # t,
         bJob'[q] = bJob[q], bJob'[t].at = "idle" \/ bJob'[t].id = bJob[t].id,
         Restore!RowIds' \cap Restore!Ids \subseteq Restore!RowIds \cup {bJob[t].id},
         \A p \in Restore!Triggers \ {q, t} : bJob'[p] = bJob[p]
  PROVE  JobSound(q)'
<1>1. JobSound(q)
  BY JobFacts
<1>2. bJob[q].at # "idle" => ~bJob[q].quiet /\ bJob[q].id # bJob[t].id
  BY <1>1 DEF JobSound
<1> QED
  BY <1>1, <1>2 DEF JobSound

LEMMA AddedRow ==
  ASSUME NEW id, bRows' = Restore!AddRow(id)
  PROVE  Restore!RowIds' = Restore!RowIds \cup {id}
<1>1. PICK n : n = 1 + Restore!Max({0} \cup {r.n : r \in bRows})
  OBVIOUS
<1>2. PICK row : row = [n |-> n, id |-> id]
  OBVIOUS
<1>3. row.id = id
  BY <1>2
<1>4. bRows' = bRows \cup {row}
  BY <1>1, <1>2, Zenon DEF Restore!AddRow
<1> QED
  BY <1>3, <1>4 DEF Restore!RowIds

LEMMA PruneSnapshotsStep ==
  ASSUME RestoreInv, NEW t \in Restore!Triggers, Restore!PruneSnapshots(t) PROVE RestoreInv'
<1>1. /\ bJob[t].at = "prune" /\ bLive' = bLive /\ bRestore' = bRestore /\ bEvents' = bEvents /\ bMoves' = bMoves
      /\ bSnap' = [i \in Restore!Ids |-> IF i \in Restore!Stale THEN Restore!NoSnapshot ELSE bSnap[i]]
      /\ bRows' = {r \in bRows : r.id \notin Restore!Stale}
      /\ bJob' = [bJob EXCEPT ![t] = Restore!NoJob]
  BY DEF Restore!PruneSnapshots, Restore!KeptRows
<1>2. Restore!RowIds' = Restore!RowIds \ Restore!Stale
  BY <1>1 DEF Restore!RowIds
<1>3. /\ bSnap' \in [Restore!Ids -> LocalSnapshots] /\ bJob' \in [Restore!Triggers -> SnapshotJobs]
      /\ bJob'[t].at = "idle" /\ \A q \in Restore!Triggers : q # t => bJob'[q] = bJob[q]
  BY <1>1, StartFacts, RestoreFacts
<1>4. \A i \in Restore!Ids : SnapshotSound(i)'
  <2> TAKE i \in Restore!Ids
  <2>1. CASE i \in Restore!Stale
    BY <1>1, <1>2, <2>1, StartFacts DEF SnapshotSound
  <2>2. CASE i \notin Restore!Stale
    BY <1>1, <1>2, <2>2, SnapshotSame
  <2> QED
    BY <2>1, <2>2
<1>5. \A q \in Restore!Triggers : JobSound(q)'
  <2> TAKE q \in Restore!Triggers
  <2>1. CASE q = t
    BY <1>3, <2>1 DEF JobSound
  <2>2. CASE q # t
    BY <1>1, <1>2, <1>3, <2>2, OtherJob
  <2> QED
    BY <2>1, <2>2
<1>6. Restore!RowIds' \subseteq 0 .. MaxBackups
  BY <1>2, RestoreFacts
<1> QED
  BY <1>1, <1>3, <1>4, <1>5, <1>6, RestoreFacts, SnapshotMoves

LEMMA SnapshotFailsStep ==
  ASSUME RestoreInv, NEW t \in Restore!Triggers, Restore!SnapshotFails(t) PROVE RestoreInv'
<1>1. /\ bJob[t].at # "idle" /\ bLive' = bLive /\ bRestore' = bRestore /\ bEvents' = bEvents /\ bSnap' = bSnap
      /\ bMoves' = bMoves \/ (bMoves < MaxEvents /\ bMoves' = bMoves + 1)
      /\ bJob' = [bJob EXCEPT ![t] = Restore!NoJob]
      /\ bRows' = Restore!AddRow(0) \/ bRows' = bRows
  BY DEF Restore!SnapshotFails, Restore!FailSnapshot
<1>2. bMoves' \in 0 .. MaxEvents
  BY <1>1, RestoreFacts, IdFacts
<1>3. Restore!RowIds' = Restore!RowIds \/ Restore!RowIds' = Restore!RowIds \cup {0}
  <2>1. bRows' = bRows => Restore!RowIds' = Restore!RowIds
    BY DEF Restore!RowIds
  <2> QED
    BY <1>1, <2>1, AddedRow
<1>4. /\ bJob' \in [Restore!Triggers -> SnapshotJobs]
      /\ bJob'[t].at = "idle" /\ \A q \in Restore!Triggers : q # t => bJob'[q] = bJob[q]
  BY <1>1, StartFacts, RestoreFacts
<1>5. \A i \in Restore!Ids : SnapshotSound(i)'
  BY <1>1, <1>3, IdFacts, SnapshotSame
<1>6. \A q \in Restore!Triggers : JobSound(q)'
  <2> TAKE q \in Restore!Triggers
  <2>1. CASE q = t
    BY <1>4, <2>1 DEF JobSound
  <2>2. CASE q # t
    BY <1>1, <1>3, <1>4, <2>2, OtherJob, IdFacts
  <2> QED
    BY <2>1, <2>2
<1>7. Restore!RowIds' \subseteq 0 .. MaxBackups
  BY <1>3, RestoreFacts, IdFacts
<1> QED
  BY <1>1, <1>2, <1>4, <1>5, <1>6, <1>7, RestoreFacts, SnapshotMoves

LEMMA DamageStep ==
  ASSUME RestoreInv, NEW i \in Restore!Ids, NEW f \in Restore!LiveFiles, Restore!Damage(i, f) PROVE RestoreInv'
<1>1. /\ bMoves < MaxEvents /\ bMoves' = bMoves + 1 /\ bSnap[i].manifest
      /\ bSnap' = [bSnap EXCEPT ![i].tree[f] = Restore!Damaged, ![i].quiet = FALSE]
      /\ bLive' = bLive /\ bRestore' = bRestore /\ bEvents' = bEvents /\ bRows' = bRows /\ bJob' = bJob
  BY DEF Restore!Damage
<1>2. bMoves' \in 0 .. MaxEvents
  BY <1>1, RestoreFacts, IdFacts
<1>3. Restore!RowIds' = Restore!RowIds
  BY <1>1 DEF Restore!RowIds
<1>4. PICK s : s = bSnap[i]
  OBVIOUS
<1>5. s \in LocalSnapshots /\ SnapshotSound(i)
  BY <1>4, RestoreFacts DEF RestoreInv
<1>6. PICK d : d = Restore!Damaged
  OBVIOUS
<1>7. PICK z : z = [s EXCEPT !.tree[f] = d, !.quiet = FALSE]
  OBVIOUS
<1>8. d \in 0 .. (MaxEvents + 2)
  BY <1>6, StartFacts
<1>9. z \in LocalSnapshots /\ z.dir = s.dir /\ z.manifest = s.manifest /\ z.sums = s.sums /\ z.quiet = FALSE
  BY <1>5, <1>7, <1>8 DEF LocalSnapshots, LiveContents
<1>10. bSnap' = [bSnap EXCEPT ![i] = z]
  BY <1>1, <1>4, <1>6, <1>7
<1>11. /\ bSnap' \in [Restore!Ids -> LocalSnapshots] /\ bSnap'[i] = z
       /\ \A k \in Restore!Ids : k # i => bSnap'[k] = bSnap[k]
  BY <1>9, <1>10, RestoreFacts
<1>12. \A k \in Restore!Ids : SnapshotSound(k)'
  <2> TAKE k \in Restore!Ids
  <2>1. CASE k = i
    <3>1. s.dir
      BY <1>1, <1>4, <1>5, StartFacts DEF SnapshotSound
    <3> QED
      BY <1>3, <1>4, <1>5, <1>9, <1>11, <2>1, <3>1 DEF SnapshotSound
  <2>2. CASE k # i
    BY <1>3, <1>11, <2>2, SnapshotSame
  <2> QED
    BY <2>1, <2>2
<1>13. \A t \in Restore!Triggers : JobSound(t)'
  <2> TAKE t \in Restore!Triggers
  <2>1. JobSound(t)
    BY JobFacts
  <2>2. SUFFICES ASSUME bJob[t].at \notin {"idle", "prune"} PROVE JobSound(t)'
    BY <1>1, <1>3, <2>1 DEF JobSound
  <2>3. bJob[t].id \in Restore!Ids /\ bJob[t].id \notin Restore!RowIds
    BY <2>1, <2>2 DEF JobSound
  <2>4. bJob[t].id # i
    BY <1>1, <1>4, <1>5, <2>3 DEF SnapshotSound
  <2>5. bSnap'[bJob[t].id] = bSnap[bJob[t].id]
    BY <1>11, <2>3, <2>4
  <2>6. \A g : FileCopied(bJob[t], g)' <=> FileCopied(bJob[t], g)
    BY <1>1, <2>5, Zenon DEF FileCopied
  <2>7. \A k : TargetCopied(bJob[t], Targets[k])' <=> TargetCopied(bJob[t], Targets[k])
    BY <1>1, <2>5, Zenon DEF TargetCopied
  <2>8. CopiedSoFar(bJob[t])' = CopiedSoFar(bJob[t])
    BY <1>1, Zenon DEF CopiedSoFar
  <2> QED
    BY <1>1, <1>3, <2>1, <2>6, <2>7, <2>8, Zenon DEF JobSound
<1> QED
  BY <1>1, <1>2, <1>3, <1>11, <1>12, <1>13, RestoreFacts, SnapshotMoves

LEMMA CreateSnapshotStep ==
  ASSUME RestoreInv, NEW t \in Restore!Triggers, Restore!CreateSnapshot(t) PROVE RestoreInv'
<1>1. PICK i \in Restore!Fresh :
        /\ bSnap' = [bSnap EXCEPT ![i].dir = TRUE]
        /\ bJob' = [Restore!Disturb(bJob) EXCEPT ![t] = [Restore!NoJob EXCEPT !.at = "copy", !.id = i,
                       !.quiet = ~Restore!Restoring /\ \A q \in Restore!Triggers : bJob[q].at = "idle"]]
  BY DEF Restore!CreateSnapshot
<1>2. /\ bJob[t].at = "idle" /\ bLive' = bLive /\ bRestore' = bRestore /\ bEvents' = bEvents /\ bMoves' = bMoves
      /\ bRows' = bRows
  BY DEF Restore!CreateSnapshot
<1>3. /\ i \in Restore!Ids /\ ~bSnap[i].dir /\ i \notin Restore!RowIds
      /\ \A q \in Restore!Triggers : bJob[q].id # i
  <2>1. i \in Restore!Ids /\ i \in i .. MaxBackups
    BY StateFilesAssumption DEF Restore!Fresh, Restore!Ids
  <2> QED
    BY <2>1 DEF Restore!Fresh
<1>4. Restore!RowIds' = Restore!RowIds
  BY <1>2 DEF Restore!RowIds
<1>5. PICK s : s = bSnap[i]
  OBVIOUS
<1>6. s \in LocalSnapshots /\ s.tree = Restore!Nothing /\ ~s.manifest /\ SnapshotSound(i)
  BY <1>3, <1>5, RestoreFacts, StartFacts DEF SnapshotSound, RestoreInv
<1>7. PICK z : z = [s EXCEPT !.dir = TRUE]
  OBVIOUS
<1>8. z \in LocalSnapshots /\ z.dir /\ z.tree = Restore!Nothing /\ ~z.manifest
  BY <1>6, <1>7 DEF LocalSnapshots
<1>9. /\ bSnap' \in [Restore!Ids -> LocalSnapshots] /\ bSnap'[i] = z
      /\ \A k \in Restore!Ids : k # i => bSnap'[k] = bSnap[k]
  BY <1>1, <1>3, <1>5, <1>7, <1>8, RestoreFacts
<1>10. \A k \in Restore!Ids : SnapshotSound(k)'
  <2> TAKE k \in Restore!Ids
  <2>1. CASE k = i
    BY <1>3, <1>4, <1>8, <1>9, <2>1 DEF SnapshotSound
  <2>2. CASE k # i
    BY <1>4, <1>9, <2>2, SnapshotSame
  <2> QED
    BY <2>1, <2>2
<1>11. PICK b \in BOOLEAN : b = (~Restore!Restoring /\ \A q \in Restore!Triggers : bJob[q].at = "idle")
  OBVIOUS
<1>12. PICK n : n = Restore!NoJob
  OBVIOUS
<1>13. PICK j : j = [n EXCEPT !.at = "copy", !.id = i, !.quiet = b]
  OBVIOUS
<1>14. n \in SnapshotJobs /\ n.i = 1
  BY <1>12, StartFacts DEF Restore!NoJob
<1>15. j \in SnapshotJobs /\ j.at = "copy" /\ j.id = i /\ j.quiet = b /\ j.i = 1
  BY <1>3, <1>13, <1>14, IdFacts DEF SnapshotJobs
<1>16. PICK d : d = Restore!Disturb(bJob)
  OBVIOUS
<1>17. bJob' = [d EXCEPT ![t] = j]
  BY <1>1, <1>11, <1>12, <1>13, <1>16
<1>18. /\ bJob' \in [Restore!Triggers -> SnapshotJobs] /\ bJob'[t] = j
       /\ \A q \in Restore!Triggers : q # t => bJob'[q].at = bJob[q].at /\ bJob'[q].id = bJob[q].id
                                               /\ (bJob'[q].quiet => bJob[q].at = "idle")
  BY <1>15, <1>16, <1>17, DisturbFacts
<1>19. \A q \in Restore!Triggers : JobSound(q)'
  <2> TAKE q \in Restore!Triggers
  <2>1. CASE q = t
    <3>1. b => bRestore'.at = "none" /\ \A p \in Restore!Triggers \ {t} : bJob'[p].at = "idle"
      BY <1>2, <1>11, <1>18, RestoreFacts
    <3>2. \A f \in Restore!LiveFiles : FileCopied(j, f)'
      BY <1>2, <1>8, <1>9, <1>15, StartFacts DEF FileCopied
    <3>3. CopiedSoFar(j)' = {}
      BY <1>15, TargetFacts DEF CopiedSoFar
    <3>4. \A p \in Restore!Triggers \ {t} : bJob'[p].at # "idle" => bJob'[p].id # j.id /\ ~j.quiet
      BY <1>3, <1>15, <1>18, <3>1
    <3>5. j.id \in Restore!Ids /\ j.id \notin Restore!RowIds' /\ j.at # "prune"
      BY <1>3, <1>4, <1>15
    <3>6. (\A f \in Restore!LiveFiles : FileCopied(bJob[t], f))' /\ (\A k \in CopiedSoFar(bJob[t]) : TargetCopied(bJob[t], Targets[k]))'
      BY <1>18, <3>2, <3>3
    <3> QED
      BY <1>15, <1>18, <2>1, <3>1, <3>4, <3>5, <3>6 DEF JobSound
  <2>2. CASE q # t
    <3>1. JobSound(q)
      BY JobFacts
    <3>2. \A p \in Restore!Triggers \ {q} : bJob'[p].at # "idle" /\ bJob[q].at # "idle" => bJob'[p].id # bJob[q].id
      BY <1>3, <1>15, <1>18, <2>2, <3>1 DEF JobSound
    <3> QED
      BY <1>4, <1>18, <2>2, <3>1, <3>2 DEF JobSound
  <2> QED
    BY <2>1, <2>2
<1> QED
  BY <1>2, <1>4, <1>9, <1>10, <1>18, <1>19, RestoreFacts, SnapshotMoves

\* A quiet snapshot of a target, and of those copied before: what is there.
LEMMA CopiedTarget ==
  ASSUME NEW live \in LiveContents, NEW tree \in LiveContents, NEW t \in Restore!TargetSet,
         \A f \in Restore!LiveFiles : tree[f] \in {0, live[f]},
         NEW after, after = Restore!CopiedOver(tree, t, live)
  PROVE  /\ after \in LiveContents
         /\ \A f \in Restore!LiveFiles : after[f] \in {0, live[f]} /\ (tree[f] = live[f] => after[f] = live[f])
         /\ \A f \in Holds[t] : after[f] = live[f]
         /\ Restore!Part(after, t) = Restore!Part(live, t)
<1>1. /\ after \in LiveContents
      /\ \A f \in Restore!LiveFiles : after[f] = IF f \in Holds[t] /\ live[f] # 0 THEN live[f] ELSE tree[f]
  BY CopyFacts, Zenon
<1>2. \A f \in Restore!LiveFiles : after[f] \in {0, live[f]} /\ (tree[f] = live[f] => after[f] = live[f])
  BY <1>1
<1>3. \A f \in Holds[t] : after[f] = live[f]
  <2>1. Holds[t] \subseteq Restore!LiveFiles
    BY TargetFacts
  <2> QED
    BY <1>1, <2>1
<1>4. Restore!Part(after, t) = Restore!Part(live, t)
  BY <1>3 DEF Restore!Part
<1> QED
  BY <1>1, <1>2, <1>3, <1>4

LEMMA CopyTargetStep ==
  ASSUME RestoreInv, NEW t \in Restore!Triggers, Restore!CopyTarget(t) PROVE RestoreInv'
<1>1. PICK j, s : j = bJob[t] /\ s = bSnap[j.id]
  OBVIOUS
<1>2. PICK T : T = Targets[j.i]
  OBVIOUS
<1>3. PICK tree : tree = Restore!CopiedOver(s.tree, T, bLive)
  OBVIOUS
<1>4. PICK sum : sum = IF Restore!Exists(bLive, T) THEN Restore!Part(tree, T) ELSE Restore!Nothing
  OBVIOUS
<1>5. /\ j.at = "copy" /\ bLive' = bLive /\ bRestore' = bRestore /\ bEvents' = bEvents /\ bMoves' = bMoves
      /\ bRows' = bRows
      /\ bSnap' = IF Restore!Exists(bLive, T) THEN [bSnap EXCEPT ![j.id].tree = tree, ![j.id].dir = TRUE] ELSE bSnap
      /\ bJob' = [bJob EXCEPT ![t].sums[T] = sum, ![t].i = IF @ < Len(Targets) THEN @ + 1 ELSE @,
                              ![t].at = IF j.i < Len(Targets) THEN "copy" ELSE "manifest"]
  BY <1>1, <1>2, <1>3, <1>4 DEF Restore!CopyTarget
<1>6. /\ j \in SnapshotJobs /\ JobSound(t) /\ s \in LocalSnapshots /\ SnapshotSound(j.id) /\ j.id \in Restore!Ids
      /\ bLive \in LiveContents
  <2>1. bJob[t].at # "idle"
    BY <1>1, <1>5
  <2> QED
    BY <1>1, <2>1, JobFacts, RestoreFacts DEF JobSound
<1>7. j.i \in DOMAIN Targets /\ T \in Restore!TargetSet /\ s.tree \in LiveContents /\ j.sums \in TargetCopies
  BY <1>2, <1>6, TargetFacts DEF SnapshotJobs, LocalSnapshots
<1>8. tree \in LiveContents /\ sum \in LiveContents
  BY <1>3, <1>4, <1>6, <1>7, CopyFacts, FileFacts, StartFacts
<1>9. PICK z : z = IF Restore!Exists(bLive, T) THEN [s EXCEPT !.tree = tree, !.dir = TRUE] ELSE s
  OBVIOUS
<1>10. /\ z \in LocalSnapshots /\ z.manifest = s.manifest /\ (z.dir \/ z = s)
       /\ z.tree = IF Restore!Exists(bLive, T) THEN tree ELSE s.tree
  BY <1>6, <1>8, <1>9 DEF LocalSnapshots
<1>11. bSnap' = [bSnap EXCEPT ![j.id] = z]
  <2>1. CASE Restore!Exists(bLive, T)
    BY <1>1, <1>5, <1>9, <2>1
  <2>2. CASE ~Restore!Exists(bLive, T)
    BY <1>1, <1>5, <1>6, <1>9, <2>2, RestoreFacts
  <2> QED
    BY <2>1, <2>2
<1>12. /\ bSnap' \in [Restore!Ids -> LocalSnapshots] /\ bSnap'[j.id] = z
       /\ \A k \in Restore!Ids : k # j.id => bSnap'[k] = bSnap[k]
  BY <1>6, <1>10, <1>11, RestoreFacts
<1>13. Restore!RowIds' = Restore!RowIds /\ j.id \notin Restore!RowIds
  BY <1>1, <1>5, <1>6 DEF Restore!RowIds, JobSound
<1>14. \A k \in Restore!Ids : SnapshotSound(k)'
  <2> TAKE k \in Restore!Ids
  <2>1. CASE k = j.id
    <3>1. ~s.manifest
      BY <1>1, <1>6, <1>13 DEF SnapshotSound
    <3>2. z.dir \/ z = Restore!NoSnapshot
      BY <1>1, <1>6, <1>10 DEF SnapshotSound
    <3> QED
      BY <1>10, <1>12, <1>13, <2>1, <3>1, <3>2 DEF SnapshotSound
  <2>2. CASE k # j.id
    BY <1>12, <1>13, <2>2, SnapshotSame
  <2> QED
    BY <2>1, <2>2
<1>15. PICK n : n = IF j.i < Len(Targets) THEN j.i + 1 ELSE j.i
  OBVIOUS
<1>16. PICK at : at = IF j.i < Len(Targets) THEN "copy" ELSE "manifest"
  OBVIOUS
<1>17. PICK d : d = [j EXCEPT !.sums[T] = sum, !.i = n, !.at = at]
  OBVIOUS
<1>18. n \in DOMAIN Targets /\ at \in {"copy", "manifest"}
  BY <1>7, <1>15, <1>16, TargetFacts
<1>19. /\ d \in SnapshotJobs /\ d.at = at /\ d.id = j.id /\ d.i = n /\ d.quiet = j.quiet
       /\ d.sums = [j.sums EXCEPT ![T] = sum]
  BY <1>6, <1>7, <1>8, <1>17, <1>18 DEF SnapshotJobs, TargetCopies
<1>20. bJob' = [bJob EXCEPT ![t] = d]
  BY <1>1, <1>5, <1>15, <1>16, <1>17
<1>21. bJob' \in [Restore!Triggers -> SnapshotJobs] /\ bJob'[t] = d /\ \A q \in Restore!Triggers : q # t => bJob'[q] = bJob[q]
  BY <1>19, <1>20, RestoreFacts
<1>22. JobSound(t)'
  <2>1. /\ \A q \in Restore!Triggers \ {t} : bJob[q].at # "idle" => bJob[q].id # j.id /\ ~j.quiet
        /\ j.quiet => /\ bRestore.at = "none"
                      /\ \A f \in Restore!LiveFiles : FileCopied(j, f)
                      /\ \A k \in CopiedSoFar(j) : TargetCopied(j, Targets[k])
    BY <1>1, <1>5, <1>6 DEF JobSound
  <2>2. ASSUME j.quiet
        PROVE  /\ \A f \in Restore!LiveFiles : FileCopied(d, f)'
               /\ \A k \in CopiedSoFar(d)' : TargetCopied(d, Targets[k])'
    <3>1. \A f \in Restore!LiveFiles : s.tree[f] \in {0, bLive[f]}
      BY <1>1, <2>1, <2>2, StartFacts DEF FileCopied
    <3>2. /\ \A f \in Restore!LiveFiles : tree[f] \in {0, bLive[f]} /\ (s.tree[f] = bLive[f] => tree[f] = bLive[f])
          /\ \A f \in Holds[T] : tree[f] = bLive[f]
          /\ Restore!Part(tree, T) = Restore!Part(bLive, T)
      BY <1>3, <1>6, <1>7, <3>1, CopiedTarget
    <3>3. \A f \in Restore!LiveFiles : z.tree[f] \in {0, bLive[f]} /\ (s.tree[f] = bLive[f] => z.tree[f] = bLive[f])
      BY <1>10, <3>1, <3>2
    <3>4. \A f \in Restore!LiveFiles : FileCopied(d, f)'
      BY <1>5, <1>12, <1>19, <3>3, StartFacts DEF FileCopied
    <3>5. \A k \in CopiedSoFar(d)' : k \in DOMAIN Targets /\ (k = j.i \/ k \in CopiedSoFar(j))
      BY <1>5, <1>7, <1>15, <1>16, <1>19, TargetFacts DEF CopiedSoFar
    <3>6. \A k \in CopiedSoFar(d)' : TargetCopied(d, Targets[k])'
      <4> TAKE k \in CopiedSoFar(d)'
      <4>1. CASE k = j.i
        <5>1. d.sums[T] = sum /\ T = Targets[k]
          BY <1>2, <1>7, <1>19, <4>1 DEF TargetCopies
        <5>2. CASE Restore!Exists(bLive, T)
          <6>1. sum = Restore!Part(bLive, T) /\ \A f \in Holds[T] : z.tree[f] = bLive[f]
            BY <1>4, <1>10, <3>2, <5>2
          <6> QED
            BY <1>5, <1>12, <1>19, <5>1, <6>1 DEF TargetCopied
        <5>3. CASE ~Restore!Exists(bLive, T)
          <6>1. Holds[T] \subseteq Restore!LiveFiles
            BY <1>7, TargetFacts
          <6>2. sum = Restore!Nothing /\ \A f \in Holds[T] : sum[f] = 0
            BY <1>4, <5>3, <6>1, StartFacts
          <6>3. ~Restore!Exists(sum, T)
            BY <1>7, <1>8, <6>2, ExistsFacts
          <6> QED
            BY <5>1, <6>3 DEF TargetCopied
        <5> QED
          BY <5>2, <5>3
      <4>2. CASE k # j.i
        <5>1. k \in CopiedSoFar(j) /\ k \in DOMAIN Targets
          BY <3>5, <4>2
        <5>2. TargetCopied(j, Targets[k])
          BY <2>1, <2>2, <5>1
        <5>3. Targets[k] # T /\ Targets[k] \in Restore!TargetSet
          BY <1>2, <1>7, <4>2, <5>1, TargetFacts
        <5>4. d.sums[Targets[k]] = j.sums[Targets[k]]
          BY <1>7, <1>19, <5>3 DEF TargetCopies
        <5>5. Holds[Targets[k]] \subseteq Restore!LiveFiles
          BY <5>3, TargetFacts
        <5>6. \A f \in Holds[Targets[k]] : s.tree[f] = bLive[f] => z.tree[f] = bLive[f]
          BY <3>3, <5>5
        <5>7. PICK u : u = Targets[k]
          OBVIOUS
        <5>8. \/ ~Restore!Exists(d.sums[u], u)
              \/ d.sums[u] = Restore!Part(bLive, u) /\ \A f \in Holds[u] : z.tree[f] = bLive[f]
          BY <1>1, <5>2, <5>4, <5>6, <5>7 DEF TargetCopied
        <5> QED
          BY <1>5, <1>12, <1>19, <5>7, <5>8 DEF TargetCopied
      <4> QED
        BY <4>1, <4>2
    <3> QED
      BY <3>4, <3>6
  <2>3. (\A f \in Restore!LiveFiles : FileCopied(bJob[t], f))' <=> \A f \in Restore!LiveFiles : FileCopied(d, f)'
    BY <1>21
  <2>4. (\A k \in CopiedSoFar(bJob[t]) : TargetCopied(bJob[t], Targets[k]))' <=> \A k \in CopiedSoFar(d)' : TargetCopied(d, Targets[k])'
    BY <1>21
  <2>5. \A q \in Restore!Triggers \ {t} : bJob'[q].at # "idle" => bJob'[q].id # bJob'[t].id /\ ~bJob'[t].quiet
    BY <1>19, <1>21, <2>1
  <2>6. bJob'[t].id \in Restore!Ids /\ bJob'[t].id \notin Restore!RowIds'
    BY <1>6, <1>13, <1>19, <1>21
  <2>7. bJob'[t].quiet => /\ bRestore'.at = "none"
                          /\ (\A f \in Restore!LiveFiles : FileCopied(bJob[t], f))'
                          /\ (\A k \in CopiedSoFar(bJob[t]) : TargetCopied(bJob[t], Targets[k]))'
    BY <1>5, <1>19, <1>21, <2>1, <2>2, <2>3, <2>4
  <2> QED
    BY <2>5, <2>6, <2>7, Zenon DEF JobSound
<1>23. \A q \in Restore!Triggers : JobSound(q)'
  <2> TAKE q \in Restore!Triggers
  <2>1. CASE q # t
    BY <1>1, <1>5, <1>13, <1>19, <1>21, <2>1, OtherJob
  <2> QED
    BY <1>22, <2>1
<1> QED
  BY <1>5, <1>12, <1>13, <1>14, <1>21, <1>23, RestoreFacts, SnapshotMoves

LEMMA WriteSnapshotStep ==
  ASSUME RestoreInv, NEW t \in Restore!Triggers, Restore!WriteManifest(t) PROVE RestoreInv'
<1>1. PICK j, s : j = bJob[t] /\ s = bSnap[j.id]
  OBVIOUS
<1>2. /\ j.at = "manifest" /\ s.dir /\ bLive' = bLive /\ bRestore' = bRestore /\ bEvents' = bEvents /\ bMoves' = bMoves
      /\ bSnap' = [bSnap EXCEPT ![j.id].manifest = TRUE, ![j.id].sums = j.sums, ![j.id].quiet = @ /\ j.quiet]
      /\ bRows' = IF j.id \in Restore!RowIds THEN bRows ELSE Restore!AddRow(j.id)
      /\ bJob' = [bJob EXCEPT ![t].at = "prune"]
  BY <1>1 DEF Restore!WriteManifest
<1>3. /\ j \in SnapshotJobs /\ JobSound(t) /\ s \in LocalSnapshots /\ SnapshotSound(j.id) /\ j.id \in Restore!Ids
      /\ j.id \notin Restore!RowIds
  <2>1. bJob[t].at # "idle" /\ bJob[t].at # "prune"
    BY <1>1, <1>2
  <2> QED
    BY <1>1, <2>1, JobFacts DEF JobSound
<1>4. Restore!RowIds' = Restore!RowIds \cup {j.id}
  BY <1>2, <1>3, AddedRow
<1>5. PICK b \in BOOLEAN : b = (s.quiet /\ j.quiet)
  OBVIOUS
<1>6. PICK z : z = [s EXCEPT !.manifest = TRUE, !.sums = j.sums, !.quiet = b]
  OBVIOUS
<1>7. z \in LocalSnapshots /\ z.dir /\ z.manifest /\ z.sums = j.sums /\ z.quiet = b /\ z.tree = s.tree
  BY <1>2, <1>3, <1>5, <1>6 DEF LocalSnapshots, SnapshotJobs
<1>8. bSnap' = [bSnap EXCEPT ![j.id] = z]
  BY <1>1, <1>2, <1>5, <1>6
<1>9. /\ bSnap' \in [Restore!Ids -> LocalSnapshots] /\ bSnap'[j.id] = z
      /\ \A k \in Restore!Ids : k # j.id => bSnap'[k] = bSnap[k]
  BY <1>3, <1>7, <1>8, RestoreFacts
<1>10. PICK d : d = [j EXCEPT !.at = "prune"]
  OBVIOUS
<1>11. d \in SnapshotJobs /\ d.at = "prune" /\ d.id = j.id /\ d.quiet = j.quiet
  BY <1>3, <1>10 DEF SnapshotJobs
<1>12. bJob' = [bJob EXCEPT ![t] = d]
  BY <1>1, <1>2, <1>10
<1>13. bJob' \in [Restore!Triggers -> SnapshotJobs] /\ bJob'[t] = d /\ \A q \in Restore!Triggers : q # t => bJob'[q] = bJob[q]
  BY <1>11, <1>12, RestoreFacts
<1>14. /\ \A q \in Restore!Triggers \ {t} : bJob[q].at # "idle" => bJob[q].id # j.id /\ ~j.quiet
       /\ j.quiet => bRestore.at = "none" /\ \A k \in CopiedSoFar(j) : TargetCopied(j, Targets[k])
  BY <1>1, <1>2, <1>3 DEF JobSound
<1>15. b => \A k \in DOMAIN Targets : \/ ~Restore!Exists(z.sums[Targets[k]], Targets[k])
                                      \/ Restore!Part(z.tree, Targets[k]) = z.sums[Targets[k]]
  <2> SUFFICES ASSUME b, NEW k \in DOMAIN Targets
               PROVE  \/ ~Restore!Exists(z.sums[Targets[k]], Targets[k])
                      \/ Restore!Part(z.tree, Targets[k]) = z.sums[Targets[k]]
    OBVIOUS
  <2>1. k \in CopiedSoFar(j)
    BY <1>2 DEF CopiedSoFar
  <2>2. PICK u : u = Targets[k]
    OBVIOUS
  <2>3. \/ ~Restore!Exists(j.sums[u], u)
        \/ j.sums[u] = Restore!Part(bLive, u) /\ \A f \in Holds[u] : s.tree[f] = bLive[f]
    BY <1>1, <1>5, <1>14, <2>1, <2>2 DEF TargetCopied
  <2>4. (\A f \in Holds[u] : s.tree[f] = bLive[f]) => Restore!Part(s.tree, u) = Restore!Part(bLive, u)
    BY DEF Restore!Part
  <2> QED
    BY <1>7, <2>2, <2>3, <2>4
<1>16. \A k \in Restore!Ids : SnapshotSound(k)'
  <2> TAKE k \in Restore!Ids
  <2>1. CASE k = j.id
    <3>1. b => Restore!ValidFor(j.id, DOMAIN Targets)'
      BY <1>7, <1>9, <1>15 DEF Restore!ValidFor
    <3> QED
      BY <1>4, <1>7, <1>9, <2>1, <3>1 DEF SnapshotSound
  <2>2. CASE k # j.id
    BY <1>4, <1>9, <2>2, SnapshotSame
  <2> QED
    BY <2>1, <2>2
<1>17. \A q \in Restore!Triggers : JobSound(q)'
  <2> TAKE q \in Restore!Triggers
  <2>1. CASE q = t
    <3>1. \A p \in Restore!Triggers \ {t} : bJob'[p].at # "idle" => bJob'[p].id # bJob'[t].id /\ ~bJob'[t].quiet
      BY <1>11, <1>13, <1>14
    <3>2. bJob'[t].id \in Restore!Ids /\ bJob'[t].at = "prune" /\ (bJob'[t].quiet => bRestore'.at = "none")
      BY <1>2, <1>3, <1>11, <1>13, <1>14
    <3> QED
      BY <2>1, <3>1, <3>2, Zenon DEF JobSound
  <2>2. CASE q # t
    BY <1>1, <1>2, <1>4, <1>11, <1>13, <2>2, OtherJob
  <2> QED
    BY <2>1, <2>2
<1>18. Restore!RowIds' \subseteq 0 .. MaxBackups
  BY <1>3, <1>4, RestoreFacts, IdFacts
<1> QED
  BY <1>2, <1>9, <1>13, <1>16, <1>17, <1>18, RestoreFacts, SnapshotMoves

LEMMA RestoreStep == RestoreInv /\ [Restore!Next]_RestoreVars => RestoreInv'
<1> SUFFICES ASSUME RestoreInv, [Restore!Next]_RestoreVars PROVE RestoreInv'
  OBVIOUS
<1>1. CASE UNCHANGED RestoreVars
  <2>1. /\ bLive' = bLive /\ bSnap' = bSnap /\ bRows' = bRows /\ bJob' = bJob /\ bRestore' = bRestore
        /\ bEvents' = bEvents /\ bMoves' = bMoves
    BY <1>1 DEF RestoreVars
  <2>2. Restore!RowIds' = Restore!RowIds
    BY <2>1 DEF Restore!RowIds
  <2>3. /\ \A i \in Restore!Ids : SnapshotSound(i)'
        /\ \A t \in Restore!Triggers : JobSound(t)'
    <3>1. bRestore.at # "none" \/ (bRestore'.at = "none" /\ bLive' = bLive)
      BY <2>1
    <3> QED
      BY <2>1, <3>1, SnapshotsKept
  <2> QED
    BY <2>1, <2>2, <2>3, RestoreFacts, SnapshotMoves
<1>2. CASE Restore!Next
  BY <1>2, ProgramWriteStep, DamageStep, CreateSnapshotStep, CopyTargetStep, WriteSnapshotStep, PruneSnapshotsStep,
     SnapshotFailsStep, BeginRestoreStep, ValidateStep, StageTargetStep, StagingMissesStep, ClearTargetStep,
     MoveTargetStep, PersistRestoredStep, RestoreFailsStep, UndoTargetStep, PutBackStep, RollBackFailsStep,
     RestoreDieStep, Zenon DEF Restore!Next
<1> QED
  BY <1>1, <1>2

LEMMA SnapshotsAreRestorable == RestoreInv => Restore!TypeOK /\ Restore!ReadyIsRestorable
<1> SUFFICES ASSUME RestoreInv PROVE Restore!TypeOK /\ Restore!ReadyIsRestorable
  OBVIOUS
<1>1. \A t \in Restore!Triggers : bJob[t].at # "idle" => bJob[t].id \in Restore!Ids /\ bJob[t].i \in DOMAIN Targets
  BY JobFacts DEF JobSound, SnapshotJobs
<1>2. Restore!Restoring => bRestore.id \in Restore!Ids /\ bRestore.i \in bRestore.plan
  BY RestoreFacts DEF RestoreSound
<1>3. Restore!TypeOK
  BY <1>1, <1>2, RestoreFacts DEF Restore!TypeOK, LiveContents
<1>4. \A i \in Restore!RowIds \ {0} : i \in Restore!Ids /\ SnapshotSound(i)
  BY RestoreFacts, IdFacts DEF RestoreInv
<1>5. Restore!ReadyIsRestorable
  BY <1>4 DEF Restore!ReadyIsRestorable, SnapshotSound
<1> QED
  BY <1>3, <1>5

(***************************************************************************)
(* How a restore ends.                                                      *)
(***************************************************************************)

LEMMA NoEnd ==
  ASSUME RestoreInv, bEvents' = bEvents
  PROVE  Restore!AllOrNothing
<1>1. bEvents \in Seq({"restored", "dry-run", "failed"})
  BY RestoreFacts
<1>2. \A outcome \in {"restored", "dry-run", "failed"} : Append(bEvents, outcome) # bEvents
  BY <1>1
<1> QED
  BY <1>2 DEF Restore!AllOrNothing, Restore!Ends

\* It ends with one outcome, and a failure shows.
LEMMA EndFacts ==
  ASSUME RestoreInv, NEW outcome \in {"restored", "dry-run", "failed"}, Restore!Outcome(outcome)
  PROVE  /\ \A other \in {"restored", "dry-run", "failed"} : Restore!Ends(other) => other = outcome
         /\ bEvents'[Len(bEvents')] = "failed" => Restore!Degraded'
<1>1. PICK e : e = bEvents
  OBVIOUS
<1>2. e \in Seq({"restored", "dry-run", "failed"}) /\ bEvents' = Append(e, outcome)
  BY <1>1, OutcomeFacts, RestoreFacts
<1>3. \A other \in {"restored", "dry-run", "failed"} : Append(e, other) = Append(e, outcome) => other = outcome
  BY <1>2
<1>4. Len(bEvents') \in DOMAIN bEvents'
  BY <1>2
<1> QED
  BY <1>1, <1>2, <1>3, <1>4 DEF Restore!Ends, Restore!Degraded

LEMMA FailureEnds ==
  ASSUME RestoreInv, Restore!Outcome("failed"),
         bRestore.at # "none" => \A f \in Unwritten(bRestore) : bLive'[f] = bRestore.before[f] \/ \E t \in Restore!Torn : f \in Holds[t]
  PROVE  Restore!AllOrNothing
<1>1. "failed" \in {"restored", "dry-run", "failed"}
  OBVIOUS
<1>2. /\ ~Restore!Ends("restored") /\ ~Restore!Ends("dry-run")
      /\ bEvents'[Len(bEvents')] = "failed" => Restore!Degraded'
  BY <1>1, EndFacts
<1>3. Restore!Ends("failed") => bRestore.at # "none"
  BY DEF Restore!Ends
<1> QED
  BY <1>2, <1>3, Zenon DEF Restore!AllOrNothing, Restore!AsBefore, Unwritten

\* What a rollback that has nothing left to undo has put back.
LEMMA RolledBack ==
  ASSUME RestoreInv, bRestore.at \in Backwards, Restore!RollBack(bRestore, bRestore.i - 1),
         \A f \in Unwritten(bRestore) :
            (\E k \in bRestore.plan : k <= bRestore.i - 1 /\ f \in Holds[Targets[k]])
            \/ ~Spared(bRestore, f) \/ bLive'[f] = bRestore.before[f]
  PROVE  Restore!AllOrNothing
<1>1. /\ bRestore \in Restores /\ bRestore.i - 1 \in Nat /\ \A k \in bRestore.plan : k \in Nat
      /\ bRestore.at # "none" /\ bRestore.at \notin {"clear", "move"}
  <2>1. bRestore.at # "none" /\ bRestore.at \notin {"clear", "move"}
    BY DEF Backwards
  <2> QED
    BY <2>1, RestoreFacts, TargetOfRestore
<1>2. CASE Restore!Outcome("failed") /\ \A k \in bRestore.plan : k > bRestore.i - 1
  <2>1. \A f \in Unwritten(bRestore) : bLive'[f] = bRestore.before[f] \/ \E t \in Restore!Torn : f \in Holds[t]
    BY <1>1, <1>2 DEF Spared, Restore!Torn
  <2> QED
    BY <1>2, <2>1, FailureEnds
<1>3. CASE bEvents' = bEvents
  BY <1>3, NoEnd
<1> QED
  BY <1>1, <1>2, <1>3, RollBackFacts

LEMMA ValidateEnds == ASSUME RestoreInv, Restore!Validate PROVE Restore!AllOrNothing
<1>1. bRestore.at = "validate" /\ bLive' = bLive
  BY DEF Restore!Validate
<1>2. \A f \in Unwritten(bRestore) : bLive'[f] = bRestore.before[f]
  BY <1>1, RestoreFacts DEF RestoreSound, AtTarget
<1>3. CASE Restore!Outcome("failed")
  BY <1>2, <1>3, FailureEnds
<1>4. CASE Restore!Outcome("dry-run")
  <2>1. "dry-run" \in {"restored", "dry-run", "failed"}
    OBVIOUS
  <2>2. /\ ~Restore!Ends("restored") /\ ~Restore!Ends("failed")
        /\ bEvents'[Len(bEvents')] = "failed" => Restore!Degraded'
    BY <1>4, <2>1, EndFacts
  <2> QED
    BY <1>2, <2>2, Zenon DEF Restore!AllOrNothing, Restore!AsBefore, Unwritten
<1>5. CASE bEvents' = bEvents
  BY <1>5, NoEnd
<1> QED
  BY <1>3, <1>4, <1>5 DEF Restore!Validate

LEMMA PersistEnds == ASSUME RestoreInv, Restore!PersistRestored PROVE Restore!AllOrNothing
<1>1. bRestore.at = "persist" /\ bLive' = bLive /\ Restore!Outcome("restored")
  BY DEF Restore!PersistRestored
<1>2. "restored" \in {"restored", "dry-run", "failed"}
  OBVIOUS
<1>3. /\ ~Restore!Ends("dry-run") /\ ~Restore!Ends("failed")
      /\ bEvents'[Len(bEvents')] = "failed" => Restore!Degraded'
  BY <1>1, <1>2, EndFacts
<1>4. Done(bRestore) = bRestore.plan
  BY <1>1 DEF Done
<1>5. \A f \in Unwritten(bRestore) : Come(bRestore, f, bLive[f], bRestore.plan)
  BY <1>1, <1>4, RestoreFacts DEF RestoreSound, AtTarget, Forwards
<1>6. \A f \in Unwritten(bRestore) :
        IF Restore!Holding(f) = {} THEN Restore!AsBefore(f) ELSE bLive'[f] \in Restore!Wanted(f)
  <2> TAKE f \in Unwritten(bRestore)
  <2>1. Come(bRestore, f, bLive[f], bRestore.plan)
    BY <1>5
  <2>2. \A k \in bRestore.plan : f \in Holds[Targets[k]] => Targets[k] \in Restore!Holding(f)
    BY <1>1, TargetOfRestore, TargetFacts DEF Restore!Holding
  <2>3. \A t \in Restore!Holding(f) : \E k \in bRestore.plan : t = Targets[k] /\ f \in Holds[Targets[k]]
    BY DEF Restore!Holding
  <2>4. CASE HeldBy(f, bRestore.plan)
    <3>1. PICK k \in bRestore.plan : f \in Holds[Targets[k]] /\ bLive[f] = bRestore.staged[Targets[k]][f]
      BY <2>1, <2>4 DEF Come
    <3>2. Targets[k] \in Restore!Holding(f)
      BY <2>2, <3>1
    <3> QED
      BY <1>1, <3>1, <3>2 DEF Restore!Wanted
  <2>5. CASE ~HeldBy(f, bRestore.plan)
    <3>1. Restore!Holding(f) = {}
      BY <2>3, <2>5 DEF HeldBy
    <3> QED
      BY <1>1, <2>1, <2>5, <3>1 DEF Come, Restore!AsBefore
  <2> QED
    BY <2>4, <2>5
<1> QED
  BY <1>3, <1>6, Zenon DEF Restore!AllOrNothing, Unwritten

LEMMA FailEnds == ASSUME RestoreInv, Restore!RestoreFails PROVE Restore!AllOrNothing
<1> DEFINE T == Targets[bRestore.i]
<1>1. /\ bRestore.at \in {"stage", "clear", "move", "persist"}
      /\ bLive' \in {bLive, Restore!Without(bLive, T)} /\ (bRestore.at # "clear" => bLive' = bLive)
      /\ bRestore.at = "stage" => Restore!RollBack(bRestore, 0)
      /\ bRestore.at = "persist" => Restore!RollBack(bRestore, Len(Targets))
      /\ bRestore.at \in {"clear", "move"} => Restore!RollBack([bRestore EXCEPT !.torn = {T}], bRestore.i - 1)
  BY DEF Restore!RestoreFails, Restore!Target
<1>2. /\ T \in Restore!TargetSet /\ bRestore.i \in bRestore.plan /\ T = Restore!Target
      /\ bRestore \in Restores /\ bLive \in LiveContents /\ RestoreSound(bRestore, bLive)
      /\ \A k \in bRestore.plan : k \in Nat /\ 1 <= k /\ k <= Len(Targets)
  BY <1>1, TargetOfRestore, RestoreFacts
<1>3. \A f \in Restore!LiveFiles : bLive'[f] = bLive[f] \/ f \in Holds[T]
  <2>1. /\ Restore!Without(bLive, T) \in LiveContents
        /\ \A f \in Restore!LiveFiles : Restore!Without(bLive, T)[f] = IF f \in Holds[T] THEN 0 ELSE bLive[f]
    BY <1>2, FileFacts, Zenon
  <2> QED
    BY <1>1, <2>1
<1>4. CASE bEvents' = bEvents
  BY <1>4, NoEnd
<1>5. CASE bEvents' # bEvents
  <2>1. CASE bRestore.at = "stage"
    <3>1. Restore!Outcome("failed")
      BY <1>1, <1>2, <1>5, <2>1, RollBackFacts
    <3>2. \A f \in Unwritten(bRestore) : bLive'[f] = bRestore.before[f]
      BY <1>1, <1>2, <2>1 DEF RestoreSound, AtTarget
    <3> QED
      BY <3>1, <3>2, FailureEnds
  <2>2. CASE bRestore.at = "persist"
    <3>1. Len(Targets) \in Nat
      BY TargetFacts
    <3>2. \A k \in bRestore.plan : k > Len(Targets)
      BY <1>1, <1>2, <1>5, <2>2, <3>1, RollBackFacts
    <3> QED
      BY <1>2, <3>1, <3>2
  <2>3. CASE bRestore.at \in {"clear", "move"}
    <3>1. PICK r, u : r = bRestore /\ u = T
      OBVIOUS
    <3>2. PICK s : s = [r EXCEPT !.torn = {u}]
      OBVIOUS
    <3>3. s \in Restores /\ s.plan = r.plan
      BY <1>2, <3>1, <3>2 DEF Restores
    <3>4. Restore!RollBack(s, r.i - 1) /\ r.i - 1 \in Nat
      BY <1>1, <1>2, <2>3, <3>1, <3>2
    <3>5. Restore!Outcome("failed") /\ \A k \in r.plan : k > r.i - 1
      BY <1>5, <3>3, <3>4, RollBackFacts
    <3>6. Done(r) = {}
      <4>1. r.at # "persist" /\ \A k \in r.plan : ~(k < r.i)
        BY <1>2, <2>3, <3>1, <3>5
      <4> QED
        BY <4>1 DEF Done
    <3>7. \A f \in Unwritten(bRestore) : f \in Holds[T] \/ Come(r, f, bLive[f], Done(r))
      BY <1>2, <2>3, <3>1 DEF RestoreSound, AtTarget, Forwards
    <3>8. \A f \in Unwritten(bRestore) : bLive'[f] = bRestore.before[f] \/ \E t \in Restore!Torn : f \in Holds[t]
      <4> TAKE f \in Unwritten(bRestore)
      <4>1. f \in Restore!LiveFiles
        BY DEF Unwritten
      <4>2. CASE f \in Holds[T]
        BY <1>2, <2>3, <4>2 DEF Restore!Torn
      <4>3. CASE f \notin Holds[T]
        <5>1. Come(r, f, bLive[f], {}) /\ ~HeldBy(f, {})
          BY <3>6, <3>7, <4>3 DEF HeldBy
        <5>2. bLive[f] = r.before[f]
          BY <5>1, Zenon DEF Come
        <5> QED
          BY <1>3, <3>1, <4>1, <4>3, <5>2
      <4> QED
        BY <4>2, <4>3
    <3> QED
      BY <3>5, <3>8, FailureEnds
  <2> QED
    BY <1>1, <2>1, <2>2, <2>3
<1> QED
  BY <1>4, <1>5

LEMMA RestoresEnd == RestoreInv /\ [Restore!Next]_RestoreVars => [Restore!AllOrNothing]_RestoreVars
<1> SUFFICES ASSUME RestoreInv, [Restore!Next]_RestoreVars PROVE [Restore!AllOrNothing]_RestoreVars
  OBVIOUS
<1>1. CASE bEvents' = bEvents
  BY <1>1, NoEnd
<1>2. CASE bEvents' # bEvents /\ Restore!Next
  <2>1. CASE Restore!StagingMisses
    <3>1. /\ bRestore.at = "stage" /\ bLive' = bLive /\ Restore!RollBack(bRestore, 0)
      BY <2>1 DEF Restore!StagingMisses
    <3>2. Restore!Outcome("failed")
      BY <1>2, <3>1, RestoreFacts, RollBackFacts
    <3>3. \A f \in Unwritten(bRestore) : bLive'[f] = bRestore.before[f]
      BY <3>1, RestoreFacts DEF RestoreSound, AtTarget
    <3> QED
      BY <3>2, <3>3, FailureEnds
  <2>2. CASE Restore!UndoTarget
    <3>1. bRestore.at = "undo" /\ bRestore.at \in Backwards
      BY <2>2 DEF Restore!UndoTarget, Backwards
    <3>2. ~Restore!Exists(bRestore.saved[Restore!Target], Restore!Target) /\ Restore!RollBack(bRestore, bRestore.i - 1)
      BY <1>2, <2>2 DEF Restore!UndoTarget
    <3> QED
      BY <2>2, <3>1, <3>2, UndoLeaves, RolledBack
  <2>3. CASE Restore!PutBack
    <3>1. bRestore.at \in Backwards /\ Restore!RollBack(bRestore, bRestore.i - 1)
      BY <2>3 DEF Restore!PutBack, Backwards
    <3> QED
      BY <2>3, <3>1, PutBackLeaves, RolledBack
  <2>4. CASE \E id \in Restore!Dirs \cup Restore!LatestSnapshotIds, selected \in (SUBSET Restore!TargetSet) \ {{}},
                dry \in BOOLEAN : Restore!RestoreSnapshot(id, selected, dry)
    <3>1. ~Restore!Restoring /\ Restore!Outcome("failed")
      BY <1>2, <2>4, Zenon DEF Restore!RestoreSnapshot
    <3>2. bRestore.at = "none"
      BY <3>1, RestoreFacts
    <3> QED
      BY <3>1, <3>2, FailureEnds
  <2>5. CASE Restore!Validate
    BY <2>5, ValidateEnds
  <2>6. CASE Restore!PersistRestored
    BY <2>6, PersistEnds
  <2>7. CASE Restore!RestoreFails
    BY <2>7, FailEnds
  <2>8. ~Restore!StageTarget /\ ~Restore!ClearTarget /\ ~Restore!MoveTarget /\ ~Restore!RollBackFails /\ ~Restore!Die
    BY <1>2 DEF Restore!StageTarget, Restore!ClearTarget, Restore!MoveTarget, Restore!RollBackFails, Restore!Die
  <2>9. ~\E f \in Restore!LiveFiles : Restore!Write(f) \/ \E i \in Restore!Ids : Restore!Damage(i, f)
    BY <1>2 DEF Restore!Write, Restore!Damage
  <2>10. ~\E t \in Restore!Triggers : \/ Restore!CreateSnapshot(t) \/ Restore!CopyTarget(t) \/ Restore!WriteManifest(t)
                                      \/ Restore!PruneSnapshots(t) \/ Restore!SnapshotFails(t)
    <3> SUFFICES ASSUME NEW t \in Restore!Triggers
                 PROVE  /\ ~Restore!CreateSnapshot(t) /\ ~Restore!CopyTarget(t) /\ ~Restore!WriteManifest(t)
                        /\ ~Restore!PruneSnapshots(t) /\ ~Restore!SnapshotFails(t)
      OBVIOUS
    <3>1. ~Restore!CreateSnapshot(t)
      BY <1>2, Zenon DEF Restore!CreateSnapshot
    <3>2. ~Restore!CopyTarget(t)
      BY <1>2, Zenon DEF Restore!CopyTarget
    <3>3. ~Restore!WriteManifest(t)
      BY <1>2, Zenon DEF Restore!WriteManifest
    <3>4. ~Restore!PruneSnapshots(t)
      BY <1>2, Zenon DEF Restore!PruneSnapshots
    <3>5. ~Restore!SnapshotFails(t)
      BY <1>2, Zenon DEF Restore!SnapshotFails
    <3> QED
      BY <3>1, <3>2, <3>3, <3>4, <3>5
  <2> QED
    BY <1>2, <2>1, <2>2, <2>3, <2>4, <2>5, <2>6, <2>7, <2>8, <2>9, <2>10, Zenon DEF Restore!Next
<1>3. CASE UNCHANGED RestoreVars
  BY <1>3
<1> QED
  BY <1>1, <1>2, <1>3

\* RestoreSafe: a snapshot called ready that nothing disturbed can be restored, and a restore leaves all
\* or nothing of what the program did not write, but for the target that failed.
THEOREM RestoresAreWhole == Spec => RestoreSafe
<1>1. Init => RestoreInv
  BY RestoreInitially
<1>2. RestoreInv /\ [Next]_vars => RestoreInv'
  BY RestorePart, RestoreStep
<1>3. RestoreInv /\ [Next]_vars => [Restore!AllOrNothing]_Restore!vars
  BY RestorePart, RestoresEnd DEF RestoreVars, Restore!vars
<1>4. RestoreInv => (system = "restore" => Restore!TypeOK /\ Restore!ReadyIsRestorable)
  BY SnapshotsAreRestorable
<1> QED
  BY <1>1, <1>2, <1>3, <1>4, PTL DEF Spec, RestoreSafe, Restore!RestoreAllOrNothing
=============================================================================
