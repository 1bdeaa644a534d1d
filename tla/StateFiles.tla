----------------------------- MODULE StateFiles -----------------------------
(***************************************************************************)
(* The components that keep their state in files, or in tables that several *)
(* processes write: persona documents, snapshots, pairing, secrets, skill   *)
(* packages, releases, the gate and settings.  A behaviour of all of them   *)
(* is an interleaving of one behaviour of each: they share no file.  Here   *)
(* one of them runs, `system`, and the others stay at their start.          *)
(***************************************************************************)
EXTENDS Naturals, Sequences, FiniteSets

CONSTANTS Clients,   \* concurrent sessions, requests or runs
          Faults,
          MaxTime,
          Docs, Present,                                                      \* persona documents
          Targets, Holds, Kept, MaxBackups, MaxRestores, MaxEvents,           \* backups
          Senders, Configured, MaxPending, Ttl, MaxCodes,                     \* pairing
          Secrets, Window, MaxValues,                                         \* secrets
          Catalog, Ranges, MaxWithdrawn,                                      \* skill packages
          Assets, Directories, Retention, DrillRetention,                     \* releases
          MaxSnapshots, MaxWrites,
          Checks, MaxChanges,                                                 \* the gate
          Sections, ModelKeys, RequiredKeys                                   \* settings

\* The lists of documents, targets, assets and checks are those of the code: not empty, and nothing is in one
\* twice.  A drill keeps 10 snapshots and a release 5 unless it is told otherwise.
Listed(list) == /\ list \in Seq({list[i] : i \in DOMAIN list}) /\ list # <<>>
                /\ \A i, j \in DOMAIN list : list[i] = list[j] => i = j
ASSUME StateFilesAssumption ==
    /\ Faults \in Nat /\ MaxTime \in Nat /\ MaxCodes \in Nat /\ MaxValues \in Nat
    /\ MaxSnapshots \in Nat /\ MaxWrites \in Nat /\ MaxChanges \in Nat
    /\ Listed(Docs) /\ "absent" \notin Clients
    /\ Listed(Targets) /\ MaxBackups \in Nat /\ MaxEvents \in Nat
    /\ MaxPending \in Nat /\ Ttl \in Nat /\ Window \in Nat \ {0}
    /\ Listed(Assets) /\ Retention \in Nat \ {0} /\ DrillRetention \in Nat /\ Retention < DrillRetention
    /\ Listed(Checks) /\ "API_SECRET" \in Secrets
    /\ Sections \in Seq(Seq(STRING)) /\ Sections # <<>> /\ \A s \in DOMAIN Sections : Sections[s] # <<>>

VARIABLES system,
          pFile, pReq, pFaults, pAgreed, pSpoilt,
          bLive, bSnap, bRows, bJob, bRestore, bEvents, bRestores, bMoves,
          dPending, dAllow, dCall, dClock, dCodes, dDeaths, dChallenged, dApproved, dLost,
          vRegistry, vCurrent, vVersions, vConfig, vGateway, vClock, vValues, vSaved, vRekeyed,
          kCatalog, kLock, kTmp, kReq, kFaults, kAgreed, kSpoilt,
          rAsset, rSnaps, rState, rLatest, rOp, rWrites, rFaults, rTaken, rDrift,
          gGood, gRun, gReports, gLatest, gSmoke, gChanges,
          wFile, wWizard, wQuick, wOverlapped

Persona == INSTANCE PersonaState WITH
    Requests <- Clients, MaxFaults <- Faults,
    file <- pFile, req <- pReq, faults <- pFaults, agreed <- pAgreed, spoilt <- pSpoilt

Restore == INSTANCE StateRestore WITH
    Retention <- Kept, MaxSnapshots <- MaxBackups,
    live <- bLive, snap <- bSnap, rows <- bRows, job <- bJob, restore <- bRestore,
    events <- bEvents, restores <- bRestores, moves <- bMoves

Pairing == INSTANCE DmPairing WITH
    MaxDeaths <- Faults,
    pending <- dPending, allow <- dAllow, call <- dCall, clock <- dClock, codes <- dCodes,
    deaths <- dDeaths, challenged <- dChallenged, approved <- dApproved, lost <- dLost

Vault == INSTANCE SecretVault WITH
    registry <- vRegistry, current <- vCurrent, versions <- vVersions, config <- vConfig,
    gateway <- vGateway, clock <- vClock, values <- vValues, saved <- vSaved, rekeyed <- vRekeyed

Packages == INSTANCE SkillPackages WITH
    Requests <- Clients, MaxFaults <- Faults,
    catalog <- kCatalog, lock <- kLock, tmp <- kTmp, req <- kReq, faults <- kFaults,
    agreed <- kAgreed, spoilt <- kSpoilt

Release == INSTANCE ReleasePipeline WITH
    MaxFaults <- Faults,
    asset <- rAsset, snaps <- rSnaps, state <- rState, latest <- rLatest, op <- rOp,
    writes <- rWrites, faults <- rFaults, taken <- rTaken, drift <- rDrift

Gate == INSTANCE MvpGate WITH
    Runs <- Clients,
    good <- gGood, run <- gRun, reports <- gReports, latest <- gLatest, smoke <- gSmoke, changes <- gChanges

Setup == INSTANCE SetupWizard WITH
    Required <- RequiredKeys,
    file <- wFile, wizard <- wWizard, quick <- wQuick, overlapped <- wOverlapped

PersonaVars == <<pFile, pReq, pFaults, pAgreed, pSpoilt>>
RestoreVars == <<bLive, bSnap, bRows, bJob, bRestore, bEvents, bRestores, bMoves>>
PairingVars == <<dPending, dAllow, dCall, dClock, dCodes, dDeaths, dChallenged, dApproved, dLost>>
VaultVars == <<vRegistry, vCurrent, vVersions, vConfig, vGateway, vClock, vValues, vSaved, vRekeyed>>
PackagesVars == <<kCatalog, kLock, kTmp, kReq, kFaults, kAgreed, kSpoilt>>
ReleaseVars == <<rAsset, rSnaps, rState, rLatest, rOp, rWrites, rFaults, rTaken, rDrift>>
GateVars == <<gGood, gRun, gReports, gLatest, gSmoke, gChanges>>
SetupVars == <<wFile, wWizard, wQuick, wOverlapped>>

Init == /\ system \in {"persona", "restore", "pairing", "vault", "packages", "release", "gate", "setup"}
        /\ Persona!Init /\ Restore!Init /\ Pairing!Init /\ Vault!Init /\ Packages!Init /\ Release!Init /\ Gate!Init
        /\ Setup!Init /\ (wFile = Setup!DEFAULT \/ system = "setup")

Rest(s) == /\ s # "persona" => UNCHANGED PersonaVars
           /\ s # "restore" => UNCHANGED RestoreVars
           /\ s # "pairing" => UNCHANGED PairingVars
           /\ s # "vault" => UNCHANGED VaultVars
           /\ s # "packages" => UNCHANGED PackagesVars
           /\ s # "release" => UNCHANGED ReleaseVars
           /\ s # "gate" => UNCHANGED GateVars
           /\ s # "setup" => UNCHANGED SetupVars

Next == /\ \/ system = "persona" /\ Persona!Next
           \/ system = "restore" /\ Restore!Next
           \/ system = "pairing" /\ Pairing!Next
           \/ system = "vault" /\ Vault!Next
           \/ system = "packages" /\ Packages!Next
           \/ system = "release" /\ Release!Next
           \/ system = "gate" /\ Gate!Next
           \/ system = "setup" /\ Setup!Next
        /\ Rest(system)
        /\ UNCHANGED system

vars == <<system, PersonaVars, RestoreVars, PairingVars, VaultVars, PackagesVars, ReleaseVars, GateVars,
          SetupVars>>
Spec == Init /\ [][Next]_vars

(***************************************************************************)
(* The properties of the components, defined and explained in their         *)
(* modules, each with the component's type invariant.                       *)
(***************************************************************************)

\* updateState of the persona documents: all of a save or nothing, and a death in it loses no document.
PersonaSafe == system = "persona" => Persona!TypeOK /\ Persona!AllOrNothing /\ Persona!Recoverable

\* Backups: a snapshot called ready can be restored; restoreSnapshot restores all of it or nothing,
\* but for the target that failed, and a failure shows.
RestoreSafe == [](system = "restore" => Restore!TypeOK /\ Restore!ReadyIsRestorable) /\ Restore!RestoreAllOrNothing

\* DM pairing: a code that was sent stays good, and an approved sender is let in.
CodesHonoured == system = "pairing" => Pairing!TypeOK /\ Pairing!CodesHonoured

\* Secrets and settings: the gateway reads what was saved last, never what was replaced, revoked or
\* has expired, and the setup wizard saves what its user confirmed.
SavedIsRead == /\ system = "vault" => Vault!TypeOK /\ Vault!SavedIsRead
               /\ system = "setup" => Setup!SavedAsConfirmed

\* Skill packages: the lock is a closed, compatible graph and a failed change leaves nothing behind.
LockSound == system = "packages" => Packages!TypeOK /\ Packages!LockSound

\* Releases: a success restored everything, the ready release has its snapshot, and the verdict in the
\* gate's latest.json is that of a run without a hard failure.
ReleaseSafe == /\ system = "release" => Release!TypeOK /\ Release!RollbackComplete /\ Release!ReadyHasSnapshot
               /\ system = "gate" => Gate!TypeOK /\ Gate!GateHonest
=============================================================================
