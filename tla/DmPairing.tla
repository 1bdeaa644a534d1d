----------------------------- MODULE DmPairing -----------------------------
(***************************************************************************)
(* Pairing of unknown senders (services/dm-pairing.ts, core/pairing-cli.ts  *)
(* and the authorisation in interfaces/dispatcher.ts), for one channel.     *)
(* The gateway gives an unknown sender a code, the operator approves it on  *)
(* the command line.  Both processes read, change and rename the same two   *)
(* files, and nothing locks them: a step is a read or a write of one file.  *)
(* A code is modelled by a number; none is drawn twice.                     *)
(***************************************************************************)
EXTENDS Naturals, FiniteSets

CONSTANTS Senders,
          Configured,      \* allowFrom of the gateway's configuration
          MaxPending,      \* maxPendingPerChannel
          Ttl,             \* codeTtlMs
          MaxTime,         \* bound: the clock
          MaxCodes,        \* bound: codes drawn
          MaxDeaths        \* bound: processes killed

VARIABLES pending,         \* <channel>-pairing.json: requests
          allow,           \* <channel>-allowFrom.json: senders
          call,            \* what each process is executing
          clock, codes, deaths,
          challenged,      \* history: requests whose code was sent, and not approved
          approved,        \* history: senders the command line reported as approved
          lost             \* history: a write undid another's write, or a process died
vars == <<pending, allow, call, clock, codes, deaths, challenged, approved, lost>>

Processes == {"gateway", "cli"}
Idle == [op |-> "idle", at |-> "none", sender |-> "nobody", code |-> 0, now |-> 0, read |-> {}]

Init == /\ pending = {} /\ allow = {}
        /\ call = [p \in Processes |-> Idle]
        /\ clock = 0 /\ codes = 0 /\ deaths = 0
        /\ challenged = {} /\ approved = {} /\ lost = FALSE

Active(requests, now) == {r \in requests : r.expires > now}

Begin(p, op, at, sender, code) ==
    /\ call[p] = Idle
    /\ call' = [call EXCEPT ![p] = [Idle EXCEPT !.op = op, !.at = at, !.sender = sender, !.code = code, !.now = clock]]
    /\ UNCHANGED <<pending, allow, clock, codes, deaths, challenged, approved, lost>>

\* The gateway starts: the constructor of the dispatcher seeds the allowed senders.
StartGateway == Configured # {} /\ Begin("gateway", "seed", "readAllow", "nobody", 0)
\* A message arrives; the operator lists the requests, or approves a code.
Authorize(s) == s \notin Configured /\ Begin("gateway", "request", "check", s, 0)
ListPending == Begin("cli", "list", "readPending", "nobody", 0)
ApproveCode(c) == Begin("cli", "approve", "readPending", "nobody", c)

\* isApproved: the sender is let in, or asks for a code.
CheckApproved(p) ==
    /\ call[p].at = "check"
    /\ call' = [call EXCEPT ![p] = IF @.sender \in allow THEN Idle ELSE [@ EXCEPT !.at = "readPending"]]
    /\ UNCHANGED <<pending, allow, clock, codes, deaths, challenged, approved, lost>>

ReadPending(p) ==
    /\ call[p].at = "readPending"
    /\ call' = [call EXCEPT ![p].at = "writePending", ![p].read = pending]
    /\ UNCHANGED <<pending, allow, clock, codes, deaths, challenged, approved, lost>>

\* Writing the pending requests: lost when the file is not the one that was read.
WriteRequests(p, requests) ==
    /\ pending' = requests
    /\ lost' = (lost \/ pending # call[p].read)

\* Nothing is written when no request has expired.
Prune(p) == LET c == call[p]
            IN IF Active(c.read, c.now) = c.read THEN UNCHANGED <<pending, lost>>
               ELSE WriteRequests(p, Active(c.read, c.now))

\* One request per sender, MaxPending in all; a new one is a challenge sent to the sender.
RequestPairing(p) ==
    LET c == call[p]
        active == Active(c.read, c.now)
        new == [sender |-> c.sender, code |-> codes + 1, expires |-> c.now + Ttl]
    IN /\ c.at = "writePending" /\ c.op = "request"
       /\ \/ /\ (\E r \in active : r.sender = c.sender) \/ Cardinality(active) >= MaxPending
             /\ Prune(p)
             /\ UNCHANGED <<codes, challenged>>
          \/ /\ \A r \in active : r.sender # c.sender
             /\ Cardinality(active) < MaxPending /\ codes < MaxCodes
             /\ WriteRequests(p, active \cup {new})
             /\ codes' = codes + 1
             /\ challenged' = challenged \cup {new}
       /\ call' = [call EXCEPT ![p] = Idle]
       /\ UNCHANGED <<allow, clock, deaths, approved>>

List(p) == /\ call[p].at = "writePending" /\ call[p].op = "list"
           /\ Prune(p)
           /\ call' = [call EXCEPT ![p] = Idle]
           /\ UNCHANGED <<allow, clock, codes, deaths, challenged, approved>>

\* An unknown or expired code only prunes; otherwise the request leaves the file before its
\* sender enters the other one.
Approve(p) ==
    LET c == call[p]
        found == {r \in c.read : r.code = c.code}
    IN /\ c.at = "writePending" /\ c.op = "approve"
       /\ \/ /\ found \cap Active(c.read, c.now) = {}
             /\ Prune(p)
             /\ call' = [call EXCEPT ![p] = Idle]
          \/ \E r \in found : /\ r.expires > c.now
                              /\ WriteRequests(p, Active(c.read, c.now) \ found)
                              /\ call' = [call EXCEPT ![p].at = "readAllow", ![p].sender = r.sender, ![p].read = {}]
       /\ UNCHANGED <<allow, clock, codes, deaths, challenged, approved>>

ReadAllow(p) ==
    /\ call[p].at = "readAllow"
    /\ call' = [call EXCEPT ![p].at = "writeAllow", ![p].read = allow]
    /\ UNCHANGED <<pending, allow, clock, codes, deaths, challenged, approved, lost>>

Added(p) == IF call[p].op = "seed" THEN Configured ELSE {call[p].sender}
MergedOnlyNew(p) == Added(p)
Merged(p) == call[p].read \cup Added(p)

\* The senders merged into those that were read; the command line reports the approval.
WriteAllow(p) ==
    /\ call[p].at = "writeAllow"
    /\ allow' = Merged(p)
    /\ lost' = (lost \/ allow # call[p].read)
    /\ IF call[p].op = "approve"
       THEN /\ approved' = approved \cup {call[p].sender}
            /\ challenged' = {r \in challenged : r.code # call[p].code}
       ELSE UNCHANGED <<approved, challenged>>
    /\ call' = [call EXCEPT ![p] = Idle]
    /\ UNCHANGED <<pending, clock, codes, deaths>>

\* A process is killed, or the operation it is at fails: the temporary file is of no consequence.
Die(p) == /\ deaths < MaxDeaths /\ call[p] # Idle
          /\ call' = [call EXCEPT ![p] = Idle]
          /\ deaths' = deaths + 1
          /\ lost' = (lost \/ (call[p].op = "approve" /\ call[p].at \in {"readAllow", "writeAllow"}))
          /\ UNCHANGED <<pending, allow, clock, codes, challenged, approved>>

Tick == /\ clock < MaxTime
        /\ clock' = clock + 1
        /\ UNCHANGED <<pending, allow, call, codes, deaths, challenged, approved, lost>>

Next == \/ StartGateway \/ ListPending \/ Tick
        \/ \E s \in Senders : Authorize(s)
        \/ \E c \in 1..codes : ApproveCode(c)
        \/ \E p \in Processes : \/ CheckApproved(p) \/ ReadPending(p) \/ RequestPairing(p) \/ List(p)
                                \/ Approve(p) \/ ReadAllow(p) \/ WriteAllow(p) \/ Die(p)

Spec == Init /\ [][Next]_vars

(***************************************************************************)
(* Properties.                                                              *)
(***************************************************************************)

TypeOK == /\ Cardinality(pending) <= MaxPending
          /\ allow \subseteq Senders \cup Configured
          /\ \A r \in pending : r.code \in 1..codes /\ r.expires <= clock + Ttl
          /\ clock \in 0..MaxTime /\ deaths \in 0..MaxDeaths

\* Both ends keep their word while no write undoes another and no approval is cut in two: a sender
\* reported as approved is let in from then on, and the code a sender was sent stays good until
\* it expires or is approved; no sender ever has two good codes.
Approving(r) == \E p \in Processes : call[p].at \in {"readAllow", "writeAllow"} /\ call[p].code = r.code
CodesHonoured ==
    ~lost => /\ approved \subseteq allow
             /\ \A r \in challenged : r.expires > clock => r \in pending \/ Approving(r)
             /\ \A r, q \in Active(pending, clock) : r.sender = q.sender => r = q
=============================================================================
