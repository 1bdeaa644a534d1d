------------------------------ MODULE Browser ------------------------------
(***************************************************************************)
(* The browser behind /browser/snapshot and /browser/click                  *)
(* (services/browser-service.ts, api/handlers/browser.ts).  The first       *)
(* request launches it, in three awaits; requests share its one page, and   *)
(* clicks name an element of a snapshot that is kept for a while.           *)
(***************************************************************************)
EXTENDS Naturals, Sequences, SequencesExt

CONSTANTS Calls,
          SNAPSHOT_CONTEXT_LIMIT,
          MaxLaunches, MaxCaptures,   \* bounds
          MaxFaults                   \* bound: launches, contexts, pages and page operations that fail

VARIABLES browser, page,     \* the launch they belong to, or 0
          open,              \* the browsers that run
          snapshots,         \* snapshotContexts: an id, and the page it shows
          call,
          launched, captured, faults,
          tangled, broken    \* history: launches or closes overlapped; an init failed after its launch
vars == <<browser, page, open, snapshots, call, launched, captured, faults, tangled, broken>>

NoCall == [at |-> "none", op |-> "none", own |-> 0, want |-> 0, snap |-> [id |-> 0, page |-> 0]]

Init == /\ browser = 0 /\ page = 0 /\ open = {}
        /\ snapshots = <<>>
        /\ call = [c \in Calls |-> NoCall]
        /\ launched = 0 /\ captured = 0 /\ faults = 0
        /\ tangled = FALSE /\ broken = FALSE

Step(c, r) == call' = [call EXCEPT ![c] = r]
Over(c) == Step(c, NoCall)
At(place) == {c \in Calls : call[c].at = place}
KeepBrowser == UNCHANGED <<browser, page, open, launched, broken>>

(***************************************************************************)
(* A method of the service: init without a page, then one page operation.   *)
(***************************************************************************)

\* Without an id, a click means the newest snapshot.
Meant(want) == IF want = 0 THEN IF snapshots = <<>> THEN {} ELSE {Last(snapshots)}
               ELSE {s \in ToSet(snapshots) : s.id = want}

\* The operation that is asked of page p; a click that means no snapshot is refused.
Asked(op, want, p) ==
    IF op = "click" /\ Meant(want) = {} THEN NoCall
    ELSE [at |-> "page", op |-> op, own |-> p, want |-> want,
          snap |-> IF op = "click" THEN CHOOSE s \in Meant(want) : TRUE ELSE NoCall.snap]

\* init does nothing if there is a browser: then, without a page, the method throws.
Method(c, op, want) ==
    IF page # 0 THEN Step(c, Asked(op, want, page)) /\ UNCHANGED tangled
    ELSE IF browser # 0 THEN Over(c) /\ UNCHANGED tangled
    ELSE /\ Step(c, [NoCall EXCEPT !.at = "launch", !.op = op, !.want = want])
         /\ tangled' = (tangled \/ At("launch") \ {c} # {})

Begin(c) == /\ call[c] = NoCall
            /\ \/ Method(c, "work", 0)
               \/ \E want \in 0..captured : Method(c, "click", want)
            /\ KeepBrowser /\ UNCHANGED <<snapshots, captured, faults>>

Launch(c) == /\ call[c].at = "launch" /\ launched < MaxLaunches
             /\ launched' = launched + 1
             /\ browser' = launched' /\ open' = open \cup {launched'}
             /\ Step(c, [call[c] EXCEPT !.at = "context", !.own = launched'])
             /\ UNCHANGED <<page, snapshots, captured, faults, tangled, broken>>

NewContext(c) == /\ call[c].at = "context" /\ call[c].own \in open
                 /\ Step(c, [call[c] EXCEPT !.at = "new page"])
                 /\ KeepBrowser /\ UNCHANGED <<snapshots, captured, faults, tangled>>

NewPage(c) == /\ call[c].at = "new page" /\ call[c].own \in open
              /\ page' = call[c].own
              /\ Step(c, Asked(call[c].op, call[c].want, page'))
              /\ UNCHANGED <<browser, open, snapshots, launched, captured, faults, tangled, broken>>

\* A snapshot navigates, takes a screenshot and reads the tree before it captures its references;
\* a click by selector or by coordinates is one operation.
Works(c) == /\ call[c].at = "page" /\ call[c].op = "work" /\ call[c].own \in open
            /\ \/ Method(c, "work", 0)
               \/ Method(c, "capture", 0)
               \/ Over(c) /\ UNCHANGED tangled
            /\ KeepBrowser /\ UNCHANGED <<snapshots, captured, faults>>

Kept(s) == IF Len(s) > SNAPSHOT_CONTEXT_LIMIT THEN SubSeq(s, Len(s) - SNAPSHOT_CONTEXT_LIMIT + 1, Len(s)) ELSE s
Capture(c) == /\ call[c].at = "page" /\ call[c].op = "capture" /\ call[c].own \in open
              /\ captured < MaxCaptures
              /\ captured' = captured + 1
              /\ snapshots' = Kept(Append(snapshots, [id |-> captured', page |-> call[c].own]))
              /\ Over(c)
              /\ KeepBrowser /\ UNCHANGED <<faults, tangled>>

Click(c) == /\ call[c].at = "page" /\ call[c].op = "click" /\ call[c].own \in open
            /\ Over(c)
            /\ KeepBrowser /\ UNCHANGED <<snapshots, captured, faults, tangled>>

(***************************************************************************)
(* close(), and failures.                                                   *)
(***************************************************************************)

Close(c) == /\ call[c] = NoCall /\ browser # 0
            /\ Step(c, [NoCall EXCEPT !.at = "close", !.own = browser])
            /\ tangled' = (tangled \/ At("close") # {})
            /\ KeepBrowser /\ UNCHANGED <<snapshots, captured, faults>>

ClosedKeepingSnapshots(c) == /\ call[c].at = "close"
                             /\ open' = open \ {call[c].own}
                             /\ browser' = 0 /\ page' = 0
                             /\ Over(c)
                             /\ UNCHANGED <<snapshots, launched, captured, faults, tangled, broken>>
Closed(c) == /\ call[c].at = "close"
             /\ open' = open \ {call[c].own}
             /\ browser' = 0 /\ page' = 0 /\ snapshots' = <<>>
             /\ Over(c)
             /\ UNCHANGED <<launched, captured, faults, tangled, broken>>

\* What runs in a browser that is closed or being closed fails.
Gone(b) == b \notin open \/ \E d \in At("close") : call[d].own = b
Fails(c) == /\ call[c].at \in {"launch", "context", "new page", "page"}
            /\ IF call[c].at # "launch" /\ Gone(call[c].own) THEN UNCHANGED faults
               ELSE faults < MaxFaults /\ faults' = faults + 1
            /\ broken' = (broken \/ call[c].at \in {"context", "new page"})
            /\ Over(c)
            /\ UNCHANGED <<browser, page, open, snapshots, launched, captured, tangled>>

Next == \E c \in Calls : \/ Begin(c) \/ Launch(c) \/ NewContext(c) \/ NewPage(c) \/ Works(c) \/ Capture(c)
                         \/ Click(c) \/ Close(c) \/ Closed(c) \/ Fails(c)

Spec == Init /\ [][Next]_vars

(***************************************************************************)
(* Properties.                                                              *)
(***************************************************************************)

TypeOK == /\ browser \in 0..MaxLaunches /\ page \in 0..MaxLaunches /\ open \subseteq 1..MaxLaunches
          /\ \A c \in Calls : call[c].at \in {"none", "launch", "context", "new page", "page", "close"}
          /\ captured \in 0..MaxCaptures /\ faults \in 0..MaxFaults

\* Unless first requests or closes overlap, no browser is left running behind the service's back, it
\* has a page unless its init is under way or failed, and a reference is only used on the page it was
\* taken of, however the browser was closed and launched again since.  A click with an id uses that
\* snapshot or none, and of the snapshots the last few are kept.
BrowserSafe ==
    /\ ~tangled => /\ open \subseteq {browser}
                   /\ browser # 0 /\ page = 0 => broken \/ At("context") \cup At("new page") # {}
                   /\ page # 0 => page = browser
                   /\ \A s \in ToSet(snapshots) : s.page = page
                   /\ \A c \in Calls : call[c].op = "click" /\ call[c].at = "page" => call[c].snap.page = call[c].own
    /\ \A c \in Calls : call[c].at = "page" /\ call[c].want # 0 => call[c].snap.id = call[c].want
    /\ \A i \in DOMAIN snapshots : snapshots[i].id = captured - Len(snapshots) + i
    /\ Len(snapshots) <= SNAPSHOT_CONTEXT_LIMIT
=============================================================================
