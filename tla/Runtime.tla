------------------------------ MODULE Runtime ------------------------------
(***************************************************************************)
(* The components that live in the memory of the gateway process: webhooks, *)
(* inbound messages, turns and their memory, tool servers, jobs, the event  *)
(* stream and the browser.  They meet in the queue, the incident manager    *)
(* and the router, which have runs of their own; here each is run by        *)
(* itself, as `system`, and the others stay at their start.                 *)
(***************************************************************************)
EXTENDS Integers, Sequences, FiniteSets

CONSTANTS Slots,    \* concurrent calls, runs or turns
          Faults,
          Keys, Queued, Deliveries,                                           \* webhooks
          Kinds, Allowed, Texts, MaxMessages,                                 \* messages and replies
          MinChars, MaxChars, BreakOn, Coalesce, Lengths, MaxSentences,
          Servers, Offers, Builtin, Flaky,                                    \* tool servers
          FailureThreshold, SuccessThreshold, Cooldown,
          Jobs, MaxChanges, MaxRuns,                                          \* jobs
          Clients, Topics, Produced, MaxSeq,                                  \* the event stream
          SNAPSHOT_CONTEXT_LIMIT, MaxLaunches, MaxCaptures,                   \* the browser
          Sessions, Named, BuiltinSkills, Global, Overrides, Batches,         \* turns
          MaxRounds, RepeatLimit, MaxPolicies,
          Config, Sizes, TextSizes, MaxHistory,                               \* the context of a turn
          Claims, Contents, MaxTurns                                          \* the memory

ASSUME RuntimeAssumption ==
    /\ IsFiniteSet(Slots) /\ IsFiniteSet(Deliveries)
    /\ Faults \in Nat
    /\ {"none", "builtin"} \cap Servers = {}
    /\ FailureThreshold \in Nat \ {0} /\ SuccessThreshold \in Nat \ {0} /\ Cooldown \in Nat
    /\ MaxChanges \in Nat /\ MaxRuns \in Nat /\ MaxSeq \in Nat
    /\ SNAPSHOT_CONTEXT_LIMIT \in Nat \ {0} /\ MaxLaunches \in Nat /\ MaxCaptures \in Nat

\* A text is a sequence of paragraphs, none of them blank, a paragraph one of sentences.
ASSUME InboundAssumption ==
    /\ \A k \in Kinds : k.text \in BOOLEAN /\ k.voice \in BOOLEAN
    /\ MaxMessages \in Nat /\ MaxSentences \in Nat /\ Lengths \subseteq Nat \ {0}
    /\ MinChars \in Nat \ {0} /\ MaxChars \in Nat /\ MinChars < MaxChars
    /\ BreakOn \in {"paragraph", "sentence"} /\ Coalesce \in BOOLEAN
    /\ Texts \subseteq Seq(Seq([id : STRING, len : Nat \ {0}]) \ {<<>>})

\* Rules allow or deny; the filter passes a tool or not.
ASSUME TalkAssumption ==
    /\ Batches \subseteq Seq(STRING) /\ MaxRounds \in Nat \ {0} /\ RepeatLimit \in Nat \ {0}
    /\ \A n \in DOMAIN Named : Named[n].permitted \in BOOLEAN
    /\ \A p \in {Global} \cup Overrides : \A n \in DOMAIN p.rules : p.rules[n] \in {"allow", "deny"}

\* Numbers of any sign, which resolveContextBudgetConfig puts into their limits; budgets and texts are
\* of less than a million tokens.
ASSUME ContextAssumption ==
    /\ Config \in [history : Int, memory : Int, delegation : Int, lifecycle : Int, hotLimit : Int, warmLimit : Int,
                   topKMin : Int, topKMax : Int, perItem : Int, summaryEntries : Int]
    /\ Config.memory < 10^6 /\ Config.delegation < 10^6 /\ Config.lifecycle < 10^6
    /\ Sizes \subseteq Nat /\ TextSizes \subseteq 0 .. 4 * (10^6 - 1)

ASSUME MemoryAssumption ==
    /\ Contents \subseteq Seq([claim : Claims, polarity : {"affirmed", "denied"}]) /\ "none" \notin Claims
    /\ MaxTurns \in Nat

VARIABLES system,
          wReceipt, wRow, wTurns, wDelivery, wFaults, wSpoilt,
          iDebounced, iMessages, iWindow, iCall, iOutbox, iStopped, iHeard,
          cText,
          mAdapter, mCircuit, mRegistry, mCall, mUp, mFaults, mUnheard, mStreak,
          jJob, jRun, jEnabled, jChanges, jRuns, jFaults, jFailed, jAlerted, jMissed,
          tTurn, tRows, tRegistered, tTools, tOverride, tChanges, tBatches,
          xSizes, xTexts,
          hClient, hSeq, hInbox, hStopped, hMute, hDropped,
          bBrowser, bPage, bOpen, bSnapshots, bCall, bLaunched, bCaptured, bFaults, bTangled, bBroken,
          sMemory, sNodes, sEdges, sTurn, sBegun, sFaults, sCut

Webhook == INSTANCE WebhookIntake WITH
    MaxFaults <- Faults + 1,
    receipt <- wReceipt, row <- wRow, turns <- wTurns, delivery <- wDelivery, faults <- wFaults, spoilt <- wSpoilt

Inbound == INSTANCE Inbound WITH
    debounced <- iDebounced, messages <- iMessages, window <- iWindow, call <- iCall, outbox <- iOutbox,
    stopped <- iStopped, heard <- iHeard

\* The chunker by itself: texts that grow by sentences and paragraphs.
Longer(s) == IF cText = <<>> THEN {<<<<s>>>>}
             ELSE {Append(cText, <<s>>), [cText EXCEPT ![Len(cText)] = Append(@, s)]}
Compose == LET n == Len(Inbound!Flat(cText))
           IN n < MaxSentences /\ \E l \in Lengths : cText' \in Longer([id |-> n + 1, len |-> l])

Mcp == INSTANCE McpServers WITH
    Calls <- Slots, MaxFaults <- Faults,
    adapter <- mAdapter, circuit <- mCircuit, registry <- mRegistry, call <- mCall, up <- mUp, faults <- mFaults,
    unheard <- mUnheard, streak <- mStreak

Scheduler == INSTANCE JobScheduler WITH
    Runs <- Slots, MaxFaults <- Faults + 1,
    job <- jJob, run <- jRun, enabled <- jEnabled, changes <- jChanges, runs <- jRuns, faults <- jFaults,
    failed <- jFailed, alerted <- jAlerted, missed <- jMissed

Talk == INSTANCE Conversation WITH
    Turns <- Slots, Builtin <- BuiltinSkills, MaxChanges <- MaxPolicies,
    turn <- tTurn, rows <- tRows, registered <- tRegistered, tools <- tTools, override <- tOverride,
    changes <- tChanges, batches <- tBatches

Context == INSTANCE ContextWindow WITH sizes <- xSizes, texts <- xTexts

Hub == INSTANCE WsHub WITH
    client <- hClient, seq <- hSeq, inbox <- hInbox, stopped <- hStopped, mute <- hMute, dropped <- hDropped

Browser == INSTANCE Browser WITH
    Calls <- Slots, MaxFaults <- Faults,
    browser <- bBrowser, page <- bPage, open <- bOpen, snapshots <- bSnapshots, call <- bCall, launched <- bLaunched,
    captured <- bCaptured, faults <- bFaults, tangled <- bTangled, broken <- bBroken

Memory == INSTANCE SemanticMemory WITH
    Turns <- Slots, MaxFaults <- Faults,
    memory <- sMemory, nodes <- sNodes, edges <- sEdges, turn <- sTurn, begun <- sBegun, faults <- sFaults, cut <- sCut

WebhookVars == <<wReceipt, wRow, wTurns, wDelivery, wFaults, wSpoilt>>
InboundVars == <<iDebounced, iMessages, iWindow, iCall, iOutbox, iStopped, iHeard>>
McpVars == <<mAdapter, mCircuit, mRegistry, mCall, mUp, mFaults, mUnheard, mStreak>>
SchedulerVars == <<jJob, jRun, jEnabled, jChanges, jRuns, jFaults, jFailed, jAlerted, jMissed>>
TalkVars == <<tTurn, tRows, tRegistered, tTools, tOverride, tChanges, tBatches>>
ContextVars == <<xSizes, xTexts>>
HubVars == <<hClient, hSeq, hInbox, hStopped, hMute, hDropped>>
BrowserVars == <<bBrowser, bPage, bOpen, bSnapshots, bCall, bLaunched, bCaptured, bFaults, bTangled, bBroken>>
MemoryVars == <<sMemory, sNodes, sEdges, sTurn, sBegun, sFaults, sCut>>

Init == /\ system \in {"webhook", "inbound", "chunker", "mcp", "jobs", "talk", "context", "hub", "browser", "memory"}
        /\ Webhook!Init /\ Inbound!Init /\ (iDebounced \/ system = "inbound") /\ cText = <<>>
        /\ Mcp!Init /\ Scheduler!Init /\ Talk!Init /\ Context!Init /\ Hub!Init /\ Browser!Init /\ Memory!Init

Rest(s) == /\ s # "webhook" => UNCHANGED WebhookVars
           /\ s # "inbound" => UNCHANGED InboundVars
           /\ s # "chunker" => UNCHANGED cText
           /\ s # "mcp" => UNCHANGED McpVars
           /\ s # "jobs" => UNCHANGED SchedulerVars
           /\ s # "talk" => UNCHANGED TalkVars
           /\ s # "context" => UNCHANGED ContextVars
           /\ s # "hub" => UNCHANGED HubVars
           /\ s # "browser" => UNCHANGED BrowserVars
           /\ s # "memory" => UNCHANGED MemoryVars

Next == /\ \/ system = "webhook" /\ Webhook!Next
           \/ system = "inbound" /\ Inbound!Next
           \/ system = "chunker" /\ Compose
           \/ system = "mcp" /\ Mcp!Next
           \/ system = "jobs" /\ Scheduler!Next
           \/ system = "talk" /\ Talk!Next
           \/ system = "context" /\ Context!Next
           \/ system = "hub" /\ Hub!Next
           \/ system = "browser" /\ Browser!Next
           \/ system = "memory" /\ Memory!Next
        /\ Rest(system)
        /\ UNCHANGED system

vars == <<system, WebhookVars, InboundVars, cText, McpVars, SchedulerVars, TalkVars, ContextVars, HubVars,
          BrowserVars, MemoryVars>>
Spec == Init /\ [][Next]_vars /\ Inbound!Fairness /\ Mcp!Fairness /\ Hub!Fairness

(***************************************************************************)
(* The properties of the components, defined and explained in their         *)
(* modules.                                                                 *)
(***************************************************************************)

\* The state of every component keeps its shape.
RuntimeTypeOK == /\ Webhook!TypeOK /\ Inbound!TypeOK /\ Mcp!TypeOK /\ Scheduler!TypeOK
                 /\ Talk!TypeOK /\ Hub!TypeOK /\ Browser!TypeOK /\ Memory!TypeOK

\* The webhook handler: deliveries of a key that do not overlap are processed once, and the
\* answers agree with what was done.
WebhookOnce == system = "webhook" => Webhook!WebhookOnce

\* Dispatcher and debounce: every reply is sent whole and in order however it is cut and paused,
\* and no text is heard twice; the chunker keeps every sentence of every text.
RepliesWhole == /\ system = "inbound" => Inbound!RepliesWhole
                /\ system = "chunker" => Inbound!ChunksWhole(cText)

\* Tool servers: what is registered can be called, and a server that keeps failing is spared.
McpSafe == []Mcp!ToolsCallable /\ Mcp!FailingServerSpared

\* Turns: bounded, with a whole transcript and governed tools; what they show the model of the past
\* has every message in one tier and keeps to its budgets; what they remember is linked with what
\* contradicts it.
TurnsSafe == /\ system = "talk" => Talk!TurnSafe
             /\ system = "context" => Context!ContextSound
             /\ system = "memory" => Memory!MemorySound

\* Jobs, the event stream and the browser: what is shown and told of a job is so, events reach only
\* those that may have them, in order and after their snapshot, and a reference is used on its page.
BackgroundSafe == /\ system = "jobs" => Scheduler!JobsSafe
                  /\ system = "hub" => Hub!HubSafe
                  /\ system = "browser" => Browser!BrowserSafe

\* A text of an allowed sender is heard, the breaker of a server that recovered closes, and a client
\* that answers no more is evicted.
RuntimeLive == Inbound!EveryTextIsHeard /\ Mcp!BreakerRecovers /\ Hub!SilentEvicted
=============================================================================
