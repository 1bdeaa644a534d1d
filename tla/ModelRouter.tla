---------------------------- MODULE ModelRouter ----------------------------
(***************************************************************************)
(* Routing of completions: createChatCompletion of ModelRouter             *)
(* (services/model-router.ts) under the directives of RuntimeBudgetGovernor*)
(* (services/runtime-budget-governor.ts), which reads the table            *)
(* runtime_usage_events (services/db.ts).                                  *)
(*                                                                         *)
(* Completions interleave at their awaits: the pacing delay, the wait for a*)
(* cooldown, the request, the backoff after a 429.  An action is all that a*)
(* completion does from one of them to the next: after a failed request,   *)
(* say, the walk over the models that are passed over and the next request.*)
(*                                                                         *)
(* Each model has a provider of its own, so a provider is named by its     *)
(* model.  A usage event counts one request; its tokens are not modelled.  *)
(***************************************************************************)
EXTENDS Integers, Sequences, FiniteSets, FiniteSetsExt

CONSTANTS
    Calls,             \* completions that run at a time
    Sessions,          \* budget sessions
    Configs,           \* [keyed : models with a key, local : see NotLocal]
    Cooldowns,         \* Retry-After values of a 429
    MaxWait,           \* intelligentPacingMaxWaitMs
    WarningPacing, HardPacing,
    ProviderCooldown,  \* providerCooldownMs
    DailyLimit, SessionLimit, ProviderLimit,   \* requests
    WarningPercent,    \* 100 * warningRatio
    MaxEvents          \* bound: completions, operators' acts, midnights, restarts

Chain  == <<"primary", "fallback_1", "fallback_2">>
Models == {Chain[i] : i \in DOMAIN Chain}

CheapestFirst == <<"fallback_2", "fallback_1", "primary">>   \* getCostRank
BalancedFirst == <<"fallback_1", "primary", "fallback_2">>   \* getBalancedRank

Profiles == {"economy", "balanced", "performance"}
Modes    == {"intelligent_pacing", "aggressive_fallback"}
NoProfile == "no profile"   \* no manual profile: the default decides
NotLocal  == "not local"    \* RUNTIME_BUDGET_PREFER_LOCAL_MODEL is off

ASSUME RouterAssumption ==
    /\ IsFiniteSet(Calls) /\ Sessions # {}
    /\ Configs \subseteq [keyed : SUBSET Models, local : STRING]
    /\ Cooldowns \subseteq Nat
    /\ MaxWait \in Nat /\ WarningPacing \in Nat /\ HardPacing \in Nat
    /\ ProviderCooldown \in Nat \ {0} /\ WarningPercent \in Nat \ {0}
    /\ DailyLimit \in Nat \ {0} /\ SessionLimit \in Nat \ {0} /\ ProviderLimit \in Nat \ {0}
    /\ MaxEvents \in Nat

VARIABLES
    config,     \* what the process was configured with
    mode,       \* fallbackMode, which persists
    manual,     \* the manual profile, which persists
    preferred,  \* preferredModelIndex
    cool,       \* m |-> clock units left of its cooldown
    pcool,      \* m |-> clock units left of its provider's cooldown
    usage,      \* the counts of runtime_usage_events the governor reads
    call,       \* c |-> the completion under way
    limited,    \* history, m |-> units left since the last 429 of m's provider
    asked,      \* history, m |-> requests to its provider, today, since the start
    events      \* bound: what MaxEvents bounds, so far

setting == <<mode, manual, preferred>>
vars == <<config, setting, cool, pcool, usage, call, limited, asked, events>>

-----------------------------------------------------------------------------
(* The state.                                                              *)

Phases == {"idle", "pacing", "waiting", "requesting", "backoff", "retrying"}

CallRecords == [phase : Phases, session : Sessions, profile : Profiles,
                blocked : SUBSET Models, left : Seq(Models), timer : Nat,
                barred : SUBSET Models]

\* profile matters until the chain is ordered; left is the model that c is at
\* and the ones to come.
NoCall == [phase |-> "idle", session |-> CHOOSE s \in Sessions : TRUE,
           profile |-> "performance", blocked |-> {}, left |-> <<>>, timer |-> 0,
           barred |-> {}]

Upto(n, limit) == IF n < limit THEN n ELSE limit

\* Counts are only compared with their limits and stop there.
Usage == [today : [Models -> 0 .. ProviderLimit],
          day   : 0 .. DailyLimit,
          total : [Sessions -> 0 .. SessionLimit]]

\* recordUsage: a request more in session s to the provider of each of ms.
Recorded(u, s, ms) ==
    [today |-> [m \in Models |-> IF m \in ms THEN Upto(u.today[m] + 1, ProviderLimit)
                                ELSE u.today[m]],
     day   |-> Upto(u.day + Cardinality(ms), DailyLimit),
     total |-> [u.total EXCEPT ![s] = Upto(@ + Cardinality(ms), SessionLimit)]]

Event == events < MaxEvents /\ events' = events + 1

InFlight == 2 * Cardinality(Calls)

Init ==
    /\ config \in Configs /\ mode \in Modes
    /\ manual = NoProfile
    /\ preferred = 0
    /\ cool = [m \in Models |-> 0] /\ pcool = [m \in Models |-> 0]
    /\ usage = [today |-> [m \in Models |-> 0], day |-> 0,
                total |-> [s \in Sessions |-> 0]]
    /\ call = [c \in Calls |-> NoCall]
    /\ limited = [m \in Models |-> 0] /\ asked = [m \in Models |-> 0]
    /\ events = 0

-----------------------------------------------------------------------------
(* The governor: #evaluate.                                                *)

Near(n, limit) == 100 * n >= WarningPercent * limit

AtLimit == {m \in Models : usage.today[m] >= ProviderLimit}

Severity(s) ==
    IF usage.day >= DailyLimit \/ usage.total[s] >= SessionLimit \/ AtLimit # {}
    THEN "hard_limit"
    ELSE IF \/ Near(usage.day, DailyLimit) \/ Near(usage.total[s], SessionLimit)
            \/ \E m \in Models : Near(usage.today[m], ProviderLimit)
    THEN "warning" ELSE "ok"

\* The default profile is "performance".
Profile(s) ==
    CASE manual # NoProfile         -> manual
      [] Severity(s) = "hard_limit" -> "economy"
      [] Severity(s) = "warning"    -> "balanced"
      [] OTHER                      -> "performance"

BlockedModels(s) ==
    IF Severity(s) = "hard_limit" THEN {"primary"}
    ELSE IF config.local # NotLocal /\ Profile(s) = "economy"
    THEN Models \ {config.local} ELSE {}

Pacing(s) ==
    CASE Severity(s) = "hard_limit" -> HardPacing
      [] Severity(s) = "warning"    -> WarningPacing
      [] OTHER                      -> 0

\* An evaluation starts the cooldown of a provider at its limit.
Armed ==
    [m \in Models |-> IF m \in AtLimit /\ pcool[m] = 0 THEN ProviderCooldown ELSE pcool[m]]

BlockedUnlimited == {m \in Models : pcool[m] > 0}   \* bug: a limit blocks nobody

\* blockedProviders of the directive.
BlockedProviders == AtLimit \cup {m \in Models : pcool[m] > 0}

-----------------------------------------------------------------------------
(* A completion.                                                           *)

\* getOrderedModels
Ordered(profile) ==
    CASE profile = "economy"  -> CheapestFirst
      [] profile = "balanced" -> BalancedFirst
      [] OTHER -> [i \in 1 .. 3 |-> Chain[((preferred + i - 1) % 3) + 1]]

Asked(m) == [asked EXCEPT ![m] = Upto(@ + 1, ProviderLimit + InFlight)]

Keyed(m) == m \in config.keyed

\* The walk stops at a model to request it or to wait for its cooldown.
Stops(r, m, cooling) ==
    /\ m \notin r.blocked
    /\ IF cooling[m] > 0 THEN mode = "intelligent_pacing" ELSE Keyed(m)

\* What a record says of models the walk has passed is dropped.
At(r, phase, left, timer) ==
    [r EXCEPT !.phase = phase, !.left = left, !.timer = timer, !.profile = NoCall.profile,
              !.blocked = @ \cap Range(left), !.barred = @ \cap Range(left)]

\* c, with the record r, goes to the first model of left it stops at, or ends.
\* A model that the budget policy blocks is passed over as a request of its own.
Walk(c, r, left, cooling, u) ==
    LET stops == {i \in DOMAIN left : Stops(r, left[i], cooling)}
        k     == Min(stops \cup {Len(left) + 1})
        m     == left[k]
    IN  /\ usage' = Recorded(u, r.session, {left[i] : i \in 1 .. k - 1} \cap r.blocked)
        /\ IF stops = {} THEN call' = [call EXCEPT ![c] = NoCall] /\ UNCHANGED asked
           ELSE IF cooling[m] > 0
           THEN /\ call' = [call EXCEPT ![c] =
                      At(r, "waiting", SubSeq(left, k, Len(left)), Upto(cooling[m], MaxWait))]
                /\ UNCHANGED asked
           ELSE /\ call' = [call EXCEPT ![c] =
                      At(r, "requesting", SubSeq(left, k, Len(left)), 0)]
                /\ asked' = Asked(m)

Current(c) == Head(call[c].left)

\* bug: a failed model is tried for ever.
PassOnNowhere(c, cooling, u) == Walk(c, call[c], call[c].left, cooling, u)

\* c passes on to the models after its current one.
PassOn(c, cooling, u) == Walk(c, call[c], Tail(call[c].left), cooling, u)

\* The directive, and the pacing delay it asks for.
Start(c, s) ==
    LET r == [NoCall EXCEPT !.session = s, !.profile = Profile(s),
                            !.blocked = BlockedProviders \cup BlockedModels(s),
                            !.barred  = AtLimit \cup {m \in Models : limited[m] > 0}]
    IN  /\ Event /\ call[c].phase = "idle"
        /\ pcool' = Armed
        /\ IF Pacing(s) > 0
           THEN /\ call' = [call EXCEPT ![c] = [r EXCEPT !.phase = "pacing", !.timer = Pacing(s)]]
                /\ UNCHANGED <<usage, asked>>
           ELSE Walk(c, r, Ordered(Profile(s)), cool, usage)
        /\ UNCHANGED <<config, setting, cool, limited>>

\* The chain is ordered after the delay, for the profile read before it.
Paced(c) ==
    /\ call[c].phase = "pacing" /\ call[c].timer = 0
    /\ Walk(c, call[c], Ordered(call[c].profile), cool, usage)
    /\ UNCHANGED <<config, setting, cool, pcool, limited, events>>

\* c sends a request to its current model.
Send(c, phase) ==
    /\ call' = [call EXCEPT ![c].phase = phase]
    /\ asked' = Asked(Current(c))
    /\ UNCHANGED usage

\* bug: no second look.
WaitedEnough(c) ==
    /\ call[c].phase = "waiting" /\ call[c].timer = 0
    /\ IF Keyed(Current(c)) THEN Send(c, "requesting") ELSE PassOn(c, cool, usage)
    /\ UNCHANGED <<config, setting, cool, pcool, limited, events>>

\* The cooldown is looked at again after the wait, and the key only then.
Waited(c) ==
    /\ call[c].phase = "waiting" /\ call[c].timer = 0
    /\ IF cool[Current(c)] = 0 /\ Keyed(Current(c)) THEN Send(c, "requesting")
       ELSE PassOn(c, cool, usage)
    /\ UNCHANGED <<config, setting, cool, pcool, limited, events>>

Requesting(c) == call[c].phase \in {"requesting", "retrying"}

Counted(c) == Recorded(usage, call[c].session, {Current(c)})

\* An answer clears the model's cooldown, whoever set it.
Answer(c) ==
    /\ Requesting(c)
    /\ usage' = Counted(c)
    /\ cool' = [cool EXCEPT ![Current(c)] = 0]
    /\ call' = [call EXCEPT ![c] = NoCall]
    /\ UNCHANGED <<config, setting, pcool, limited, asked, events>>

\* An HTTP error, an empty answer or a transport error: no second attempt.
Error(c) ==
    /\ Requesting(c)
    /\ PassOn(c, cool, Counted(c))
    /\ UNCHANGED <<config, setting, cool, pcool, limited, events>>

\* bug: cooldowns add up.
ProviderCooledOnTop(m) == [pcool EXCEPT ![m] = @ + ProviderCooldown]

ProviderUncooled(m) == pcool   \* bug: the provider is not cooled

\* applyProviderCooldown
ProviderCooled(m) == [pcool EXCEPT ![m] = ProviderCooldown]

\* A 429 cools the model and its provider.  The first of a call is followed by a
\* backoff when pacing is intelligent.
RateLimited(c) ==
    /\ Requesting(c)
    /\ pcool' = ProviderCooled(Current(c))
    /\ limited' = [limited EXCEPT ![Current(c)] = ProviderCooldown]
    /\ \E d \in Cooldowns :
         /\ cool' = [cool EXCEPT ![Current(c)] = d]
         /\ IF call[c].phase = "requesting" /\ mode = "intelligent_pacing"
            THEN /\ call' = [call EXCEPT ![c].phase = "backoff", ![c].timer = Upto(d, MaxWait)]
                 /\ usage' = Counted(c)
                 /\ UNCHANGED asked
            ELSE PassOn(c, cool', Counted(c))
    /\ UNCHANGED <<config, setting, events>>

\* The second attempt, unless the cooldown is still on.
Retry(c) ==
    /\ call[c].phase = "backoff" /\ call[c].timer = 0
    /\ IF cool[Current(c)] = 0 THEN Send(c, "retrying") ELSE PassOn(c, cool, usage)
    /\ UNCHANGED <<config, setting, cool, pcool, limited, events>>

-----------------------------------------------------------------------------
(* Operators, the incident manager, the clock and the death of the process.*)

\* POST /routing/mode
SetFallbackMode(new) ==
    /\ Event /\ new # mode /\ mode' = new
    /\ UNCHANGED <<config, manual, preferred, cool, pcool, usage, call, limited, asked>>

\* forceFailover and resetPreferredModel, called by IncidentManager.
SetPreferred(new) ==
    /\ Event /\ new \in {(preferred + 1) % 3, 0} /\ preferred' = new
    /\ UNCHANGED <<config, mode, manual, cool, pcool, usage, call, limited, asked>>

\* POST /budget/profile: setManualProfile; its answer evaluates (Snapshot).
SetManualProfile(new) ==
    /\ Event /\ manual' = new /\ pcool' = Armed
    /\ UNCHANGED <<config, mode, preferred, cool, usage, call, limited, asked>>

\* POST /budget/reset: resetPolicyState forgets the cooldowns of providers; its
\* answer evaluates, and arms those of the providers at their limit again.
ResetPolicyState ==
    /\ Event /\ manual' = NoProfile
    /\ pcool' = [m \in Models |-> IF m \in AtLimit THEN ProviderCooldown ELSE 0]
    /\ limited' = [m \in Models |-> 0]
    /\ UNCHANGED <<config, mode, preferred, cool, usage, call, asked>>

\* getSnapshot, for the API and the dashboard's events: it evaluates too.
Snapshot ==
    /\ Event /\ pcool' = Armed
    /\ UNCHANGED <<config, setting, cool, usage, call, limited, asked>>

Midnight ==
    /\ Event
    /\ usage' = [usage EXCEPT !.today = [m \in Models |-> 0], !.day = 0]
    /\ asked' = [m \in Models |-> 0]
    /\ UNCHANGED <<config, setting, cool, pcool, call, limited>>

\* Calls and cooldowns are lost; the mode, the manual profile and usage are not.
Restart ==
    /\ Event
    /\ preferred' = 0
    /\ cool' = [m \in Models |-> 0] /\ pcool' = [m \in Models |-> 0]
    /\ limited' = [m \in Models |-> 0]
    /\ call' = [c \in Calls |-> NoCall]
    /\ asked' = [m \in Models |-> 0]
    /\ UNCHANGED <<config, mode, manual, usage>>

Less(n) == IF n > 0 THEN n - 1 ELSE 0

Tick ==
    /\ cool' = [m \in Models |-> Less(cool[m])]
    /\ pcool' = [m \in Models |-> Less(pcool[m])]
    /\ limited' = [m \in Models |-> Less(limited[m])]
    /\ call' = [c \in Calls |-> [call[c] EXCEPT !.timer = Less(@)]]
    /\ <<cool, pcool, call>>' # <<cool, pcool, call>>
    /\ UNCHANGED <<config, setting, usage, asked, events>>

CallStep(c) == Paced(c) \/ Waited(c) \/ Answer(c) \/ Error(c) \/ RateLimited(c) \/ Retry(c)

Next == \/ \E c \in Calls : CallStep(c) \/ (\E s \in Sessions : Start(c, s))
        \/ \E new \in Modes : SetFallbackMode(new)
        \/ \E new \in 0 .. 2 : SetPreferred(new)
        \/ \E new \in Profiles \cup {NoProfile} : SetManualProfile(new)
        \/ ResetPolicyState \/ Snapshot \/ Midnight \/ Restart \/ Tick

\* Timers fire, requests are answered or fail, and the clock runs.
Fairness == WF_vars(Tick) /\ \A c \in Calls : WF_vars(CallStep(c))

Spec == Init /\ [][Next]_vars /\ Fairness

-----------------------------------------------------------------------------
(* Properties.                                                             *)

Shaped(r) ==
    /\ Len(r.left) <= 3
    /\ r.left = <<>> <=> r.phase \in {"idle", "pacing"}
    /\ r.timer > 0 => r.phase \in {"pacing", "waiting", "backoff"}

\* The state has its shape: a call has models left once it looks at them, and
\* a countdown runs only in the phases that sleep.
TypeOK ==
    /\ config \in Configs /\ mode \in Modes /\ manual \in Profiles \cup {NoProfile}
    /\ preferred \in 0 .. 2
    /\ cool \in [Models -> Nat] /\ pcool \in [Models -> 0 .. ProviderCooldown]
    /\ usage \in Usage
    /\ limited \in [Models -> 0 .. ProviderCooldown]
    /\ asked \in [Models -> 0 .. ProviderLimit + InFlight]
    /\ events \in 0 .. MaxEvents
    /\ call \in [Calls -> CallRecords]
    /\ \A c \in Calls : Shaped(call[c])

\* c sends a request in this step.
Sends(c) == /\ call'[c].phase \in {"requesting", "retrying"}
            /\ <<call'[c].phase, call'[c].left>> # <<call[c].phase, call[c].left>>

\* No request is sent to a model whose cooldown runs, be it armed by another
\* call during the wait or longer than the longest wait (resolveCooldownPreflight,
\* and the look before the second attempt).
CoolingModelSpared == [][\A c \in Calls : Sends(c) => cool'[Head(call'[c].left)] = 0]_vars

\* A call that starts while a provider is at its daily limit or cools down from a
\* 429 never asks it, whatever happens in between (blockedProviders, read once).
BarredProviderSpared == [][\A c \in Calls : Sends(c) => Head(call'[c].left) \notin call'[c].barred]_vars

\* A provider is over its daily limit by no more than the requests of the calls
\* that were under way when it was reached, two each.
OvershootBounded == \A m \in Models : asked[m] <= ProviderLimit - 1 + InFlight

\* Every completion is answered or fails (or dies with the process).
EveryCompletionEnds == \A c \in Calls : call[c].phase # "idle" ~> call[c].phase = "idle"

=============================================================================
