----------------------------- MODULE McpServers -----------------------------
(***************************************************************************)
(* Tool servers (services/mcp-server-manager.ts, mcp-client-adapter.ts and  *)
(* skill-registry.ts).  The program connects to all servers while it is     *)
(* already serving; a connection registers the server's tools by name.      *)
(* Calls from concurrent turns pass a circuit breaker per server: each call *)
(* awaits the log between the connection check and the breaker, and the     *)
(* server after it, so results come in any order and from before the        *)
(* breaker opened.  Servers are disconnected only when the process exits.   *)
(***************************************************************************)
EXTENDS Naturals, FiniteSets

CONSTANTS Servers, Offers,        \* the tools each server offers
          Builtin,                \* builtin tools
          Flaky,                  \* servers that may stop answering
          Calls,                  \* concurrent calls, each slot used again and again
          FailureThreshold, SuccessThreshold, Cooldown,
          MaxFaults               \* bound: log entries that fail

VARIABLES adapter,    \* McpClientAdapter#state, and where its connect() is
          circuit,    \* #circuitState and #metrics, the counts up to their thresholds
          registry,   \* SkillRegistry: the owner of each tool name
          call,
          up,         \* the servers answer
          faults,
          unheard,    \* history: servers whose connection was logged in vain
          streak      \* history: failures in a row, up to the threshold
vars == <<adapter, circuit, registry, call, up, faults, unheard, streak>>

Tools == Builtin \cup UNION {Offers[s] : s \in Servers}
Idle == [at |-> "idle", server |-> "none"]
Least(a, b) == IF a < b THEN a ELSE b

Init == /\ adapter = [s \in Servers |-> [state |-> "disconnected", at |-> "new"]]
        /\ circuit = [s \in Servers |-> [state |-> "closed", failures |-> 0, successes |-> 0, since |-> Cooldown + 1]]
        /\ registry = [t \in Tools |-> IF t \in Builtin THEN "builtin" ELSE "none"]
        /\ call = [c \in Calls |-> Idle]
        /\ up = [s \in Servers |-> TRUE]
        /\ faults = 0 /\ unheard = {} /\ streak = [s \in Servers |-> 0]

(***************************************************************************)
(* Connecting.                                                              *)
(***************************************************************************)

\* connectAll: every adapter logs and goes on by itself.
Connect(s) == /\ adapter[s].at = "new"
              /\ adapter' = [adapter EXCEPT ![s] = [state |-> "connecting", at |-> "handshake"]]
              /\ UNCHANGED <<circuit, registry, call, up, faults, unheard, streak>>

\* The transport is there and the tools are listed: each takes its name, whoever had it.
RegisteredFirst(s) == [t \in Tools |-> IF t \in Offers[s] /\ registry[t] = "none" THEN s ELSE registry[t]]
Registered(s) == [t \in Tools |-> IF t \in Offers[s] THEN s ELSE registry[t]]
Discover(s) == /\ adapter[s].at = "handshake" /\ up[s]
               /\ registry' = Registered(s)
               /\ adapter' = [adapter EXCEPT ![s] = [state |-> "connected", at |-> "log"]]
               /\ UNCHANGED <<circuit, call, up, faults, unheard, streak>>

Connected(s) == /\ adapter[s].at = "log"
                /\ adapter' = [adapter EXCEPT ![s].at = "over"]
                /\ UNCHANGED <<circuit, registry, call, up, faults, unheard, streak>>

\* The server does not answer, or a log entry fails - the last one with the tools registered.
ConnectFails(s) ==
    /\ \/ adapter[s].at = "handshake" /\ ~up[s] /\ UNCHANGED <<faults, unheard>>
       \/ adapter[s].at = "log" /\ faults < MaxFaults /\ faults' = faults + 1 /\ unheard' = unheard \cup {s}
    /\ adapter' = [adapter EXCEPT ![s] = [state |-> "error", at |-> "over"]]
    /\ UNCHANGED <<circuit, registry, call, up, streak>>

(***************************************************************************)
(* Calling a tool.                                                          *)
(***************************************************************************)

Leave(c) == call' = [call EXCEPT ![c] = Idle]

\* A tool of a server that is not connected fails at once.
CallTool(c, t) ==
    LET s == registry[t]
    IN /\ call[c] = Idle /\ s \in Servers /\ adapter[s].state = "connected"
       /\ call' = [call EXCEPT ![c] = [at |-> "log", server |-> s]]
       /\ UNCHANGED <<adapter, circuit, registry, up, faults, unheard, streak>>

\* checkCircuitTransition: an open breaker lets calls try again when the cooldown is over.
TransitionNever(k) == k
Transition(k) == IF k.state = "open" /\ k.since > Cooldown THEN [k EXCEPT !.state = "half-open"] ELSE k

Enter(c) ==
    LET s == call[c].server
        k == Transition(circuit[s])
    IN /\ call[c].at = "log"
       /\ circuit' = [circuit EXCEPT ![s] = k]
       /\ IF k.state = "open" THEN Leave(c) ELSE call' = [call EXCEPT ![c].at = "server"]
       /\ UNCHANGED <<adapter, registry, up, faults, unheard, streak>>

LogFails(c) == /\ call[c].at = "log" /\ faults < MaxFaults
               /\ faults' = faults + 1
               /\ Leave(c)
               /\ UNCHANGED <<adapter, circuit, registry, up, unheard, streak>>

\* recordSuccess: successes count in every state, and close a half-open breaker.
AfterSuccess(k) ==
    LET n == Least(k.successes + 1, SuccessThreshold)
    IN IF k.state = "half-open" /\ n = SuccessThreshold
       THEN [k EXCEPT !.state = "closed", !.failures = 0, !.successes = n]
       ELSE [k EXCEPT !.successes = n]

\* recordFailure: the failures since the breaker last closed, however long ago.
AfterFailureOnce(k) ==
    LET n == Least(k.failures + 1, FailureThreshold)
    IN [state |-> IF k.state = "closed" /\ n = FailureThreshold THEN "open" ELSE k.state,
        failures |-> n, successes |-> 0, since |-> 0]
AfterFailure(k) ==
    LET n == Least(k.failures + 1, FailureThreshold)
    IN [state |-> IF n = FailureThreshold THEN "open" ELSE k.state, failures |-> n, successes |-> 0, since |-> 0]

Succeed(c) == LET s == call[c].server
              IN /\ call[c].at = "server" /\ up[s]
                 /\ circuit' = [circuit EXCEPT ![s] = AfterSuccess(@)]
                 /\ streak' = [streak EXCEPT ![s] = 0]
                 /\ Leave(c)
                 /\ UNCHANGED <<adapter, registry, up, faults, unheard>>

Fail(c) == LET s == call[c].server
           IN /\ call[c].at = "server" /\ ~up[s]
              /\ circuit' = [circuit EXCEPT ![s] = AfterFailure(@)]
              /\ streak' = [streak EXCEPT ![s] = Least(@ + 1, FailureThreshold)]
              /\ Leave(c)
              /\ UNCHANGED <<adapter, registry, up, faults, unheard>>

\* A server stops answering, or answers again.
Flip(s) == /\ s \in Flaky
           /\ up' = [up EXCEPT ![s] = ~@]
           /\ UNCHANGED <<adapter, circuit, registry, call, faults, unheard, streak>>

Tick == /\ \E s \in Servers : circuit[s].since <= Cooldown
        /\ circuit' = [s \in Servers |-> [circuit[s] EXCEPT !.since = Least(@ + 1, Cooldown + 1)]]
        /\ UNCHANGED <<adapter, registry, call, up, faults, unheard, streak>>

Next == \/ \E s \in Servers : Connect(s) \/ Discover(s) \/ Connected(s) \/ ConnectFails(s) \/ Flip(s)
        \/ \E c \in Calls : \/ \E t \in Tools : CallTool(c, t)
                            \/ Enter(c) \/ LogFails(c) \/ Succeed(c) \/ Fail(c)
        \/ Tick

\* Time passes, and calls go on and end.
Fairness == /\ WF_vars(Tick)
            /\ \A c \in Calls : WF_vars(Enter(c)) /\ WF_vars(Succeed(c) \/ Fail(c))
Spec == Init /\ [][Next]_vars /\ Fairness

(***************************************************************************)
(* Properties.                                                              *)
(***************************************************************************)

TypeOK == /\ \A s \in Servers : /\ adapter[s].state \in {"disconnected", "connecting", "connected", "error"}
                                /\ circuit[s].failures <= FailureThreshold
                                /\ circuit[s].state = "open" => circuit[s].failures = FailureThreshold
          /\ \A c \in Calls : call[c].at # "idle" => call[c].server \in Servers
          /\ faults \in 0..MaxFaults

\* A tool is registered exactly when a server that offers it is connected, and the server that
\* registered it can be called - unless the connection failed at its last log entry.
ToolsCallable ==
    \A t \in Tools : /\ registry[t] \in Servers \ unheard => adapter[registry[t]].state = "connected"
                     /\ \A s \in Servers : adapter[s].state = "connected" /\ t \in Offers[s] => registry[t] \in Servers

\* While its last FailureThreshold answers were failures, and the last of them is not older than
\* the cooldown, no call is sent to a server - whatever calls were under way when it failed.
FailingServerSpared ==
    [][\A c \in Calls : call[c].at = "log" /\ call'[c].at = "server" =>
          LET s == call[c].server IN streak[s] < FailureThreshold \/ circuit[s].since > Cooldown]_vars

\* A server that answers for good and goes on being called gets its breaker closed for good.
BreakerRecovers ==
    \A s \in Servers : <>[]up[s] /\ []<>(\E c \in Calls : call[c] = [at |-> "log", server |-> s])
                          => <>[](circuit[s].state = "closed")
=============================================================================
