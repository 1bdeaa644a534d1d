---------------------------- MODULE Conversation ----------------------------
(***************************************************************************)
(* A turn (core/gateway.ts, core/lane-executor.ts, services/                *)
(* policy-engine.ts): the text is stored, perhaps delegated, and then the   *)
(* model and the tools it calls alternate, up to MaxRounds times, unless    *)
(* the model repeats itself.  Turns run side by side, also in one session:  *)
(* they share its messages, the gateway's tools, which every turn renews    *)
(* from the registry when its loop begins, and the policy.                  *)
(***************************************************************************)
EXTENDS Naturals, Sequences, SequencesExt

CONSTANTS Turns, Sessions,
          Named,            \* by the names a tool can be called by: [skill, scope, permitted]
          Builtin,          \* skills registered from the start
          Global, Overrides,   \* the global profile, and those a session may get: [rules, default]
          Batches,          \* the tool calls the model may answer with, a sequence of names
          MaxRounds, RepeatLimit,
          MaxChanges        \* bound: skills registered and profiles set

VARIABLES turn,
          rows,             \* the messages table: the rows of each turn, in order
          registered,       \* skills in the registry
          tools,            \* #tools and the executor's map: the names that can be called
          override,         \* sessionOverrides: none, or one
          changes,
          batches           \* history: the batches each turn carried out
vars == <<turn, rows, registered, tools, override, changes, batches>>

Unused == [at |-> "new", session |-> "none", round |-> 0, batch |-> <<>>, results |-> <<>>,
           previous |-> <<>>, repeats |-> 0]

\* filterSkillsByToolPolicy and syncSkills; a name that is not a tool's is unknown.
ToolsOf(skills) == {n \in DOMAIN Named : Named[n].skill \in skills /\ Named[n].permitted}

Init == /\ turn = [t \in Turns |-> Unused]
        /\ rows = [t \in Turns |-> <<>>]
        /\ registered = Builtin /\ tools = ToolsOf(Builtin)
        /\ override = [s \in Sessions |-> <<>>]
        /\ changes = 0 /\ batches = [t \in Turns |-> <<>>]

Saved(t, role, calls) == rows' = [rows EXCEPT ![t] = Append(@, [role |-> role, calls |-> calls])]
Go(t, at) == turn' = [turn EXCEPT ![t].at = at]
Leave(t, at) == turn' = [turn EXCEPT ![t] = [Unused EXCEPT !.at = at]]
KeepShared == UNCHANGED <<registered, override, changes>>
KeepHistory == UNCHANGED batches

(***************************************************************************)
(* processText.                                                             *)
(***************************************************************************)

Begin(t, s) == /\ turn[t].at = "new"
               /\ turn' = [turn EXCEPT ![t].at = "user", ![t].session = s]
               /\ Saved(t, "user", 0)
               /\ UNCHANGED tools /\ KeepShared /\ KeepHistory

\* A complex text is delegated first; its report, or its failure, is stored as a tool row.
Delegate(t) == /\ turn[t].at = "user"
               /\ Saved(t, "report", 0)
               /\ Go(t, "delegated")
               /\ UNCHANGED tools /\ KeepShared /\ KeepHistory

\* refreshTools, and the first question to the model.
EnterLoop(t) == /\ turn[t].at \in {"user", "delegated"}
                /\ tools' = ToolsOf(registered)
                /\ turn' = [turn EXCEPT ![t].at = "model", ![t].round = 1]
                /\ UNCHANGED rows /\ KeepShared /\ KeepHistory

Answer(t, batch) == /\ turn[t].at = "model"
                    /\ turn' = [turn EXCEPT ![t].at = "said", ![t].batch = batch, ![t].results = <<>>]
                    /\ Saved(t, "assistant", Len(batch))
                    /\ UNCHANGED tools /\ KeepShared /\ KeepHistory

Say(t) == /\ turn[t].at = "said" /\ turn[t].batch = <<>>
          /\ Leave(t, "over")
          /\ UNCHANGED <<rows, tools>> /\ KeepShared /\ KeepHistory

\* The loop guard counts how often the same batch came in a row.
Repeats(u) == IF u.batch = u.previous THEN u.repeats + 1 ELSE 1
GuardLate(u) == Repeats(u) > RepeatLimit
Guard(u) == Repeats(u) >= RepeatLimit

StopRepeating(t) == /\ turn[t].at = "said" /\ turn[t].batch # <<>> /\ Guard(turn[t])
                    /\ Saved(t, "guard", 0)
                    /\ Leave(t, "over")
                    /\ UNCHANGED tools /\ KeepShared /\ KeepHistory

CarryOut(t) == /\ turn[t].at = "said" /\ turn[t].batch # <<>> /\ ~Guard(turn[t])
               /\ turn' = [turn EXCEPT ![t].at = "calls", ![t].previous = turn[t].batch, ![t].repeats = Repeats(turn[t])]
               /\ batches' = [batches EXCEPT ![t] = Append(@, turn[t].batch)]
               /\ UNCHANGED <<rows, tools>> /\ KeepShared

(***************************************************************************)
(* The policy engine: the rules of the session's profile, its default, the  *)
(* global rules and the global default, an exact rule before a wildcard.    *)
(***************************************************************************)

RulesFor(profile, name) == IF name \in DOMAIN profile.rules THEN <<profile.rules[name]>>
                           ELSE IF "*" \in DOMAIN profile.rules THEN <<profile.rules["*"]>> ELSE <<>>
Decision(action, explicit) == [action |-> action, explicit |-> explicit]
EvaluateGlobal(name) ==
    IF RulesFor(Global, name) # <<>> THEN Decision(RulesFor(Global, name)[1], TRUE)
    ELSE Decision(IF Global.default = "fallback" THEN "allow" ELSE Global.default, FALSE)
Evaluate(o, name) ==
    IF o # <<>> /\ RulesFor(o[1], name) # <<>> THEN Decision(RulesFor(o[1], name)[1], TRUE)
    ELSE IF o # <<>> /\ o[1].default # "fallback" THEN Decision(o[1].default, FALSE)
    ELSE EvaluateGlobal(name)

\* Tools of servers: unclassified ones never run, high-risk ones need a rule of their own.
ScopeAllows(scope, decision) == scope # "unclassified" /\ (scope = "high-risk" => decision.explicit)
MayRunByDefault(o, name) == Evaluate(o, name).action = "allow" /\ Named[name].scope # "unclassified"
MayRun(o, name) == ScopeAllows(Named[name].scope, Evaluate(o, name)) /\ Evaluate(o, name).action # "deny"

(***************************************************************************)
(* executeToolCalls: one call after the other, each with an await at its    *)
(* end.  A call that is unknown, denied or fails has a result like others.  *)
(***************************************************************************)

Call(t) ==
    LET name == turn[t].batch[Len(turn[t].results) + 1]
        o == override[turn[t].session]
        result == IF name \notin tools THEN "unknown" ELSE IF MayRun(o, name) THEN "ran" ELSE "denied"
    IN /\ turn[t].at = "calls" /\ Len(turn[t].results) < Len(turn[t].batch)
       /\ turn' = [turn EXCEPT ![t].results = Append(@, [name |-> name, result |-> result, override |-> o])]
       /\ UNCHANGED <<rows, tools>> /\ KeepShared /\ KeepHistory

Store(t) == /\ turn[t].at = "calls" /\ Len(turn[t].results) = Len(turn[t].batch)
            /\ Saved(t, "tool", 0)
            /\ turn' = [turn EXCEPT ![t].at = "storing", ![t].results = Tail(@)]
            /\ UNCHANGED tools /\ KeepShared /\ KeepHistory

StoreNext(t) == /\ turn[t].at = "storing" /\ turn[t].results # <<>>
                /\ Saved(t, "tool", 0)
                /\ turn' = [turn EXCEPT ![t].results = Tail(@)]
                /\ UNCHANGED tools /\ KeepShared /\ KeepHistory

\* The next round, with the tools of the time, or the last.
NextRound(t) == /\ turn[t].at = "storing" /\ turn[t].results = <<>>
                /\ IF turn[t].round = MaxRounds THEN Leave(t, "over")
                   ELSE turn' = [turn EXCEPT ![t].at = "model", ![t].round = @ + 1, ![t].batch = <<>>]
                /\ UNCHANGED <<rows, tools>> /\ KeepShared /\ KeepHistory

\* The model, a table or a log entry fails where the turn waits for it: the turn rejects.
Reject(t) == /\ turn[t].at \notin {"new", "over", "failed"}
             /\ Leave(t, "failed")
             /\ UNCHANGED <<rows, tools>> /\ KeepShared /\ KeepHistory

(***************************************************************************)
(* A server's skill is registered, or the operator sets a profile.          *)
(***************************************************************************)

Change == changes < MaxChanges /\ changes' = changes + 1

RegisterSkill == /\ Change
                 /\ \E n \in DOMAIN Named : registered' = registered \cup {Named[n].skill}
                 /\ UNCHANGED <<turn, rows, tools, override>> /\ KeepHistory

SetSessionOverride(s, o) == /\ Change /\ override[s] # o
                            /\ override' = [override EXCEPT ![s] = o]
                            /\ UNCHANGED <<turn, rows, registered, tools>> /\ KeepHistory

Next == \/ \E t \in Turns : \/ \E s \in Sessions : Begin(t, s)
                            \/ Delegate(t) \/ EnterLoop(t) \/ Say(t) \/ StopRepeating(t) \/ CarryOut(t)
                            \/ \E batch \in Batches : Answer(t, batch)
                            \/ Call(t) \/ Store(t) \/ StoreNext(t) \/ NextRound(t) \/ Reject(t)
        \/ RegisterSkill
        \/ \E s \in Sessions : \E o \in {<<>>} \cup {<<p>> : p \in Overrides} : SetSessionOverride(s, o)

Spec == Init /\ [][Next]_vars

(***************************************************************************)
(* Properties.                                                              *)
(***************************************************************************)

TypeOK == /\ \A t \in Turns : /\ turn[t].round \in 0..MaxRounds
                              /\ turn[t].at \in {"new", "user", "delegated", "model", "said", "calls", "storing", "over", "failed"}
          /\ tools \subseteq ToolsOf(registered)

\* No turn carries out more than MaxRounds batches, nor one batch RepeatLimit times in a row.
Bounded == \A t \in Turns : /\ Len(batches[t]) <= MaxRounds
                            /\ \A i \in 1..Len(batches[t]) + 1 - RepeatLimit :
                                  \E j \in i + 1..i + RepeatLimit - 1 : batches[t][j] # batches[t][i]

\* Of the rows of a turn that ended, every answer is followed by the results of all its calls.
Answered == \A t \in Turns : turn[t].at = "over" =>
                LET own == rows[t]
                IN /\ own[1].role = "user"
                   /\ Last(own).role = "assistant" => Last(own).calls = 0
                   /\ \A i \in 1..Len(own) - 1 : own[i].role = "assistant" =>
                         \/ own[i + 1].role = "guard"
                         \/ /\ \A j \in i + 1..i + own[i].calls : j \in DOMAIN own /\ own[j].role = "tool"
                            /\ i + own[i].calls + 1 \in DOMAIN own => own[i + own[i].calls + 1].role # "tool"

\* What ran was offered by the gateway's own filter, and no profile in force denied it: a rule for
\* its name, or the session's default, counts before the global profile.  A high-risk tool was
\* allowed by a rule.
Denies(o, name) == \/ o # <<>> /\ RulesFor(o[1], name) = <<"deny">>
                   \/ o # <<>> /\ RulesFor(o[1], name) = <<>> /\ o[1].default = "deny"
                   \/ (o = <<>> \/ (RulesFor(o[1], name) = <<>> /\ o[1].default = "fallback"))
                         /\ (RulesFor(Global, name) = <<"deny">> \/ (RulesFor(Global, name) = <<>> /\ Global.default = "deny"))
ToolsGoverned ==
    \A t \in Turns : \A r \in {x \in Range(turn[t].results) : x.result = "ran"} :
        /\ Named[r.name].permitted /\ Named[r.name].skill \in registered
        /\ ~Denies(r.override, r.name)
        /\ Named[r.name].scope = "high-risk" =>
              \E p \in {Global} \cup {q \in Overrides : r.override = <<q>>} : RulesFor(p, r.name) = <<"allow">>

\* Whatever turns run side by side, a turn is bounded, its transcript whole and its tools governed.
TurnSafe == Bounded /\ Answered /\ ToolsGoverned
=============================================================================
