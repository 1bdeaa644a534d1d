--------------------------- MODULE ContextWindow ---------------------------
(***************************************************************************)
(* What a turn shows the model of the past (services/context-lifecycle.ts). *)
(* The history is cut into a hot window that goes to the model as it is, a  *)
(* warm tier of which a summary goes, and an archived tier of which a       *)
(* sample goes; what a message does not take of the hot window's budget     *)
(* deepens the memory search.  A text is its size in characters, a message  *)
(* its size in tokens.                                                      *)
(***************************************************************************)
EXTENDS Integers, Sequences, FiniteSets

CONSTANT Config    \* the context budget as configured, not yet put into its limits

CharsPerToken == 4
Greatest(a, b) == IF a > b THEN a ELSE b
Least(a, b) == IF a < b THEN a ELSE b
Clamp(v, low, high) == Least(high, Greatest(low, v))
Tokens(chars) == (chars + CharsPerToken - 1) \div CharsPerToken

\* resolveContextBudgetConfig.
Resolved == [history |-> Greatest(200, Config.history),
             memory |-> Greatest(100, Config.memory),
             delegation |-> Greatest(100, Config.delegation),
             lifecycle |-> Greatest(80, Config.lifecycle),
             hotLimit |-> Greatest(1, Config.hotLimit),
             warmLimit |-> Greatest(0, Config.warmLimit),
             topKMin |-> Greatest(1, Config.topKMin),
             topKMax |-> Greatest(Greatest(1, Config.topKMin), Config.topKMax),
             perItem |-> Greatest(20, Config.perItem),
             summaryEntries |-> Greatest(1, Config.summaryEntries)]

(***************************************************************************)
(* planHistoryWindow.                                                       *)
(***************************************************************************)

\* From the newest backwards, a message that still fits is hot: a long one is passed over, not the
\* end.  The newest is hot whatever its size.
HotStepFits(hot, i, size) == IF hot.used + size <= Resolved.history
                             THEN [chosen |-> hot.chosen \cup {i}, used |-> hot.used + size] ELSE hot
HotStep(hot, i, size) == IF hot.chosen = {} \/ hot.used + size <= Resolved.history
                         THEN [chosen |-> hot.chosen \cup {i}, used |-> hot.used + size] ELSE hot

\* The hot window after each of the m newest messages.
NewestFirst(sizes, m) ==
    LET hot[k \in 0..m] == IF k = 0 THEN [chosen |-> {}, used |-> 0]
                           ELSE HotStep(hot[k - 1], Len(sizes) + 1 - k, sizes[Len(sizes) + 1 - k])
    IN hot

PlanHistory(sizes) ==
    LET n == Len(sizes)
        hotStart == Greatest(0, n - Resolved.hotLimit)
        warmStart == Greatest(0, hotStart - Resolved.warmLimit)
        hot == NewestFirst(sizes, n - hotStart)[n - hotStart]
        unused == Greatest(0, Resolved.history - hot.used)
    IN [hot |-> hot.chosen,
        warm |-> (warmStart + 1..n) \ hot.chosen,
        archived |-> 1..warmStart,
        used |-> hot.used,
        topK |-> Clamp((Resolved.memory + unused \div 2) \div Resolved.perItem, Resolved.topKMin, Resolved.topKMax)]

\* buildTierSummary lists the last entries and counts the others; buildArchivedSummary lists the first
\* two and the last two.
WarmListed(warm) == {i \in warm : Cardinality({k \in warm : k > i}) < Resolved.summaryEntries}
WarmOmitted(warm) == Greatest(0, Cardinality(warm) - Resolved.summaryEntries)
ArchivedListed(archived) == LET n == Cardinality(archived)
                            IN (1..Least(2, n)) \cup (Greatest(2, n - 2) + 1..n)

(***************************************************************************)
(* compactSection: a text that exceeds its budget keeps its head and its    *)
(* tail around a marker, whose length is that of its label and its numbers. *)
(***************************************************************************)

\* Of a number below a million.
Digits(n) == 1 + Cardinality({k \in 1..5 : 10^k <= n})
Kept(chars) == [chars |-> chars, compacted |-> FALSE]
Shortened(chars) == [chars |-> chars, compacted |-> TRUE]
CompactSection(label, chars, budget) ==
    LET room == Greatest(120, budget * CharsPerToken)
        head == Greatest(48, (room * 72) \div 100)
        tail == Greatest(32, (room * 18) \div 100)
        marker == 30 + label + Digits(Tokens(chars)) + Digits(budget)
    IN IF Tokens(chars) <= budget THEN Kept(chars)
       ELSE IF room < 160 THEN Shortened(41 + label + Digits(budget))
       ELSE Shortened(Least(head, chars) + Least(tail, chars) + marker)

\* planRuntimeContext: two thirds of the lifecycle budget for the warm tier, with a least share for both.
WarmShare == LET warm == Greatest(40, (Resolved.lifecycle * 65) \div 100)
                 archived == Greatest(0, Resolved.lifecycle - warm)
             IN IF archived < 30 THEN Greatest(0, Resolved.lifecycle - Least(30, Resolved.lifecycle)) ELSE warm
ArchivedShare == Resolved.lifecycle - WarmShare

Labels == [memory |-> 14, delegation |-> 18, warm |-> 17, archived |-> 21]
Budget == [memory |-> Resolved.memory, delegation |-> Resolved.delegation, warm |-> WarmShare, archived |-> ArchivedShare]
PlanRuntimeContext(texts) == [s \in DOMAIN Labels |-> CompactSection(Labels[s], texts[s], Budget[s])]

(***************************************************************************)
(* The algorithms as one behaviour: a session grows by a message, and a     *)
(* turn plans for it.                                                       *)
(***************************************************************************)

CONSTANTS Sizes,         \* of messages, in tokens
          TextSizes,     \* of the texts of the runtime context, in characters
          MaxHistory     \* bound: messages

VARIABLES sizes, texts
vars == <<sizes, texts>>

Init == sizes = <<>> /\ texts = [s \in DOMAIN Labels |-> 0]
AddMessage == /\ Len(sizes) < MaxHistory
              /\ \E k \in Sizes : sizes' = Append(sizes, k)
              /\ UNCHANGED texts
Retrieve == /\ \E t \in TextSizes, s \in DOMAIN Labels : texts' = [texts EXCEPT ![s] = t]
            /\ UNCHANGED sizes
Next == AddMessage \/ Retrieve
Spec == Init /\ [][Next]_vars

(***************************************************************************)
(* Properties.                                                              *)
(***************************************************************************)

\* Every message of the session is in exactly one tier, the newest is hot, and only the newest alone
\* may exceed the budget.  What was left out of the hot window is summarised or counted.
Shown(plan) == plan.hot \cup WarmListed(plan.warm) \cup ArchivedListed(plan.archived)
WindowsSound ==
    LET plan == PlanHistory(sizes)
        n == Len(sizes)
    IN /\ plan.hot \cup plan.warm \cup plan.archived = 1..n
       /\ plan.hot \cap plan.warm = {} /\ (plan.hot \cup plan.warm) \cap plan.archived = {}
       /\ n > 0 => n \in plan.hot
       /\ plan.used <= Resolved.history \/ plan.hot = {n}
       /\ Cardinality(plan.hot) <= Resolved.hotLimit
       /\ plan.topK \in Resolved.topKMin..Resolved.topKMax
       /\ n - Cardinality(Shown(plan)) = WarmOmitted(plan.warm) + Greatest(0, Cardinality(plan.archived) - 4)

\* A section of the runtime context exceeds its budget by its marker at most, and one of 170 tokens or
\* more keeps to it; the shares of the lifecycle budget are its parts.
SectionsFit ==
    \A s \in DOMAIN Labels :
        LET used == Tokens(PlanRuntimeContext(texts)[s].chars)
        IN /\ Budget[s] >= 170 => used <= Budget[s]
           /\ used <= Budget[s] + 15
           /\ WarmShare + ArchivedShare = Resolved.lifecycle /\ ArchivedShare >= 30

ContextSound == WindowsSound /\ SectionsFit
=============================================================================
