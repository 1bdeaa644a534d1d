----------------------------- MODULE MCRuntime -----------------------------
(* A small instance of Runtime.                                            *)
EXTENDS Runtime

\* A text from each of an owner and a guest, and a voice message; replies of one chunk and of two.
Kind(sender, text, voice) == [chat |-> "chat", sender |-> sender, text |-> text, voice |-> voice]
MCKinds == {Kind("owner", TRUE, FALSE), Kind("guest", TRUE, FALSE), Kind("owner", FALSE, TRUE)}
Spoken(id, len) == [id |-> id, len |-> len]
MCTexts == {<<<<Spoken("s1", 2)>>>>, <<<<Spoken("s1", 8)>>, <<Spoken("s2", 4)>>>>}

\* Both servers offer a tool of the same name, one of them one named like a builtin tool.
MCOffers == [s \in {"files", "web"} |-> IF s = "files" THEN {"read"} ELSE {"read", "fetch"}]

\* exec, which the global profile denies, with an alias; a high-risk tool of a server; a tool that the
\* gateway's own filter leaves out.  A session may be allowed everything, or nothing.
Tool(skill, scope, permitted) == [skill |-> skill, scope |-> scope, permitted |-> permitted]
MCNamed == [n \in {"exec", "bash", "shell", "query"} |->
               IF n \in {"exec", "bash"} THEN Tool("exec", "none", TRUE)
               ELSE IF n = "shell" THEN Tool("shell", "high-risk", TRUE) ELSE Tool("query", "none", FALSE)]
Rules(name, action) == [n \in {name} |-> action]
NoRules == [n \in {} |-> "deny"]
MCGlobal == [rules |-> Rules("exec", "deny"), default |-> "fallback"]
MCOverrides == {[rules |-> Rules("*", "allow"), default |-> "fallback"], [rules |-> NoRules, default |-> "deny"]}
MCBatches == {<<>>, <<"exec">>, <<"shell", "bash">>}

\* Budgets below, at and above their limits.
MCConfig == [history |-> 0, memory |-> 300, delegation |-> 150, lifecycle |-> 80, hotLimit |-> 3, warmLimit |-> 2,
             topKMin |-> 2, topKMax |-> 1, perItem |-> 130, summaryEntries |-> 2]

\* Turns that affirm and deny the same claims, in one turn or in two.
Says(claim, polarity) == [claim |-> claim, polarity |-> polarity]
MCContents == {<<Says("up", "affirmed")>>, <<Says("up", "denied"), Says("fast", "affirmed")>>,
               <<Says("fast", "denied"), Says("up", "affirmed"), Says("fast", "denied")>>}
=============================================================================
