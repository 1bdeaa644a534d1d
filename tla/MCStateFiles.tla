---------------------------- MODULE MCStateFiles ----------------------------
(* A small instance of StateFiles.                                         *)
EXTENDS StateFiles

MCDocs == <<"soul", "identity">>

\* The database lies in the memory directory, and both are targets.
MCTargets == <<"memory-dir", "runtime-db">>
MCHolds == [t \in {"memory-dir", "runtime-db"} |-> IF t = "memory-dir" THEN {"memory", "db"} ELSE {"db"}]

\* Two packages of two versions: an app needs the first lib, its next version admits both.
Manifest(name, version, deps, compatible) == [name |-> name, version |-> version, deps |-> deps, compatible |-> compatible]
NoDeps == [n \in {} |-> {}]
Needs(range) == [n \in {"lib"} |-> range]
MCCatalog == {Manifest("lib", 1, NoDeps, TRUE), Manifest("lib", 2, NoDeps, TRUE),
              Manifest("app", 1, Needs({1}), TRUE), Manifest("app", 2, Needs({1, 2}), FALSE)}

MCAssets == <<"runtime-db", "identity">>

GateCheck(id, hard, skippable) == [id |-> id, hard |-> hard, skippable |-> skippable]
MCChecks == <<GateCheck("build", TRUE, FALSE), GateCheck("cli-onboard", TRUE, FALSE),
              GateCheck("api-health", TRUE, TRUE), GateCheck("dist-artifact", FALSE, FALSE)>>

MCSections == <<<<"API_SECRET">>, <<"OPENROUTER_API_KEY", "GEMINI_API_KEY">>,
                <<"TELEGRAM_BOT_TOKEN", "TELEGRAM_USER_ID">>, <<"EMBEDDING_PROVIDER">>>>
=============================================================================
