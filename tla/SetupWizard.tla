---------------------------- MODULE SetupWizard ----------------------------
(***************************************************************************)
(* The two programs that write twinclaw.json: the setup wizard              *)
(* (runSetupWizard of core/onboarding.ts) and the short onboarding          *)
(* (core/simplified-onboarding.ts).  Each reads the whole configuration     *)
(* first and writes the whole of it minutes later.  The wizard asks its     *)
(* sections field by field, asks a section again until it makes sense,      *)
(* shows a summary, and lets its user edit sections before confirming.      *)
(* It keeps two accounts of the answers: `updates`, which it saves, and     *)
(* `candidate`, which it shows.  An answer that only asks again changes     *)
(* nothing and is no step.                                                  *)
(***************************************************************************)
EXTENDS Naturals, Sequences

CONSTANTS Sections,     \* sequences of keys
          ModelKeys, Required

Keys == UNION {{Sections[s][i] : i \in DOMAIN Sections[s]} : s \in DOMAIN Sections}
Token == "TELEGRAM_BOT_TOKEN"
UserId == "TELEGRAM_USER_ID"
Provider == "EMBEDDING_PROVIDER"

VARIABLES file, wizard, quick,
          overlapped    \* history: the short onboarding saved while the wizard asked
vars == <<file, wizard, quick, overlapped>>

\* Answers to the keys the wizard asks for, telegram.enabled, and the settings neither asks for.
\* A missing file reads as the defaults.
Config(asked, enabled, crons) == [asked |-> asked, enabled |-> enabled, crons |-> crons]
DEFAULT == Config([k \in Keys |-> ""], FALSE, "")

Closed == [at |-> "none", section |-> 1, field |-> 1, editing |-> FALSE,
           base |-> DEFAULT, candidate |-> DEFAULT, updates |-> [k \in {} |-> ""], result |-> DEFAULT, before |-> DEFAULT]
Init == /\ file \in {DEFAULT, Config([k \in Keys |-> "old"], TRUE, "old")}
        /\ wizard = Closed /\ quick = [at |-> "none", base |-> DEFAULT]
        /\ overlapped = FALSE

Has(config, k) == config.asked[k] # ""
HasAnyModelKey(config) == \E k \in ModelKeys : Has(config, k)
Paired(config) == Has(config, Token) <=> Has(config, UserId)
\* applyUpdates: the answers, then what follows from them.
SyncDerived(config) == [config EXCEPT !.enabled = Has(config, Token) /\ Has(config, UserId)]
Apply(config, updates) ==
    SyncDerived([config EXCEPT !.asked = [k \in Keys |-> IF k \in DOMAIN updates THEN updates[k] ELSE @[k]]])
Errors(config) == \/ \E k \in Required : ~Has(config, k)
                  \/ ~HasAnyModelKey(config) \/ ~Paired(config) \/ ~Has(config, Provider)

(***************************************************************************)
(* The wizard.                                                              *)
(***************************************************************************)

Start == LET base == [file EXCEPT !.asked[Provider] = IF @ = "" THEN "openai" ELSE @]
         IN /\ wizard.at = "none"
            /\ wizard' = [wizard EXCEPT !.at = "asking", !.base = base, !.candidate = base]
            /\ UNCHANGED <<file, quick, overlapped>>

Key == Sections[wizard.section][wizard.field]
\* promptFieldValue, by what it returns: nothing, a cleared value or a new one.
Returned(k) == (IF Has(wizard.candidate, k) \/ k \notin Required THEN {"undefined"} ELSE {})
               \cup (IF k \in Required THEN {} ELSE {""}) \cup {"new"}
RecordedUnlessEditing(w, k, v) ==
    IF v = "undefined" THEN w
    ELSE [w EXCEPT !.updates = IF w.editing THEN @ ELSE [j \in DOMAIN @ \cup {k} |-> IF j = k THEN v ELSE @[j]],
                   !.candidate = Apply(@, [j \in {k} |-> v])]
Recorded(w, k, v) ==
    IF v = "undefined" THEN w
    ELSE [w EXCEPT !.updates = [j \in DOMAIN @ \cup {k} |-> IF j = k THEN v ELSE @[j]],
                   !.candidate = Apply(@, [j \in {k} |-> v])]
\* After a field: the next one; after the last: the summary when editing, else the section again while
\* it lacks a model key or half of the Telegram pair, else the next section.
SectionFields(w) == {Sections[w.section][i] : i \in DOMAIN Sections[w.section]}
AskAgain(w) == \/ SectionFields(w) \cap ModelKeys # {} /\ ~HasAnyModelKey(w.candidate)
               \/ Token \in SectionFields(w) /\ ~Paired(w.candidate)
Onward(w) ==
    IF w.field < Len(Sections[w.section]) THEN [w EXCEPT !.field = @ + 1]
    ELSE IF w.editing \/ (~AskAgain(w) /\ w.section = Len(Sections))
         THEN [w EXCEPT !.at = "summary", !.section = 1, !.field = 1, !.editing = FALSE]
    ELSE IF AskAgain(w) THEN [w EXCEPT !.field = 1]
    ELSE [w EXCEPT !.section = @ + 1, !.field = 1]
Answer(v) == /\ wizard.at = "asking" /\ v \in Returned(Key)
             /\ wizard' = Onward(Recorded(wizard, Key, v))
             /\ UNCHANGED <<file, quick, overlapped>>

Edit(s) == /\ wizard.at = "summary"
           /\ wizard' = [wizard EXCEPT !.at = "asking", !.section = s, !.editing = TRUE]
           /\ UNCHANGED <<file, quick, overlapped>>

\* 'y': the updates are applied to what was read, and validated.
Confirm == LET result == Apply(wizard.base, wizard.updates)
           IN /\ wizard.at = "summary" /\ HasAnyModelKey(wizard.candidate)
              /\ wizard' = IF Errors(result) THEN [wizard EXCEPT !.at = "validation_error"]
                           ELSE [wizard EXCEPT !.at = "saving", !.result = result]
              /\ UNCHANGED <<file, quick, overlapped>>

\* 'n' at the summary, or an interrupt at any question.
Cancel == /\ wizard.at \in {"asking", "summary"}
          /\ wizard' = [wizard EXCEPT !.at = "cancelled"]
          /\ UNCHANGED <<file, quick, overlapped>>

\* writeConfig: a temporary file, renamed; when either fails the file is as it was.
Save == /\ wizard.at = "saving"
        /\ file' = wizard.result
        /\ wizard' = [wizard EXCEPT !.at = "success", !.before = file]
        /\ UNCHANGED <<quick, overlapped>>
SaveFails == /\ wizard.at = "saving"
             /\ wizard' = [wizard EXCEPT !.at = "failed"]
             /\ UNCHANGED <<file, quick, overlapped>>

(***************************************************************************)
(* The short onboarding: all its questions are one step.                    *)
(***************************************************************************)

QuickStart == /\ quick.at = "none"
              /\ quick' = [at |-> "asking", base |-> file]
              /\ UNCHANGED <<file, wizard, overlapped>>

\* A secret is kept or made; the model keys are replaced; Telegram is asked for or left as it is, and
\* enabled by the token alone; of the runtime settings only three are kept.
Telegram(base, token, id) ==
    [base EXCEPT !.asked[Token] = token, !.asked[UserId] = id, !.enabled = token # ""]
Filled(base, models) ==
    Config([k \in Keys |-> IF k \in ModelKeys THEN models[k]
                           ELSE IF k \in Required /\ base.asked[k] = "" THEN "quick" ELSE base.asked[k]],
           base.enabled, "")
QuickSave == \E models \in [ModelKeys -> {"", "quick"}], token, id \in {"", "quick"}, useTelegram \in BOOLEAN :
    /\ quick.at = "asking" /\ \E k \in ModelKeys : models[k] # ""
    /\ file' = Filled(IF useTelegram THEN Telegram(quick.base, token, id) ELSE quick.base, models)
    /\ quick' = [quick EXCEPT !.at = "done"]
    /\ overlapped' = (wizard.at \in {"asking", "summary", "saving"})
    /\ UNCHANGED wizard

Next == \/ Start \/ \E v \in {"undefined", "", "new"} : Answer(v)
        \/ \E s \in DOMAIN Sections : Edit(s)
        \/ Confirm \/ Cancel \/ Save \/ SaveFails
        \/ QuickStart \/ QuickSave

Spec == Init /\ [][Next]_vars

(***************************************************************************)
(* What the wizard saves is what its user confirmed in the summary, through *)
(* any sections asked again or edited; it can start the gateway (a secret,  *)
(* a model key, both halves of Telegram or none, enabled accordingly); and  *)
(* unless the short onboarding saved meanwhile, whatever was not answered   *)
(* is as it was in the file.                                                *)
(***************************************************************************)
SavedAsConfirmed ==
    /\ wizard.at \in {"saving", "success"} =>
          /\ wizard.result = SyncDerived(wizard.candidate)
          /\ ~Errors(wizard.result)
          /\ wizard.result.enabled <=> Has(wizard.result, Token)
    /\ wizard.at = "success" /\ ~overlapped =>
          /\ \A k \in Keys \ DOMAIN wizard.updates :
                wizard.result.asked[k] = wizard.before.asked[k] \/ (k = Provider /\ wizard.before.asked[k] = "")
          /\ wizard.result.crons = wizard.before.crons
=============================================================================
