--------------------------- MODULE MCModelRouter ---------------------------
(* A small instance of ModelRouter.                                        *)
EXTENDS ModelRouter

\* All keys; no key for the primary; the local model preferred.
MCConfigs == {[keyed |-> Models, local |-> NotLocal],
              [keyed |-> Models \ {"primary"}, local |-> "fallback_2"]}

=============================================================================
