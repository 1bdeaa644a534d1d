--------------------------- MODULE OutboundDelivery --------------------------
(***************************************************************************)
(* What the delivery queue promises to whoever enqueues a message, as the  *)
(* design of the queue states it: explicit states, at most MaxAttempts     *)
(* tries one after the other, the message ends sent or abandoned (a dead   *)
(* letter), sent is final, and an abandoned message can be replayed with a *)
(* fresh set of tries.  Timing, batches, jobs and restarts are not part of *)
(* the promise.                                                            *)
(***************************************************************************)
EXTENDS Integers

CONSTANTS Messages, MaxAttempts

VARIABLES phase, tries

vars == <<phase, tries>>

Init ==
    /\ phase = [m \in Messages |-> "none"]
    /\ tries = [m \in Messages |-> 0]

Accept(m) ==
    /\ phase[m] = "none"
    /\ phase' = [phase EXCEPT ![m] = "waiting"]
    /\ tries' = tries

\* Some of the waiting messages are tried, each for the next time.
Try(b) ==
    /\ \A m \in b : phase[m] = "waiting" /\ tries[m] < MaxAttempts
    /\ phase' = [m \in Messages |-> IF m \in b THEN "trying" ELSE phase[m]]
    /\ tries' = [m \in Messages |-> IF m \in b THEN tries[m] + 1 ELSE tries[m]]

Deliver(m) ==
    /\ phase[m] = "trying"
    /\ phase' = [phase EXCEPT ![m] = "sent"]
    /\ tries' = tries

TryAgain(m) ==
    /\ phase[m] = "trying" /\ tries[m] < MaxAttempts
    /\ phase' = [phase EXCEPT ![m] = "waiting"]
    /\ tries' = tries

Abandon(m) ==
    /\ phase[m] = "trying" /\ tries[m] = MaxAttempts
    /\ phase' = [phase EXCEPT ![m] = "abandoned"]
    /\ tries' = tries

Replay(m) ==
    /\ phase[m] = "abandoned"
    /\ phase' = [phase EXCEPT ![m] = "waiting"]
    /\ tries' = [tries EXCEPT ![m] = 0]

Next ==
    \/ \E b \in SUBSET Messages : Try(b)
    \/ \E m \in Messages :
          Accept(m) \/ Deliver(m) \/ TryAgain(m) \/ Abandon(m) \/ Replay(m)

Spec == Init /\ [][Next]_vars

=============================================================================
