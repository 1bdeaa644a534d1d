--------------------------- MODULE MCDeliveryQueue ---------------------------
(* Small instances of DeliveryQueue: a backoff of 1, 2, 4, ... clock units. *)
EXTENDS DeliveryQueue, TLC

MCBackoff == [k \in 1 .. MaxAttempts |-> 2 ^ (k - 1)]

\* Delivery ids are interchangeable.
IdSymmetry == Permutations(Ids)

=============================================================================
