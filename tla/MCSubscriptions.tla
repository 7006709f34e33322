--------------------------- MODULE MCSubscriptions ---------------------------
(* Instances of Subscriptions for TLC. *)
EXTENDS Subscriptions

CONSTANTS w1, w2, o1

SomePeriods == {[start |-> 0, expiry |-> 0], [start |-> 1, expiry |-> 1]}

OneWarning == [last |-> 1]

=============================================================================
