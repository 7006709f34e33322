----------------------------- MODULE MCSessions -----------------------------
(* Instances of Sessions for TLC. *)
EXTENDS Sessions, TLC

CONSTANTS w1, w2

Workers2 == Permutations({w1, w2})

=============================================================================
