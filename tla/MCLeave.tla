------------------------------- MODULE MCLeave -------------------------------
(* Instances of Leave for TLC: a year is one day long. *)
EXTENDS Leave, TLC

CONSTANTS w1, w2, r1, r2

Symmetry == Permutations({w1, w2}) \cup Permutations({r1, r2})

\* Explored further: where operations have met, the instance without crashes.
MetOrCrashed == serial \/ crashes = 0

=============================================================================
