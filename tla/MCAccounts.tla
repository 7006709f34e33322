----------------------------- MODULE MCAccounts -----------------------------
(* Instances of Accounts for TLC. *)
EXTENDS Accounts, TLC

CONSTANTS w1, w2

SomeWorkers == Permutations(Workers)

=============================================================================
