----------------------------- MODULE MCAccounts -----------------------------
(* Instances of the accounts for TLC. *)
EXTENDS Accounts, TLC

\* Operations, addresses and passwords are interchangeable.
Symmetry == Permutations(Ops) \cup Permutations(Emails) \cup Permutations(Passwords)

=============================================================================
