----------------------------- MODULE MCAccounts -----------------------------
(* Instances of Accounts for TLC: requests, keys and contacts are          *)
(* interchangeable.                                                        *)
EXTENDS Accounts, TLC

Symmetry == Permutations(Requests) \cup Permutations(Keys) \cup Permutations(Contacts)
=============================================================================
