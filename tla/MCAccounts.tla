----------------------------- MODULE MCAccounts ------------------------------
(* TLC instances of Accounts: calls in flight are interchangeable.            *)
EXTENDS Accounts, TLC

ClientSymmetry == Permutations(Clients)
==============================================================================
