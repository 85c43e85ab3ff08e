----------------------------- MODULE MCEarnings ------------------------------
(* TLC instances of Earnings: the amounts of the levels are 2, 1, ..., or    *)
(* 2 on every level.  Users are interchangeable, and so are the runs of the   *)
(* outbox processor.                                                          *)
EXTENDS Earnings, TLC

MCAmount == [l \in 1..MaxLevel |-> MaxLevel + 1 - l]
MCAmountTwo == [l \in 1..MaxLevel |-> 2]

UserCalculatorSymmetry == Permutations(Users) \union Permutations(Calculators)
==============================================================================
