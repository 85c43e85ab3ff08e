------------------------------- MODULE MCTrust -------------------------------
(* TLC instances of Trust.                                                    *)
EXTENDS Trust, TLC
==============================================================================
