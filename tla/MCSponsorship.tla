---------------------------- MODULE MCSponsorship ----------------------------
(* TLC instances of Sponsorship.                                              *)
EXTENDS Sponsorship, TLC
==============================================================================
