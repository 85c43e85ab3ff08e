--------------------------- MODULE MCOrderPayment ----------------------------
(* TLC instances of OrderPayment.  Workers that do the same things are        *)
(* interchangeable, and so are the intents (idempotency keys).                *)
EXTENDS OrderPayment, TLC

IntentSymmetry == Permutations(Intents)
WorkerIntentSymmetry == Permutations(Workers) \union Permutations(Intents)
==============================================================================
