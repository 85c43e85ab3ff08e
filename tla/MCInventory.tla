----------------------------- MODULE MCInventory -----------------------------
(* TLC instances of InventoryAudit.  Reservation ids are interchangeable.         *)
EXTENDS InventoryAudit, TLC

ReservationSymmetry == Permutations(Reservations)
==============================================================================
