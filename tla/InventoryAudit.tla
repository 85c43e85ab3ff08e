--------------------------- MODULE InventoryAudit ---------------------------
(***************************************************************************)
(* The inventory engine with an account of which calls overlapped.  The    *)
(* added variables only watch Next: they restrict no step and no action    *)
(* reads them.  With them the guarantees that hold for calls made one      *)
(* after the other say exactly which overlap takes them away.              *)
(***************************************************************************)
EXTENDS Inventory

ASSUME SettlersAssumption == IsFiniteSet(Settlers)

VARIABLES
    settlements,    \* how often each reservation was settled
    overlapped,     \* reservations two calls were settling at the same time
    undercut        \* listings that lost stock between the check of an adjustment
                    \* and its write

auditVars == <<vars, settlements, overlapped, undercut>>

Settling(r) == {w \in Settlers : tx[w].op \in Settled /\ tx[w].r = r}
Adjusting(l) == {w \in Admins : tx[w].op = "adjust" /\ tx[w].l = l}

AuditTypeOK ==
    /\ settlements \in [Reservations -> Nat]
    /\ overlapped \subseteq Reservations
    /\ undercut \subseteq Listings

AuditInit ==
    /\ Init
    /\ settlements = [r \in Reservations |-> 0]
    /\ overlapped = {}
    /\ undercut = {}

\* Who commits a settlement has moved the counters: CommitSettle is the only step that
\* changes item and ends a settling transaction.
Commits(w, r) == w \in Settling(r) /\ CommitSettle(w)

Watch ==
    /\ settlements' = [r \in Reservations |->
                         IF \E w \in Settlers : Commits(w, r) THEN settlements[r] + 1
                                                              ELSE settlements[r]]
    /\ overlapped' = overlapped \union
                       {r \in Reservations : \E v, w \in Settling(r)' : v # w}
    /\ undercut' = undercut \union
                     {l \in Listings : /\ item'[l].available < item[l].available
                                       /\ Adjusting(l)' # {}}

AuditSpec == AuditInit /\ [][Next /\ Watch]_auditVars

(***************************************************************************)
(* Properties                                                              *)
(***************************************************************************)

\* A reservation is settled once: confirmed, released or expired, whatever is asked of
\* it later (the idempotency the settling methods promise).  Only calls that were
\* settling it at the same time can settle it again, and never more often than calls
\* are in flight.
SettledOnce ==
    \A r \in Reservations :
        /\ settlements[r] > 1 => r \in overlapped
        /\ settlements[r] + Cardinality(Settling(r)) <= Cardinality(Settlers)

\* The reserved and sold counters are exactly what the reservation rows say, unless one
\* of the rows was settled twice, and nothing is promised that is not in stock, unless
\* stock was taken between the check of an adjustment and its write; no other
\* interleaving of reservations, settlements, additions and adjustments disturbs them.
StockAccounted ==
    \A l \in Listings :
        /\ (\A r \in Reservations : resv[r].listing = l => settlements[r] <= 1) =>
              /\ item[l].reserved = QtyOf(HeldOn(l, "reserved"))
              /\ item[l].sold = QtyOf(HeldOn(l, "confirmed"))
        /\ l \notin undercut => item[l].available >= 0
==============================================================================
