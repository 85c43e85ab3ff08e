------------------------------ MODULE Inventory ------------------------------
(***************************************************************************)
(* The inventory engine (modules/inventory): per listing the counters      *)
(* total, available, reserved and sold, the reservations that move stock   *)
(* between them, and the part of the listing status the engine owns.       *)
(*                                                                         *)
(* The database runs READ COMMITTED.  A service method that reads a row    *)
(* and later writes a decision taken from it is two actions: one that      *)
(* reads (Begin...) and one that writes and commits (Commit...); between   *)
(* them any other transaction may commit.  A method whose decision is      *)
(* taken inside one UPDATE statement is one action.                        *)
(***************************************************************************)
EXTENDS Integers, FiniteSets

CONSTANTS
    Listings,       \* the listings, one inventory_items row each
    Reservations,   \* ids of inventory_reservations rows (bounds how many exist)
    Customers,      \* requests that reserve stock
    Settlers,       \* requests and job runs that confirm, release or expire
    Admins,         \* admin requests that add or adjust stock
    MaxQty,         \* largest quantity of one reservation or one addition
    MaxTotal        \* bound on total_qty

ASSUME BoundsAssumption == MaxQty \in Nat /\ MaxTotal \in Nat

VARIABLES
    item,           \* inventory_items: Listings -> counters
    listing,        \* listings.status as far as inventory reads or writes it
    resv,           \* inventory_reservations
    tx              \* what each open transaction has read

vars == <<item, listing, resv, tx>>

Actors == Customers \union Settlers \union Admins

(***************************************************************************)
(* Rows                                                                    *)
(***************************************************************************)
Counters == [total: Int, available: Int, reserved: Int, sold: Int]

\* "other" stands for draft, pending_review, paused and removed: inventory
\* never moves a listing out of or into any of them.
ListingStatus == {"active", "sold_out", "other"}

Settled == {"confirmed", "released", "expired"}
ReservationStatus == {"absent", "reserved"} \union Settled

\* due: expires_at lies in the past.
Reservation ==
    [listing: Listings, qty: Nat, status: ReservationStatus, due: BOOLEAN]

NoTx == [op |-> "none"]
SettleTx == [op: Settled, r: Reservations]
AdjustTx == [op: {"adjust"}, l: Listings, newTotal: Int, diff: Int]
Tx == {NoTx} \union SettleTx \union AdjustTx

TypeOK ==
    /\ item \in [Listings -> Counters]
    /\ listing \in [Listings -> ListingStatus]
    /\ resv \in [Reservations -> Reservation]
    /\ tx \in [Actors -> Tx]

\* createListing stores total = available = quantity under any status.
Init ==
    /\ item \in [Listings -> {[total |-> n, available |-> n, reserved |-> 0, sold |-> 0] :
                                n \in 0..MaxTotal}]
    /\ listing \in [Listings -> ListingStatus]
    /\ resv \in [Reservations ->
                   {[listing |-> l, qty |-> 0, status |-> "absent", due |-> FALSE] :
                        l \in Listings}]
    /\ tx = [w \in Actors |-> NoTx]

(***************************************************************************)
(* Statements shared by several methods                                    *)
(***************************************************************************)
Idle(w) == tx[w] = NoTx

\* UPDATE listings SET status = 'sold_out' WHERE ... status = 'active'
MarkSoldOut(s) == IF s = "active" THEN "sold_out" ELSE s

\* Mutant of MarkActive: the re-activation is forgotten.
MarkActiveDropped(s) == s

\* UPDATE listings SET status = 'active' WHERE ... status = 'sold_out'
MarkActive(s) == IF s = "sold_out" THEN "active" ELSE s

\* Mutants of Returned: only available_qty moves; the quantity moves twice.
ReturnedKeepsReserved(c, q) == [c EXCEPT !.available = @ + q]
ReturnedTwice(c, q) == [c EXCEPT !.reserved = @ - 2 * q, !.available = @ + 2 * q]

\* The counters as a settled reservation of quantity q leaves them.
Confirmed(c, q) == [c EXCEPT !.reserved = @ - q, !.sold = @ + q]
Returned(c, q) == [c EXCEPT !.reserved = @ - q, !.available = @ + q]

(***************************************************************************)
(* addStock: relative UPDATEs only, so it is one action.                   *)
(***************************************************************************)
AddStock(w, l, q) ==
    /\ Idle(w)
    /\ item[l].total + q <= MaxTotal
    /\ item' = [item EXCEPT ![l].total = @ + q, ![l].available = @ + q]
    /\ listing' = [listing EXCEPT ![l] = MarkActive(@)]
    /\ UNCHANGED <<resv, tx>>

(***************************************************************************)
(* adjustStock: the difference and the guard come from the row as read;    *)
(* total_qty is then overwritten, available_qty moved by the difference.   *)
(***************************************************************************)
BeginAdjust(w, l, newTotal) ==
    LET diff == newTotal - item[l].total IN
    /\ Idle(w)
    /\ item[l].available + diff >= 0
    /\ tx' = [tx EXCEPT ![w] = [op |-> "adjust", l |-> l,
                                newTotal |-> newTotal, diff |-> diff]]
    /\ UNCHANGED <<item, listing, resv>>

CommitAdjust(w) ==
    LET t == tx[w]
        available == item[t.l].available + t.diff
    IN
    /\ t.op = "adjust"
    /\ item' = [item EXCEPT ![t.l].total = t.newTotal, ![t.l].available = available]
    /\ listing' = [listing EXCEPT ![t.l] =
                     IF available = 0 THEN MarkSoldOut(@)
                     ELSE IF available > 0 THEN MarkActive(@)
                     ELSE @]
    /\ tx' = [tx EXCEPT ![w] = NoTx]
    /\ UNCHANGED resv

(***************************************************************************)
(* reserveStock: the stock check is the WHERE clause of the UPDATE.  When  *)
(* no row matches, the method throws and the transaction rolls back.       *)
(***************************************************************************)
ReserveStock(w, r, l, q) ==
    /\ Idle(w)
    /\ resv[r].status = "absent"
    /\ item[l].available >= q
    /\ item' = [item EXCEPT ![l].available = @ - q, ![l].reserved = @ + q]
    /\ listing' = [listing EXCEPT ![l] =
                     IF item'[l].available = 0 THEN MarkSoldOut(@) ELSE @]
    /\ resv' = [resv EXCEPT ![r] = [listing |-> l, qty |-> q,
                                    status |-> "reserved", due |-> FALSE]]
    /\ UNCHANGED tx

\* The reservation's TTL runs out.
TtlPasses(r) ==
    /\ resv[r].status = "reserved"
    /\ ~resv[r].due
    /\ resv' = [resv EXCEPT ![r].due = TRUE]
    /\ UNCHANGED <<item, listing, tx>>

(***************************************************************************)
(* confirmReservation, releaseReservation and expireStaleReservations:     *)
(* each reads the reservation and stops unless it is still reserved.       *)
(***************************************************************************)
BeginSettleAnyStatus(w, r, to) ==      \* mutant: the status is not looked at
    /\ Idle(w)
    /\ resv[r].status # "absent"
    /\ to = "expired" => resv[r].due
    /\ tx' = [tx EXCEPT ![w] = [op |-> to, r |-> r]]
    /\ UNCHANGED <<item, listing, resv>>

BeginSettle(w, r, to) ==
    /\ Idle(w)
    /\ resv[r].status = "reserved"
    /\ to = "expired" => resv[r].due
    /\ tx' = [tx EXCEPT ![w] = [op |-> to, r |-> r]]
    /\ UNCHANGED <<item, listing, resv>>

\* save() writes the status by primary key and the counters are moved by
\* relative UPDATEs; neither looks at the status again.
SettleWrite(r, to) ==
    LET l == resv[r].listing
        q == resv[r].qty
    IN
    /\ resv' = [resv EXCEPT ![r].status = to]
    /\ item' = [item EXCEPT ![l] = IF to = "confirmed" THEN Confirmed(@, q)
                                                       ELSE Returned(@, q)]
    /\ listing' = [listing EXCEPT ![l] =
                     IF to # "confirmed" /\ item'[l].available > 0 THEN MarkActive(@) ELSE @]

CommitSettle(w) ==
    /\ tx[w].op \in Settled
    /\ SettleWrite(tx[w].r, tx[w].op)
    /\ tx' = [tx EXCEPT ![w] = NoTx]

\* An error or a lost connection before COMMIT: the transaction rolls back.
Rollback(w) ==
    /\ ~Idle(w)
    /\ tx' = [tx EXCEPT ![w] = NoTx]
    /\ UNCHANGED <<item, listing, resv>>

Next ==
    \/ \E w \in Customers, r \in Reservations, l \in Listings, q \in 1..MaxQty :
          ReserveStock(w, r, l, q)
    \/ \E w \in Settlers, r \in Reservations, to \in Settled : BeginSettle(w, r, to)
    \/ \E w \in Settlers : CommitSettle(w)
    \/ \E w \in Admins, l \in Listings, q \in 1..MaxQty : AddStock(w, l, q)
    \/ \E w \in Admins, l \in Listings, n \in 0..MaxTotal : BeginAdjust(w, l, n)
    \/ \E w \in Admins : CommitAdjust(w)
    \/ \E w \in Actors : Rollback(w)
    \/ \E r \in Reservations : TtlPasses(r)

Spec == Init /\ [][Next]_vars

(***************************************************************************)
(* Properties                                                              *)
(***************************************************************************)
\* The units of some reservations, each with its number: their quantities add up to
\* how many there are.
UnitsOf(rs) == UNION {{r} \X (1..resv[r].qty) : r \in rs}
QtyOf(rs) == Cardinality(UnitsOf(rs))
HeldOn(l, status) == {r \in Reservations : resv[r].listing = l /\ resv[r].status = status}

\* Every unit of a listing is available, reserved or sold: no operation
\* creates or loses stock.
Conservation ==
    \A l \in Listings :
        item[l].total = item[l].available + item[l].reserved + item[l].sold

\* No stock is stranded: stock that comes back (an addition, an adjustment, a
\* released or expired reservation) puts a sold-out listing back on sale in the
\* same transaction, and none is marked sold out while it has stock, whatever
\* runs beside it.  (An admin may still create a listing as sold out.)
NoStockStranded ==
    [][\A l \in Listings :
         (listing'[l] = "sold_out" /\ item'[l].available > 0) =>
             (listing[l] = "sold_out" /\ item[l].available > 0)]_vars
==============================================================================
