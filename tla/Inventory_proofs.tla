-------------------------- MODULE Inventory_proofs ---------------------------
(***************************************************************************)
(* What TLAPS proves of the inventory engine for every number of listings, *)
(* reservations and requests.                                              *)
(*                                                                         *)
(*   TypeCorrect          Spec => []TypeOK                                 *)
(*   SoldOutListings      Spec => NoStockStranded                          *)
(*   StockConserved       Spec => []Conservation      one admin at a time  *)
(*   ReservationSettled   AuditSpec => []SettledOnce                       *)
(*   StockIsAccounted     AuditSpec => []StockAccounted                    *)
(*                                                                         *)
(* The hypothesis of StockConserved is necessary: with two admins TLC      *)
(* finds stock lost (see the README).                                      *)
(***************************************************************************)
EXTENDS InventoryAudit, FiniteSetTheorems, TLAPS

OneAdmin == \A a, b \in Admins : a = b

(***************************************************************************)
(* Types                                                                   *)
(***************************************************************************)

\* Settling a reservation moves its quantity between counters: it keeps their
\* type and their sum.
LEMMA SettledCounters ==
    ASSUME NEW c \in Counters, NEW q \in Nat
    PROVE  /\ Confirmed(c, q) \in Counters
           /\ Confirmed(c, q).total = c.total
           /\ Confirmed(c, q).available = c.available
           /\ Confirmed(c, q).reserved = c.reserved - q
           /\ Confirmed(c, q).sold = c.sold + q
           /\ Returned(c, q) \in Counters
           /\ Returned(c, q).total = c.total
           /\ Returned(c, q).available = c.available + q
           /\ Returned(c, q).reserved = c.reserved - q
           /\ Returned(c, q).sold = c.sold
<1> DEFINE Fields == {"total", "available", "reserved", "sold"}
<1>1. DOMAIN c = Fields /\ \A f \in Fields : c[f] \in Int
  BY DEF Counters
<1>2. /\ Confirmed(c, q).total = c.total
      /\ Confirmed(c, q).available = c.available
      /\ Confirmed(c, q).reserved = c.reserved - q
      /\ Confirmed(c, q).sold = c.sold + q
      /\ Confirmed(c, q) = [f \in Fields |-> Confirmed(c, q)[f]]
  BY <1>1 DEF Confirmed
<1>3. /\ Returned(c, q).total = c.total
      /\ Returned(c, q).available = c.available + q
      /\ Returned(c, q).reserved = c.reserved - q
      /\ Returned(c, q).sold = c.sold
      /\ Returned(c, q) = [f \in Fields |-> Returned(c, q)[f]]
  BY <1>1 DEF Returned
<1>4. Confirmed(c, q) \in Counters /\ Returned(c, q) \in Counters
  BY <1>1, <1>2, <1>3 DEF Counters
<1> QED
  BY <1>2, <1>3, <1>4

\* The rows and the open transactions keep their types through every method.
THEOREM TypeCorrect == Spec => []TypeOK
<1>1. Init => TypeOK
  <2> SUFFICES ASSUME Init PROVE TypeOK
    OBVIOUS
  <2>1. item \in [Listings -> Counters]
    BY BoundsAssumption DEF Init, Counters
  <2>2. listing \in [Listings -> ListingStatus]
    BY DEF Init, ListingStatus
  <2>3. resv \in [Reservations -> Reservation]
    <3> DEFINE Absent == {[listing |-> l, qty |-> 0, status |-> "absent", due |-> FALSE] :
                             l \in Listings}
    <3>1. resv \in [Reservations -> Absent]
      BY DEF Init
    <3>2. \A l \in Listings :
             [listing |-> l, qty |-> 0, status |-> "absent", due |-> FALSE] \in Reservation
      BY DEF Reservation, ReservationStatus
    <3>3. \A x \in Absent : x \in Reservation
      BY <3>2
    <3> QED
      BY <3>1, <3>3
  <2>4. tx \in [Actors -> Tx]
    BY DEF Init, Tx
  <2> QED
    BY <2>1, <2>2, <2>3, <2>4 DEF TypeOK
<1>2. TypeOK /\ [Next]_vars => TypeOK'
  <2> SUFFICES ASSUME TypeOK, [Next]_vars PROVE TypeOK'
    OBVIOUS
  <2>1. ASSUME NEW w \in Customers, NEW r \in Reservations, NEW l \in Listings,
               NEW q \in 1..MaxQty, ReserveStock(w, r, l, q)
        PROVE  TypeOK'
    BY <2>1, BoundsAssumption
    DEF TypeOK, ReserveStock, MarkSoldOut, Counters, ListingStatus, Reservation,
        ReservationStatus
  <2>2. ASSUME NEW w \in Settlers, NEW r \in Reservations, NEW to \in Settled,
               BeginSettle(w, r, to)
        PROVE  TypeOK'
    BY <2>2 DEF TypeOK, BeginSettle, Tx, SettleTx
  <2>3. ASSUME NEW w \in Settlers, CommitSettle(w)
        PROVE  TypeOK'
    <3>1. tx[w].r \in Reservations /\ tx[w].op \in Settled
      BY <2>3 DEF TypeOK, CommitSettle, Actors, Tx, NoTx, SettleTx, AdjustTx, Settled
    <3>2. resv[tx[w].r].qty \in Nat /\ resv[tx[w].r].listing \in Listings
      BY <3>1 DEF TypeOK, Reservation
    <3>3. (item \in [Listings -> Counters])'
      <4> DEFINE l == resv[tx[w].r].listing
                 q == resv[tx[w].r].qty
      <4>1. item' = [item EXCEPT ![l] = IF tx[w].op = "confirmed" THEN Confirmed(item[l], q)
                                                                  ELSE Returned(item[l], q)]
        BY <2>3 DEF CommitSettle, SettleWrite
      <4>2. l \in Listings /\ q \in Nat /\ item[l] \in Counters
        BY <3>2 DEF TypeOK
      <4> HIDE DEF l, q
      <4> QED
        BY <4>1, <4>2, SettledCounters DEF TypeOK
    <3>4. (listing \in [Listings -> ListingStatus])'
      BY <2>3 DEF TypeOK, CommitSettle, SettleWrite, MarkActive, ListingStatus
    <3>5. (resv \in [Reservations -> Reservation])'
      BY <2>3, <3>1
      DEF TypeOK, CommitSettle, SettleWrite, Reservation, ReservationStatus
    <3>6. (tx \in [Actors -> Tx])'
      BY <2>3 DEF TypeOK, CommitSettle, Tx
    <3> QED
      BY <3>3, <3>4, <3>5, <3>6 DEF TypeOK
  <2>4. ASSUME NEW w \in Admins, NEW l \in Listings, NEW q \in 1..MaxQty,
               AddStock(w, l, q)
        PROVE  TypeOK'
    BY <2>4, BoundsAssumption
    DEF TypeOK, AddStock, MarkActive, Counters, ListingStatus
  <2>5. ASSUME NEW w \in Admins, NEW l \in Listings, NEW n \in 0..MaxTotal,
               BeginAdjust(w, l, n)
        PROVE  TypeOK'
    <3>1. n \in Int /\ n - item[l].total \in Int
      BY BoundsAssumption DEF TypeOK, Counters
    <3> QED
      BY <2>5, <3>1 DEF TypeOK, BeginAdjust, Tx, AdjustTx
  <2>6. ASSUME NEW w \in Admins, CommitAdjust(w)
        PROVE  TypeOK'
    <3>1. tx[w] \in AdjustTx
      BY <2>6 DEF TypeOK, CommitAdjust, Actors, Tx, NoTx, SettleTx, AdjustTx, Settled
    <3>2. (item \in [Listings -> Counters])'
      BY <2>6, <3>1 DEF TypeOK, CommitAdjust, AdjustTx, Counters
    <3>3. (listing \in [Listings -> ListingStatus])'
      BY <2>6 DEF TypeOK, CommitAdjust, MarkActive, MarkSoldOut, ListingStatus
    <3>4. (resv \in [Reservations -> Reservation])' /\ (tx \in [Actors -> Tx])'
      BY <2>6 DEF TypeOK, CommitAdjust, Tx
    <3> QED
      BY <3>2, <3>3, <3>4 DEF TypeOK
  <2>7. ASSUME NEW w \in Actors, Rollback(w)
        PROVE  TypeOK'
    BY <2>7 DEF TypeOK, Rollback, Tx
  <2>8. ASSUME NEW r \in Reservations, TtlPasses(r)
        PROVE  TypeOK'
    BY <2>8 DEF TypeOK, TtlPasses, Reservation
  <2>9. CASE UNCHANGED vars
    BY <2>9 DEF TypeOK, vars
  <2> QED
    BY <2>1, <2>2, <2>3, <2>4, <2>5, <2>6, <2>7, <2>8, <2>9 DEF Next
<1> QED
  BY <1>1, <1>2, PTL DEF Spec

(***************************************************************************)
(* Sold-out listings                                                       *)
(***************************************************************************)

\* A settling write moves one reservation's quantity, on its listing only.
LEMMA SettleMovesQty ==
    ASSUME TypeOK, NEW w \in Settlers, CommitSettle(w), NEW l \in Listings
    PROVE  LET r == tx[w].r
               q == resv[r].qty
           IN
           /\ r \in Reservations /\ q \in Nat
           /\ l # resv[r].listing => item'[l] = item[l] /\ listing'[l] = listing[l]
           /\ l = resv[r].listing =>
                /\ item'[l] = IF tx[w].op = "confirmed" THEN Confirmed(item[l], q)
                                                        ELSE Returned(item[l], q)
                /\ listing'[l] = IF tx[w].op # "confirmed" /\ item'[l].available > 0
                                 THEN MarkActive(listing[l]) ELSE listing[l]
<1>1. tx[w].r \in Reservations
  BY DEF TypeOK, CommitSettle, Actors, Tx, NoTx, SettleTx, AdjustTx, Settled
<1>2. resv[tx[w].r].qty \in Nat /\ resv[tx[w].r].listing \in Listings
  BY <1>1 DEF TypeOK, Reservation
<1> QED
  BY <1>1, <1>2 DEF TypeOK, CommitSettle, SettleWrite

\* Whatever runs beside a method, it leaves no listing sold out with stock that
\* was not so before: each method that returns stock re-activates the listing
\* in the same transaction.
THEOREM SoldOutListings == Spec => NoStockStranded
<1>1. TypeOK /\ [Next]_vars =>
        [\A l \in Listings :
            (listing'[l] = "sold_out" /\ item'[l].available > 0) =>
                (listing[l] = "sold_out" /\ item[l].available > 0)]_vars
  <2> SUFFICES ASSUME TypeOK, Next, NEW l \in Listings,
                      listing'[l] = "sold_out", item'[l].available > 0
               PROVE  listing[l] = "sold_out" /\ item[l].available > 0
    OBVIOUS
  <2>0. item[l] \in Counters /\ item[l].available \in Int
    BY DEF TypeOK, Counters
  <2>1. ASSUME NEW w \in Customers, NEW r \in Reservations, NEW m \in Listings,
               NEW q \in 1..MaxQty, ReserveStock(w, r, m, q)
        PROVE  listing[l] = "sold_out" /\ item[l].available > 0
    <3>1. q \in Nat
      BY BoundsAssumption
    <3>2. CASE m = l
      <4>1. item'[l].available = item[l].available - q
        BY <2>1, <3>2, <2>0 DEF ReserveStock, TypeOK, Counters
      <4>2. item'[l].available = 0 \/ listing[l] = "sold_out"
        BY <2>1, <3>2 DEF ReserveStock, TypeOK
      <4> QED
        BY <4>1, <4>2, <3>1, <2>0
    <3>3. CASE m # l
      BY <2>1, <3>3 DEF ReserveStock, TypeOK
    <3> QED
      BY <3>2, <3>3
  <2>2. ASSUME NEW w \in Settlers, CommitSettle(w)
        PROVE  listing[l] = "sold_out" /\ item[l].available > 0
    <3>1. CASE l # resv[tx[w].r].listing
      BY <2>2, <3>1, SettleMovesQty
    <3>2. CASE l = resv[tx[w].r].listing /\ tx[w].op = "confirmed"
      <4> DEFINE c == item[l]
                 q == resv[tx[w].r].qty
      <4>1. /\ c \in Counters /\ q \in Nat
            /\ item'[l] = Confirmed(c, q) /\ listing'[l] = listing[l]
        BY <2>2, <3>2, <2>0, SettleMovesQty
      <4>2. Confirmed(c, q).available = c.available
        <5> HIDE DEF c, q
        <5> QED
          BY <4>1, SettledCounters
      <4> QED
        BY <4>1, <4>2
    <3>3. CASE l = resv[tx[w].r].listing /\ tx[w].op # "confirmed"
      BY <2>2, <3>3, SettleMovesQty DEF MarkActive
    <3> QED
      BY <3>1, <3>2, <3>3
  <2>3. ASSUME NEW w \in Admins, NEW m \in Listings, NEW q \in 1..MaxQty,
               AddStock(w, m, q)
        PROVE  listing[l] = "sold_out" /\ item[l].available > 0
    BY <2>3 DEF AddStock, TypeOK, MarkActive
  <2>4. ASSUME NEW w \in Admins, CommitAdjust(w)
        PROVE  listing[l] = "sold_out" /\ item[l].available > 0
    <3>1. CASE l # tx[w].l
      BY <2>4, <3>1 DEF CommitAdjust, TypeOK
    <3>2. CASE l = tx[w].l
      <4> DEFINE available == item[l].available + tx[w].diff
      <4>1. item'[l].available = available
        BY <2>4, <3>2, <2>0 DEF CommitAdjust, TypeOK, Counters
      <4>2. available > 0 => listing'[l] = MarkActive(listing[l])
        <5>1. tx[w] \in AdjustTx
          BY <2>4 DEF TypeOK, CommitAdjust, Actors, Tx, NoTx, SettleTx, AdjustTx, Settled
        <5>2. available \in Int
          BY <5>1, <2>0 DEF AdjustTx
        <5> QED
          BY <2>4, <3>2, <5>2 DEF CommitAdjust, TypeOK
      <4> HIDE DEF available
      <4> QED
        BY <4>1, <4>2 DEF MarkActive
    <3> QED
      BY <3>1, <3>2
  <2>5. CASE UNCHANGED <<item, listing>>
    BY <2>5
  <2> QED
    BY <2>1, <2>2, <2>3, <2>4, <2>5
    DEF Next, BeginSettle, BeginAdjust, Rollback, TtlPasses
<1> QED
  BY <1>1, TypeCorrect, PTL DEF Spec, NoStockStranded

(***************************************************************************)
(* Conservation of stock                                                   *)
(***************************************************************************)

\* What an open adjustment relies on: since it read the row nobody has changed
\* total_qty, so that its difference still leads to the total it will write.
AdjustAgrees ==
    \A w \in Actors :
        tx[w].op = "adjust" =>
            /\ w \in Admins
            /\ tx[w].newTotal = item[tx[w].l].total + tx[w].diff

ConservationInv == TypeOK /\ Conservation /\ AdjustAgrees

\* One admin at a time: no method creates or loses a unit of stock.
THEOREM StockConserved == ASSUME OneAdmin PROVE Spec => []Conservation
<1>1. Init => Conservation /\ AdjustAgrees
  BY DEF Init, Conservation, AdjustAgrees, NoTx
<1>2. ConservationInv /\ [Next]_vars => (Conservation /\ AdjustAgrees)'
  <2> SUFFICES ASSUME ConservationInv, [Next]_vars
               PROVE  (Conservation /\ AdjustAgrees)'
    OBVIOUS
  <2> USE DEF ConservationInv
  <2>0. \A l \in Listings :
           /\ item[l].total \in Int /\ item[l].available \in Int
           /\ item[l].reserved \in Int /\ item[l].sold \in Int
    BY DEF TypeOK, Counters
  <2>1. ASSUME NEW w \in Customers, NEW r \in Reservations, NEW m \in Listings,
               NEW q \in 1..MaxQty, ReserveStock(w, r, m, q)
        PROVE  (Conservation /\ AdjustAgrees)'
    <3>1. q \in Int
      BY BoundsAssumption
    <3>2. \A l \in Listings : item'[l].total = item[l].total
      BY <2>1 DEF ReserveStock, TypeOK, Counters
    <3>3. Conservation'
      BY <2>1, <3>1, <2>0 DEF ReserveStock, TypeOK, Counters, Conservation
    <3>4. AdjustAgrees'
      BY <2>1, <3>2 DEF ReserveStock, AdjustAgrees, TypeOK, Tx, NoTx, SettleTx, AdjustTx,
                        Settled
    <3> QED
      BY <3>3, <3>4
  <2>2. ASSUME NEW w \in Settlers, CommitSettle(w)
        PROVE  (Conservation /\ AdjustAgrees)'
    <3>1. \A l \in Listings :
             /\ item'[l].total = item[l].total
             /\ item'[l].total = item'[l].available + item'[l].reserved + item'[l].sold
      <4> SUFFICES ASSUME NEW l \in Listings
                   PROVE  /\ item'[l].total = item[l].total
                          /\ item'[l].total =
                               item'[l].available + item'[l].reserved + item'[l].sold
        OBVIOUS
      <4>1. CASE l # resv[tx[w].r].listing
        BY <2>2, <4>1, SettleMovesQty DEF Conservation
      <4>2. CASE l = resv[tx[w].r].listing
        <5>1. item[l] \in Counters /\ resv[tx[w].r].qty \in Nat
          BY <2>2, SettleMovesQty DEF TypeOK
        <5>2. \/ item'[l] = Confirmed(item[l], resv[tx[w].r].qty)
              \/ item'[l] = Returned(item[l], resv[tx[w].r].qty)
          BY <2>2, <4>2, SettleMovesQty
        <5>3. item[l].total = item[l].available + item[l].reserved + item[l].sold
          BY DEF Conservation
        <5> DEFINE c == item[l]
                   q == resv[tx[w].r].qty
                   d == item'[l]
        <5>4. \/ /\ d.total = c.total /\ d.available = c.available
                 /\ d.reserved = c.reserved - q /\ d.sold = c.sold + q
              \/ /\ d.total = c.total /\ d.available = c.available + q
                 /\ d.reserved = c.reserved - q /\ d.sold = c.sold
          <6>1. c \in Counters /\ q \in Nat /\ (d = Confirmed(c, q) \/ d = Returned(c, q))
            BY <5>1, <5>2
          <6> HIDE DEF c, q, d
          <6> QED
            BY <6>1, SettledCounters
        <5> QED
          BY <5>1, <5>3, <5>4, <2>0
      <4> QED
        BY <4>1, <4>2
    <3>2. \A v \in Actors : tx'[v].op = "adjust" => tx'[v] = tx[v] /\ tx[v].l \in Listings
      BY <2>2 DEF CommitSettle, TypeOK, Actors, Tx, NoTx, SettleTx, AdjustTx, Settled
    <3> QED
      BY <3>1, <3>2 DEF Conservation, AdjustAgrees
  <2>3. ASSUME NEW w \in Admins, NEW m \in Listings, NEW q \in 1..MaxQty,
               AddStock(w, m, q)
        PROVE  (Conservation /\ AdjustAgrees)'
    <3>1. q \in Int
      BY BoundsAssumption
    <3>2. Conservation'
      BY <2>3, <3>1, <2>0 DEF AddStock, TypeOK, Counters, Conservation
    <3>3. \A v \in Actors : tx[v].op # "adjust"
      BY <2>3 DEF AddStock, Idle, OneAdmin, AdjustAgrees, NoTx
    <3>4. AdjustAgrees'
      BY <2>3, <3>3 DEF AddStock, AdjustAgrees
    <3> QED
      BY <3>2, <3>4
  <2>4. ASSUME NEW w \in Admins, NEW m \in Listings, NEW n \in 0..MaxTotal,
               BeginAdjust(w, m, n)
        PROVE  (Conservation /\ AdjustAgrees)'
    <3>1. n \in Int
      BY BoundsAssumption
    <3>2. Conservation'
      BY <2>4 DEF BeginAdjust, Conservation
    <3>3. AdjustAgrees'
      BY <2>4, <3>1, <2>0 DEF BeginAdjust, AdjustAgrees, TypeOK, Actors
    <3> QED
      BY <3>2, <3>3
  <2>5. ASSUME NEW w \in Admins, CommitAdjust(w)
        PROVE  (Conservation /\ AdjustAgrees)'
    <3>1. tx[w] \in AdjustTx
      BY <2>5 DEF TypeOK, CommitAdjust, Actors, Tx, NoTx, SettleTx, AdjustTx, Settled
    <3>2. tx[w].newTotal = item[tx[w].l].total + tx[w].diff
      BY <2>5 DEF CommitAdjust, AdjustAgrees, Actors
    <3>3. Conservation'
      BY <2>5, <3>1, <3>2, <2>0
      DEF CommitAdjust, AdjustTx, TypeOK, Counters, Conservation
    <3>4. \A v \in Actors : tx'[v].op # "adjust"
      BY <2>5 DEF CommitAdjust, AdjustAgrees, OneAdmin, TypeOK, NoTx
    <3>5. AdjustAgrees'
      BY <3>4 DEF AdjustAgrees
    <3> QED
      BY <3>3, <3>5
  <2>6. ASSUME NEW w \in Settlers, NEW r \in Reservations, NEW to \in Settled,
               BeginSettle(w, r, to)
        PROVE  (Conservation /\ AdjustAgrees)'
    BY <2>6 DEF BeginSettle, Conservation, AdjustAgrees, TypeOK, Settled
  <2>7. ASSUME NEW w \in Actors, Rollback(w)
        PROVE  (Conservation /\ AdjustAgrees)'
    BY <2>7 DEF Rollback, Conservation, AdjustAgrees, TypeOK, NoTx
  <2>8. CASE UNCHANGED <<item, tx>>
    BY <2>8 DEF Conservation, AdjustAgrees
  <2> QED
    BY <2>1, <2>2, <2>3, <2>4, <2>5, <2>6, <2>7, <2>8 DEF Next, TtlPasses, vars
<1> QED
  BY <1>1, <1>2, TypeCorrect, PTL DEF Spec, ConservationInv

(***************************************************************************)
(* The counters are what the reservation rows say                          *)
(***************************************************************************)

\* The units a reservation brings into a set of units, or takes out of it.
LEMMA UnitsAdded ==
    ASSUME NEW U, IsFiniteSet(U), NEW r, NEW q \in Nat, \A i : <<r, i>> \notin U
    PROVE  /\ IsFiniteSet(U \union ({r} \X (1..q)))
           /\ Cardinality(U \union ({r} \X (1..q))) = Cardinality(U) + q
<1>1. PICK V : V = {r} \X (1..q)
  OBVIOUS
<1>2. IsFiniteSet(1..q) /\ Cardinality(1..q) = q
  <2>1. IsFiniteSet(1..q) /\ Cardinality(1..q) = IF 1 > q THEN 0 ELSE q - 1 + 1
    BY FS_Interval
  <2>2. QED
    BY <2>1
<1>3. IsFiniteSet({r}) /\ Cardinality({r}) = 1
  BY FS_Singleton
<1>4. IsFiniteSet(V) /\ Cardinality(V) = 1 * q
  <2>1. /\ IsFiniteSet({r} \X (1..q))
        /\ Cardinality({r} \X (1..q)) = Cardinality({r}) * Cardinality(1..q)
    BY <1>2, <1>3, FS_Product
  <2>2. QED
    BY <1>1, <1>2, <1>3, <2>1
<1>5. U \intersect V = {}
  BY <1>1
<1>6. /\ IsFiniteSet(U \union V)
      /\ Cardinality(U \union V) = Cardinality(U) + Cardinality(V) - Cardinality(U \intersect V)
  BY <1>4, FS_Union
<1>7. Cardinality(U \intersect V) = 0 /\ Cardinality(U) \in Nat
  BY <1>5, FS_EmptySet, FS_CardinalityType
<1>8. Cardinality(U \union V) = Cardinality(U) + q
  BY <1>4, <1>6, <1>7
<1>9. QED
  BY <1>1, <1>6, <1>8

LEMMA UnitsTaken ==
    ASSUME NEW U, IsFiniteSet(U), NEW r, NEW q \in Nat, NEW V,
           U = V \union ({r} \X (1..q)), \A i : <<r, i>> \notin V
    PROVE  IsFiniteSet(V) /\ Cardinality(V) = Cardinality(U) - q
<1>1. IsFiniteSet(V)
  BY FS_Subset
<1>2. Cardinality(U) = Cardinality(V) + q /\ Cardinality(V) \in Nat
  BY <1>1, UnitsAdded, FS_CardinalityType
<1>3. QED
  BY <1>1, <1>2

UnitsHeld(l, status) == UnitsOf(HeldOn(l, status))

\* The rows that are reserved on a listing hold what its counter reserved says, the
\* confirmed ones what sold says.
Counts(l) ==
    /\ IsFiniteSet(UnitsHeld(l, "reserved")) /\ IsFiniteSet(UnitsHeld(l, "confirmed"))
    /\ item[l].reserved = Cardinality(UnitsHeld(l, "reserved"))
    /\ item[l].sold = Cardinality(UnitsHeld(l, "confirmed"))

\* A listing whose counters and reservations stay as they are.
LEMMA CountsKept ==
    ASSUME NEW l, Counts(l),
           item'[l].reserved = item[l].reserved, item'[l].sold = item[l].sold,
           UnitsHeld(l, "reserved")' = UnitsHeld(l, "reserved"),
           UnitsHeld(l, "confirmed")' = UnitsHeld(l, "confirmed")
    PROVE  Counts(l)'
  BY DEF Counts

\* A step that changes at most one row, r, changes no units but its own.
LEMMA UnitsElsewhere ==
    ASSUME NEW r, NEW l, NEW status,
           \A s \in Reservations : s # r => resv'[s] = resv[s],
           ~(resv[r].listing = l /\ resv[r].status = status),
           ~(resv'[r].listing = l /\ resv'[r].status = status)
    PROVE  UnitsHeld(l, status)' = UnitsHeld(l, status)
<1>1. HeldOn(l, status)' = HeldOn(l, status) /\ r \notin HeldOn(l, status)
  BY DEF HeldOn
<1>2. \A s \in HeldOn(l, status) : resv'[s].qty = resv[s].qty
  BY <1>1 DEF HeldOn
<1>3. QED
  BY <1>1, <1>2 DEF UnitsHeld, UnitsOf

\* A row that becomes one of those held, and a row that leaves them.
LEMMA UnitsArrive ==
    ASSUME NEW r \in Reservations, NEW l, NEW status,
           \A s \in Reservations : s # r => resv'[s] = resv[s],
           ~(resv[r].listing = l /\ resv[r].status = status),
           resv'[r].listing = l, resv'[r].status = status
    PROVE  /\ UnitsHeld(l, status)' = UnitsHeld(l, status) \union ({r} \X (1..resv'[r].qty))
           /\ \A i : <<r, i>> \notin UnitsHeld(l, status)
<1>1. HeldOn(l, status)' = HeldOn(l, status) \union {r} /\ r \notin HeldOn(l, status)
  BY DEF HeldOn
<1>2. \A s \in HeldOn(l, status) : resv'[s].qty = resv[s].qty
  BY <1>1 DEF HeldOn
<1>3. QED
  BY <1>1, <1>2 DEF UnitsHeld, UnitsOf

LEMMA UnitsLeave ==
    ASSUME NEW r \in Reservations, NEW l, NEW status,
           \A s \in Reservations : s # r => resv'[s] = resv[s],
           resv[r].listing = l, resv[r].status = status,
           ~(resv'[r].listing = l /\ resv'[r].status = status)
    PROVE  /\ UnitsHeld(l, status) = UnitsHeld(l, status)' \union ({r} \X (1..resv[r].qty))
           /\ \A i : <<r, i>> \notin UnitsHeld(l, status)'
<1>1. HeldOn(l, status) = HeldOn(l, status)' \union {r} /\ r \notin HeldOn(l, status)'
  BY DEF HeldOn
<1>2. \A s \in HeldOn(l, status)' : resv'[s].qty = resv[s].qty
  BY <1>1 DEF HeldOn
<1>3. QED
  BY <1>1, <1>2 DEF UnitsHeld, UnitsOf

LEMMA CountsKeptByReserve ==
    ASSUME TypeOK, NEW w \in Customers, NEW r \in Reservations, NEW m \in Listings,
           NEW q \in 1..MaxQty, ReserveStock(w, r, m, q), NEW l \in Listings, Counts(l)
    PROVE  Counts(l)'
<1>1. q \in Nat
  BY BoundsAssumption
<1>2. /\ resv[r].status = "absent"
      /\ resv' = [resv EXCEPT ![r] = [listing |-> m, qty |-> q, status |-> "reserved",
                                      due |-> FALSE]]
      /\ item' = [item EXCEPT ![m].available = @ - q, ![m].reserved = @ + q]
  BY DEF ReserveStock
<1>3. /\ \A s \in Reservations : s # r => resv'[s] = resv[s]
      /\ resv'[r].listing = m /\ resv'[r].status = "reserved" /\ resv'[r].qty = q
  BY <1>2 DEF TypeOK
<1>4. UnitsHeld(l, "confirmed")' = UnitsHeld(l, "confirmed")
  BY <1>2, <1>3, UnitsElsewhere
<1>5. CASE l # m
  <2>1. UnitsHeld(l, "reserved")' = UnitsHeld(l, "reserved")
    BY <1>2, <1>3, <1>5, UnitsElsewhere
  <2>2. item'[l] = item[l]
    BY <1>2, <1>5 DEF TypeOK
  <2>3. QED
    BY <1>4, <2>1, <2>2, CountsKept
<1>6. CASE l = m
  <2>1. /\ UnitsHeld(l, "reserved")' = UnitsHeld(l, "reserved") \union ({r} \X (1..q))
        /\ \A i : <<r, i>> \notin UnitsHeld(l, "reserved")
    BY <1>2, <1>3, <1>6, UnitsArrive
  <2>2. PICK U : U = UnitsHeld(l, "reserved")
    OBVIOUS
  <2>3. /\ IsFiniteSet(U \union ({r} \X (1..q)))
        /\ Cardinality(U \union ({r} \X (1..q))) = Cardinality(U) + q
    BY <1>1, <2>1, <2>2, UnitsAdded DEF Counts
  <2>4. item'[l].reserved = item[l].reserved + q /\ item'[l].sold = item[l].sold
    BY <1>2, <1>6 DEF TypeOK, Counters
  <2>5. QED
    BY <1>4, <2>1, <2>2, <2>3, <2>4 DEF Counts
<1>7. QED
  BY <1>5, <1>6

\* A settlement moves the units of a reservation that was still reserved.
LEMMA CountsKeptBySettle ==
    ASSUME TypeOK, NEW w \in Settlers, CommitSettle(w), NEW l \in Listings, Counts(l),
           resv[tx[w].r].listing = l => resv[tx[w].r].status = "reserved"
    PROVE  Counts(l)'
<1>1. PICK r, to : r = tx[w].r /\ to = tx[w].op
  OBVIOUS
<1>2. r \in Reservations /\ to \in Settled
  BY <1>1, SettleMovesQty DEF CommitSettle
<1>3. PICK m, q : m = resv[r].listing /\ q = resv[r].qty
  OBVIOUS
<1>4. m \in Listings /\ q \in Nat
  BY <1>2, <1>3 DEF TypeOK, Reservation
<1>5. resv' = [resv EXCEPT ![r].status = to]
  BY <1>1 DEF CommitSettle, SettleWrite
<1>6. /\ \A s \in Reservations : s # r => resv'[s] = resv[s]
      /\ resv'[r].listing = m /\ resv'[r].qty = q /\ resv'[r].status = to
  BY <1>2, <1>3, <1>5 DEF TypeOK, Reservation
<1>7. to # "reserved"
  BY <1>2 DEF Settled
<1>8. CASE l # m
  <2>1. /\ UnitsHeld(l, "reserved")' = UnitsHeld(l, "reserved")
        /\ UnitsHeld(l, "confirmed")' = UnitsHeld(l, "confirmed")
    BY <1>3, <1>6, <1>8, UnitsElsewhere
  <2>2. item'[l] = item[l]
    BY <1>1, <1>3, <1>8, SettleMovesQty
  <2>3. QED
    BY <2>1, <2>2, CountsKept
<1>9. CASE l = m
  <2>0. resv[r].status = "reserved"
    BY <1>1, <1>3, <1>9
  <2>1. PICK c, d : c = item[l] /\ d = item'[l]
    OBVIOUS
  <2>2. c \in Counters /\ d = IF to = "confirmed" THEN Confirmed(c, q) ELSE Returned(c, q)
    BY <1>1, <1>3, <1>9, <2>1, SettleMovesQty DEF TypeOK
  <2>3. d.reserved = c.reserved - q /\ d.sold = IF to = "confirmed" THEN c.sold + q ELSE c.sold
    BY <1>4, <2>2, SettledCounters
  <2>4. /\ UnitsHeld(l, "reserved") = UnitsHeld(l, "reserved")' \union ({r} \X (1..q))
        /\ \A i : <<r, i>> \notin UnitsHeld(l, "reserved")'
    BY <1>2, <1>3, <1>6, <1>7, <1>9, <2>0, UnitsLeave
  <2>5. PICK U, V : U = UnitsHeld(l, "reserved") /\ V = UnitsHeld(l, "reserved")'
    OBVIOUS
  <2>6. IsFiniteSet(V) /\ Cardinality(V) = Cardinality(U) - q
    <3>1. U = V \union ({r} \X (1..q)) /\ \A i : <<r, i>> \notin V
      BY <2>4, <2>5
    <3>2. IsFiniteSet(U)
      BY <2>5 DEF Counts
    <3>3. QED
      BY <1>4, <3>1, <3>2, UnitsTaken
  <2>7. IsFiniteSet(UnitsHeld(l, "reserved")')
        /\ d.reserved = Cardinality(UnitsHeld(l, "reserved")')
    BY <2>1, <2>3, <2>5, <2>6 DEF Counts
  <2>8. /\ IsFiniteSet(UnitsHeld(l, "confirmed")')
        /\ d.sold = Cardinality(UnitsHeld(l, "confirmed")')
    <3>1. CASE to = "confirmed"
      <4>1. /\ UnitsHeld(l, "confirmed")' = UnitsHeld(l, "confirmed") \union ({r} \X (1..q))
            /\ \A i : <<r, i>> \notin UnitsHeld(l, "confirmed")
        BY <1>2, <1>6, <1>9, <2>0, <3>1, UnitsArrive
      <4>2. PICK S : S = UnitsHeld(l, "confirmed")
        OBVIOUS
      <4>3. /\ IsFiniteSet(S \union ({r} \X (1..q)))
            /\ Cardinality(S \union ({r} \X (1..q))) = Cardinality(S) + q
        BY <1>4, <4>1, <4>2, UnitsAdded DEF Counts
      <4>4. QED
        BY <2>1, <2>3, <3>1, <4>1, <4>2, <4>3 DEF Counts
    <3>2. CASE to # "confirmed"
      <4>1. UnitsHeld(l, "confirmed")' = UnitsHeld(l, "confirmed")
        BY <2>0, <1>6, <3>2, UnitsElsewhere
      <4>2. QED
        BY <2>1, <2>3, <3>2, <4>1 DEF Counts
    <3>3. QED
      BY <3>1, <3>2
  <2>9. QED
    BY <2>1, <2>7, <2>8 DEF Counts
<1>10. QED
  BY <1>8, <1>9

\* No other step moves the units of a reservation.
LEMMA CountsKeptByOthers ==
    ASSUME TypeOK, NEW l \in Listings, Counts(l), [Next]_vars,
           ~ \E w \in Customers, r \in Reservations, m \in Listings, q \in 1..MaxQty :
                ReserveStock(w, r, m, q),
           ~ \E w \in Settlers : CommitSettle(w)
    PROVE  Counts(l)'
<1>1. ASSUME \A s \in Reservations :
                /\ resv'[s].listing = resv[s].listing /\ resv'[s].qty = resv[s].qty
                /\ resv'[s].status = resv[s].status,
             item'[l].reserved = item[l].reserved, item'[l].sold = item[l].sold
      PROVE  Counts(l)'
  <2>1. \A status \in {"reserved", "confirmed"} :
            UnitsHeld(l, status)' = UnitsHeld(l, status)
    BY <1>1 DEF UnitsHeld, UnitsOf, HeldOn
  <2>2. QED
    BY <1>1, <2>1, CountsKept
<1>2. ASSUME NEW w \in Admins, NEW m \in Listings, NEW q \in 1..MaxQty, AddStock(w, m, q)
      PROVE  Counts(l)'
  BY <1>1, <1>2 DEF AddStock, TypeOK, Counters
<1>3. ASSUME NEW w \in Admins, CommitAdjust(w) PROVE Counts(l)'
  BY <1>1, <1>3 DEF CommitAdjust, TypeOK, Counters
<1>4. ASSUME NEW r \in Reservations, TtlPasses(r) PROVE Counts(l)'
  BY <1>1, <1>4 DEF TtlPasses, TypeOK, Reservation
<1>5. CASE UNCHANGED <<item, resv>>
  BY <1>1, <1>5
<1>6. QED
  BY <1>2, <1>3, <1>4, <1>5 DEF Next, BeginSettle, BeginAdjust, Rollback, vars

LEMMA CountsInit == ASSUME Init, NEW l \in Listings PROVE Counts(l)
<1>1. /\ item[l].reserved = 0 /\ item[l].sold = 0
  BY DEF Init
<1>2. \A r \in Reservations : resv[r].status = "absent"
  BY DEF Init
<1>3. UnitsHeld(l, "reserved") = {} /\ UnitsHeld(l, "confirmed") = {}
  BY <1>2 DEF UnitsHeld, UnitsOf, HeldOn
<1>4. QED
  BY <1>1, <1>3, FS_EmptySet DEF Counts

(***************************************************************************)
(* A reservation is settled once                                           *)
(***************************************************************************)

\* As long as a reservation was not settled, every call that is settling it has read
\* what it still is.  Once it was, the calls that are left began before, and so they
\* overlapped with the one that settled it; no call begins any more.
SettledBy(r) ==
    /\ settlements[r] \in Nat
    /\ settlements[r] = 0 => resv[r].status \in {"absent", "reserved"}
    /\ settlements[r] > 0 => resv[r].status \in Settled
    /\ Settling(r) # {} => resv[r].status # "absent"
    /\ \A v, w \in Settling(r) : v # w => r \in overlapped
    /\ settlements[r] > 0 /\ Settling(r) # {} => r \in overlapped
    /\ settlements[r] > 1 => r \in overlapped
    /\ settlements[r] + Cardinality(Settling(r)) <= Cardinality(Settlers)

LEMMA SettlingFinite ==
    ASSUME NEW r
    PROVE  /\ IsFiniteSet(Settling(r)) /\ Cardinality(Settling(r)) \in Nat
           /\ Cardinality(Settling(r)) <= Cardinality(Settlers)
           /\ IsFiniteSet(Settling(r)') /\ Cardinality(Settling(r)') \in Nat
           /\ Cardinality(Settling(r)') <= Cardinality(Settlers)
           /\ Cardinality(Settlers) \in Nat
<1>1. \A S : S \subseteq Settlers => /\ IsFiniteSet(S) /\ Cardinality(S) \in Nat
                                     /\ Cardinality(S) <= Cardinality(Settlers)
  BY SettlersAssumption, FS_Subset, FS_CardinalityType
<1>2. Settling(r) \subseteq Settlers /\ Settling(r)' \subseteq Settlers
  BY DEF Settling
<1>3. QED
  BY <1>1, <1>2, SettlersAssumption, FS_CardinalityType

\* What the account of a reservation records of a step.
LEMMA Recorded ==
    ASSUME AuditTypeOK, Watch, NEW r \in Reservations
    PROVE  /\ settlements'[r] = IF \E w \in Settlers : Commits(w, r)
                                THEN settlements[r] + 1 ELSE settlements[r]
           /\ r \in overlapped => r \in overlapped'
           /\ \A v, w \in Settling(r)' : v # w => r \in overlapped'
  BY DEF Watch, AuditTypeOK

LEMMA SettledByCommit ==
    ASSUME TypeOK, AuditTypeOK, Watch, NEW r \in Reservations, SettledBy(r),
           NEW w \in Settlers, Commits(w, r)
    PROVE  SettledBy(r)'
<1>1. w \in Settling(r) /\ CommitSettle(w) /\ tx[w].r = r /\ tx[w].op \in Settled
  BY DEF Commits, Settling
<1>2. resv'[r].status \in Settled
  BY <1>1 DEF CommitSettle, SettleWrite, TypeOK
<1>3. Settling(r)' = Settling(r) \ {w}
  BY <1>1 DEF CommitSettle, Settling, TypeOK, Actors, NoTx, Settled
<1>4. settlements'[r] = settlements[r] + 1
  BY Recorded
<1>5. PICK S, T, n : S = Settling(r) /\ T = Settling(r)' /\ n = settlements[r]
  OBVIOUS
<1>6. Cardinality(T) = Cardinality(S) - 1
  BY <1>1, <1>3, <1>5, SettlingFinite, FS_RemoveElement
<1>7. n \in Nat /\ n + Cardinality(S) <= Cardinality(Settlers)
  BY <1>5 DEF SettledBy
<1>8. settlements'[r] \in Nat /\ settlements'[r] > 0
  BY <1>4, <1>5, <1>7
<1>9. settlements'[r] + Cardinality(T) <= Cardinality(Settlers)
  BY <1>4, <1>5, <1>6, <1>7, SettlingFinite
<1>10. Settling(r)' # {} => r \in overlapped'
  BY <1>1, <1>3, Recorded DEF SettledBy
<1>11. settlements'[r] > 1 => r \in overlapped'
  BY <1>1, <1>4, <1>5, <1>7, Recorded DEF SettledBy
<1>12. \A v, u \in Settling(r)' : v # u => r \in overlapped'
  BY Recorded
<1>13. resv'[r].status # "absent"
  BY <1>2 DEF Settled
<1>14. (settlements'[r] = 0) = FALSE
  BY <1>8
<1>15. QED
  BY <1>2, <1>5, <1>8, <1>9, <1>10, <1>11, <1>12, <1>13, <1>14 DEF SettledBy

LEMMA SettledByBegin ==
    ASSUME TypeOK, AuditTypeOK, Watch, NEW r \in Reservations, SettledBy(r),
           NEW w \in Settlers, NEW to \in Settled, BeginSettle(w, r, to),
           ~ \E v \in Settlers : Commits(v, r)
    PROVE  SettledBy(r)'
<1>1. resv'[r] = resv[r] /\ resv[r].status = "reserved"
  BY DEF BeginSettle
<1>2. settlements[r] = 0
  BY <1>1 DEF SettledBy, Settled
<1>3. settlements'[r] = 0
  BY <1>2, Recorded
<1>4. Cardinality(Settling(r)') \in Nat /\ Cardinality(Settling(r)') <= Cardinality(Settlers)
  BY SettlingFinite
<1>5. PICK n : n = Cardinality(Settling(r)')
  OBVIOUS
<1>6. settlements'[r] + n <= Cardinality(Settlers)
  BY <1>3, <1>4, <1>5, SettlingFinite
<1>7. QED
  BY <1>1, <1>3, <1>5, <1>6, Recorded DEF SettledBy

\* A call that gives up, and steps about other reservations.
LEMMA SettledByOthers ==
    ASSUME AuditTypeOK, Watch, NEW r \in Reservations, SettledBy(r),
           ~ \E v \in Settlers : Commits(v, r),
           Settling(r)' \subseteq Settling(r),
           \/ resv'[r].status = resv[r].status
           \/ resv[r].status = "absent" /\ resv'[r].status = "reserved"
    PROVE  SettledBy(r)'
<1>1. settlements'[r] = settlements[r]
  BY Recorded
<1>2. Cardinality(Settling(r)') <= Cardinality(Settling(r))
  BY SettlingFinite, FS_Subset
<1>3. PICK S, T, n : S = Cardinality(Settling(r)) /\ T = Cardinality(Settling(r)')
                     /\ n = settlements[r]
  OBVIOUS
<1>4. n + T <= Cardinality(Settlers)
  <2>1. /\ S \in Nat /\ T \in Nat /\ n \in Nat /\ Cardinality(Settlers) \in Nat
        /\ T <= S /\ n + S <= Cardinality(Settlers)
    BY <1>2, <1>3, SettlingFinite DEF SettledBy
  <2>2. QED
    BY <2>1
<1>5. settlements'[r] \in Nat /\ settlements'[r] + T <= Cardinality(Settlers)
  BY <1>1, <1>3, <1>4 DEF SettledBy
<1>6. settlements'[r] = 0 => resv'[r].status \in {"absent", "reserved"}
  BY <1>1 DEF SettledBy
<1>7. settlements'[r] > 0 => resv'[r].status \in Settled
  BY <1>1 DEF SettledBy, Settled
<1>8. Settling(r)' # {} => resv'[r].status # "absent"
  BY DEF SettledBy
<1>9. settlements'[r] > 0 /\ Settling(r)' # {} => r \in overlapped'
  BY <1>1, Recorded DEF SettledBy
<1>10. settlements'[r] > 1 => r \in overlapped'
  BY <1>1, Recorded DEF SettledBy
<1>11. \A v, w \in Settling(r)' : v # w => r \in overlapped'
  BY Recorded
<1>12. QED
  BY <1>3, <1>5, <1>6, <1>7, <1>8, <1>9, <1>10, <1>11 DEF SettledBy

LEMMA SettledByStep ==
    ASSUME TypeOK, AuditTypeOK, Next, Watch, NEW r \in Reservations, SettledBy(r)
    PROVE  SettledBy(r)'
<1>1. CASE \E w \in Settlers : Commits(w, r)
  BY <1>1, SettledByCommit
<1>2. CASE ~ \E w \in Settlers : Commits(w, r)
  <2>0. DOMAIN tx = Actors /\ Settlers \subseteq Actors
    BY DEF TypeOK, Actors
  <2>1. ASSUME NEW w \in Customers, NEW s \in Reservations, NEW m \in Listings,
               NEW q \in 1..MaxQty, ReserveStock(w, s, m, q)
        PROVE  SettledBy(r)'
    <3>1. Settling(r)' = Settling(r)
      BY <2>1 DEF ReserveStock, Settling
    <3>2. \/ resv'[r].status = resv[r].status
          \/ resv[r].status = "absent" /\ resv'[r].status = "reserved"
      BY <2>1 DEF ReserveStock, TypeOK
    <3>3. QED
      BY <1>2, <3>1, <3>2, SettledByOthers
  <2>2. ASSUME NEW w \in Settlers, NEW s \in Reservations, NEW to \in Settled,
               BeginSettle(w, s, to)
        PROVE  SettledBy(r)'
    <3>1. CASE s = r
      BY <1>2, <2>2, <3>1, SettledByBegin
    <3>2. CASE s # r
      <4>1. Settling(r)' \subseteq Settling(r)
        BY <2>0, <2>2, <3>2 DEF BeginSettle, Settling
      <4>2. QED
        BY <1>2, <2>2, <4>1, SettledByOthers DEF BeginSettle
    <3>3. QED
      BY <3>1, <3>2
  <2>3. ASSUME NEW w \in Settlers, CommitSettle(w) PROVE SettledBy(r)'
    <3>1. tx[w].r # r
      BY <1>2, <2>3 DEF Commits, CommitSettle, Settling
    <3>2. Settling(r)' \subseteq Settling(r)
      BY <2>0, <2>3 DEF CommitSettle, Settling, NoTx, Settled
    <3>3. resv'[r] = resv[r]
      BY <2>3, <3>1 DEF CommitSettle, SettleWrite, TypeOK
    <3>4. QED
      BY <1>2, <3>2, <3>3, SettledByOthers
  <2>4. ASSUME NEW w \in Admins, NEW m \in Listings, NEW n \in 0..MaxTotal,
               BeginAdjust(w, m, n)
        PROVE  SettledBy(r)'
    <3>1. Settling(r)' \subseteq Settling(r)
      BY <2>0, <2>4 DEF BeginAdjust, Settling, Settled
    <3>2. QED
      BY <1>2, <2>4, <3>1, SettledByOthers DEF BeginAdjust
  <2>5. ASSUME NEW w \in Actors, CommitAdjust(w) \/ Rollback(w) PROVE SettledBy(r)'
    <3>1. Settling(r)' \subseteq Settling(r)
      BY <2>0, <2>5 DEF CommitAdjust, Rollback, Settling, NoTx, Settled
    <3>2. QED
      BY <1>2, <2>5, <3>1, SettledByOthers DEF CommitAdjust, Rollback
  <2>6. ASSUME NEW s \in Reservations, TtlPasses(s) PROVE SettledBy(r)'
    <3>1. Settling(r)' = Settling(r)
      BY <2>6 DEF TtlPasses, Settling
    <3>2. resv'[r].status = resv[r].status
      BY <2>6 DEF TtlPasses, TypeOK, Reservation
    <3>3. QED
      BY <1>2, <3>1, <3>2, SettledByOthers
  <2>7. CASE UNCHANGED <<resv, tx>>
    BY <1>2, <2>7, SettledByOthers DEF Settling
  <2>8. QED
    BY <2>1, <2>2, <2>3, <2>4, <2>5, <2>6, <2>7 DEF Next, AddStock, Actors
<1>3. QED
  BY <1>1, <1>2

(***************************************************************************)
(* No more is promised than is there                                       *)
(***************************************************************************)

\* An open adjustment still leaves the stock it has checked, unless some was taken.
StockLeft(l) ==
    l \notin undercut =>
        /\ item[l].available >= 0
        /\ \A w \in Adjusting(l) : item[l].available + tx[w].diff >= 0

LEMMA StockLeftInit == ASSUME Init, NEW l \in Listings PROVE StockLeft(l)
<1>1. PICK n \in 0..MaxTotal :
          item[l] = [total |-> n, available |-> n, reserved |-> 0, sold |-> 0]
  BY DEF Init
<1>2. item[l].available >= 0
  BY <1>1, BoundsAssumption
<1>3. Adjusting(l) = {}
  BY DEF Init, Adjusting, NoTx, Actors
<1>4. QED
  BY <1>2, <1>3 DEF StockLeft

\* A step that begins no adjustment, takes nothing an open one counts on and leaves
\* no less than nothing.
LEMMA StockLeftKept ==
    ASSUME TypeOK, AuditTypeOK, Watch, NEW l \in Listings, StockLeft(l),
           \A w \in Adjusting(l)' : w \in Adjusting(l) /\ tx'[w] = tx[w],
           item'[l].available \in Int,
           l \notin undercut /\ item[l].available >= 0 => item'[l].available >= 0
    PROVE  StockLeft(l)'
<1> SUFFICES ASSUME l \notin undercut' PROVE item'[l].available >= 0
                 /\ \A w \in Adjusting(l)' : item'[l].available + tx'[w].diff >= 0
  BY DEF StockLeft
<1>1. l \notin undercut /\ (item'[l].available < item[l].available => Adjusting(l)' = {})
  BY DEF Watch
<1>2. item[l].available \in Int
  BY DEF TypeOK, Counters
<1>3. ASSUME NEW w \in Adjusting(l)' PROVE item'[l].available + tx'[w].diff >= 0
  <2>1. w \in Adjusting(l) /\ tx'[w] = tx[w]
    BY <1>3
  <2>2. tx[w].diff \in Int
    BY <2>1 DEF Adjusting, TypeOK, Actors, Tx, NoTx, SettleTx, AdjustTx, Settled
  <2>3. item[l].available + tx[w].diff >= 0
    BY <1>1, <2>1 DEF StockLeft
  <2>4. item'[l].available >= item[l].available
    BY <1>1, <1>2, <1>3
  <2>5. QED
    BY <1>2, <2>1, <2>2, <2>3, <2>4
<1>4. QED
  BY <1>1, <1>3 DEF StockLeft

LEMMA StockLeftStep ==
    ASSUME TypeOK, AuditTypeOK, Next, Watch, NEW l \in Listings, StockLeft(l)
    PROVE  StockLeft(l)'
<1>0. /\ item[l] \in Counters /\ item[l].available \in Int
      /\ DOMAIN tx = Actors /\ Admins \subseteq Actors
  BY DEF TypeOK, Counters, Actors
<1>1. ASSUME NEW w \in Customers, NEW r \in Reservations, NEW m \in Listings,
             NEW q \in 1..MaxQty, ReserveStock(w, r, m, q)
      PROVE  StockLeft(l)'
  <2>1. q \in Int /\ item[m].available >= q /\ item[m].available \in Int
    BY <1>1, BoundsAssumption DEF ReserveStock, TypeOK, Counters
  <2>2. /\ item'[l].available \in Int
        /\ item[l].available >= 0 => item'[l].available >= 0
    BY <1>0, <1>1, <2>1 DEF ReserveStock, TypeOK, Counters
  <2>3. \A v \in Adjusting(l)' : v \in Adjusting(l) /\ tx'[v] = tx[v]
    BY <1>1 DEF ReserveStock, Adjusting
  <2>4. QED
    BY <2>2, <2>3, StockLeftKept
<1>2. ASSUME NEW w \in Settlers, CommitSettle(w) PROVE StockLeft(l)'
  <2>1. item'[l].available \in Int /\ item'[l].available >= item[l].available
    <3>1. PICK c, d, q : c = item[l] /\ d = item'[l] /\ q = resv[tx[w].r].qty
      OBVIOUS
    <3>2. c \in Counters /\ q \in Nat /\ (d = c \/ d = Confirmed(c, q) \/ d = Returned(c, q))
      BY <1>0, <1>2, <3>1, SettleMovesQty
    <3>3. d.available = c.available \/ d.available = c.available + q
      BY <3>2, SettledCounters
    <3>4. QED
      BY <1>0, <3>1, <3>2, <3>3
  <2>2. \A v \in Adjusting(l)' : v \in Adjusting(l) /\ tx'[v] = tx[v]
    BY <1>0, <1>2 DEF CommitSettle, Adjusting, NoTx
  <2>3. item[l].available >= 0 => item'[l].available >= 0
    BY <1>0, <2>1
  <2>4. QED
    BY <2>1, <2>2, <2>3, StockLeftKept
<1>3. ASSUME NEW w \in Admins, NEW m \in Listings, NEW q \in 1..MaxQty, AddStock(w, m, q)
      PROVE  StockLeft(l)'
  <2>1. q \in Nat
    BY BoundsAssumption
  <2>2. item'[l].available >= item[l].available /\ item'[l].available \in Int
    BY <1>0, <1>3, <2>1 DEF AddStock, TypeOK, Counters
  <2>3. \A v \in Adjusting(l)' : v \in Adjusting(l) /\ tx'[v] = tx[v]
    BY <1>3 DEF AddStock, Adjusting
  <2>4. item[l].available >= 0 => item'[l].available >= 0
    BY <1>0, <2>2
  <2>5. QED
    BY <2>2, <2>3, <2>4, StockLeftKept
<1>4. ASSUME NEW w \in Admins, NEW m \in Listings, NEW n \in 0..MaxTotal, BeginAdjust(w, m, n)
      PROVE  StockLeft(l)'
  <2>1. /\ item' = item
        /\ tx' = [tx EXCEPT ![w] = [op |-> "adjust", l |-> m, newTotal |-> n,
                                    diff |-> n - item[m].total]]
        /\ item[m].available + (n - item[m].total) >= 0
    BY <1>4 DEF BeginAdjust
  <2>2. l \notin undercut' => l \notin undercut
    BY DEF Watch
  <2>3. ASSUME NEW v \in Adjusting(l)', l \notin undercut
        PROVE  item'[l].available + tx'[v].diff >= 0
    <3>1. CASE v = w
      BY <1>0, <2>1, <2>3, <3>1 DEF Adjusting
    <3>2. CASE v # w
      <4>1. tx'[v] = tx[v] /\ v \in Adjusting(l)
        BY <1>0, <2>1, <2>3, <3>2 DEF Adjusting
      <4>2. QED
        BY <2>1, <2>3, <4>1 DEF StockLeft
    <3>3. QED
      BY <3>1, <3>2
  <2>4. QED
    BY <2>1, <2>2, <2>3 DEF StockLeft
<1>5. ASSUME NEW w \in Admins, CommitAdjust(w) PROVE StockLeft(l)'
  <2>1. tx[w] \in AdjustTx
    BY <1>0, <1>5 DEF CommitAdjust, TypeOK, Tx, NoTx, SettleTx, AdjustTx, Settled
  <2>2. item'[l].available = IF l = tx[w].l THEN item[l].available + tx[w].diff
                                            ELSE item[l].available
    BY <1>0, <1>5, <2>1 DEF CommitAdjust, AdjustTx, TypeOK, Counters
  <2>3. l = tx[w].l => w \in Adjusting(l)
    BY <1>5 DEF CommitAdjust, Adjusting
  <2>4. item'[l].available \in Int
    BY <1>0, <2>1, <2>2 DEF AdjustTx
  <2>5. l \notin undercut => item'[l].available >= 0
    BY <2>2, <2>3 DEF StockLeft
  <2>6. \A v \in Adjusting(l)' : v \in Adjusting(l) /\ tx'[v] = tx[v]
    BY <1>0, <1>5 DEF CommitAdjust, Adjusting, NoTx
  <2>7. QED
    BY <2>4, <2>5, <2>6, StockLeftKept
<1>6. ASSUME NEW w \in Settlers, NEW r \in Reservations, NEW to \in Settled,
             BeginSettle(w, r, to)
      PROVE  StockLeft(l)'
  <2>1. \A v \in Adjusting(l)' : v \in Adjusting(l) /\ tx'[v] = tx[v]
    BY <1>0, <1>6 DEF BeginSettle, Adjusting, Settled
  <2>2. QED
    BY <1>0, <1>6, <2>1, StockLeftKept DEF BeginSettle
<1>7. ASSUME NEW w \in Actors, Rollback(w) PROVE StockLeft(l)'
  <2>1. \A v \in Adjusting(l)' : v \in Adjusting(l) /\ tx'[v] = tx[v]
    BY <1>0, <1>7 DEF Rollback, Adjusting, NoTx
  <2>2. QED
    BY <1>0, <1>7, <2>1, StockLeftKept DEF Rollback
<1>8. ASSUME NEW r \in Reservations, TtlPasses(r) PROVE StockLeft(l)'
  <2>1. \A v \in Adjusting(l)' : v \in Adjusting(l) /\ tx'[v] = tx[v]
    BY <1>8 DEF TtlPasses, Adjusting
  <2>2. QED
    BY <1>0, <1>8, <2>1, StockLeftKept DEF TtlPasses
<1>9. QED
  BY <1>1, <1>2, <1>3, <1>4, <1>5, <1>6, <1>7, <1>8 DEF Next

(***************************************************************************)
(* The theorems                                                            *)
(***************************************************************************)

\* No reservation of the listing was settled twice.
SettledOnceOn(l) == \A r \in Reservations : resv[r].listing = l => settlements[r] <= 1

AuditInv ==
    /\ AuditTypeOK
    /\ \A r \in Reservations : SettledBy(r)
    /\ \A l \in Listings : SettledOnceOn(l) => Counts(l)
    /\ \A l \in Listings : StockLeft(l)

LEMMA AuditStarts == AuditInit => AuditInv
<1> SUFFICES ASSUME AuditInit PROVE AuditInv
  OBVIOUS
<1>0. Init
  BY DEF AuditInit
<1>1. AuditTypeOK
  BY DEF AuditInit, AuditTypeOK
<1>2. ASSUME NEW r \in Reservations PROVE SettledBy(r)
  <2>1. Settling(r) = {}
    BY <1>0 DEF Init, Settling, NoTx, Settled, Actors
  <2>2. settlements[r] = 0 /\ resv[r].status = "absent"
    BY <1>0 DEF Init, AuditInit
  <2>3. Cardinality(Settling(r)) = 0 /\ Cardinality(Settlers) \in Nat
    BY <2>1, FS_EmptySet, SettlingFinite
  <2>4. QED
    BY <2>1, <2>2, <2>3 DEF SettledBy
<1>3. QED
  BY <1>0, <1>1, <1>2, CountsInit, StockLeftInit DEF AuditInv

\* The reservations of a listing that are settled at most once after a step were so
\* before it, and one that the step settles is still reserved.
LEMMA OnceBefore ==
    ASSUME TypeOK, AuditInv, Next, Watch, NEW l \in Listings, SettledOnceOn(l)'
    PROVE  /\ SettledOnceOn(l)
           /\ \A w \in Settlers : CommitSettle(w) /\ resv[tx[w].r].listing = l =>
                  resv[tx[w].r].status = "reserved"
<1>0. AuditTypeOK /\ \A r \in Reservations : SettledBy(r)
  BY DEF AuditInv
<1>1. ASSUME NEW r \in Reservations PROVE
          /\ settlements[r] \in Nat /\ settlements'[r] \in Nat
          /\ settlements[r] <= settlements'[r]
  BY <1>0, Recorded DEF SettledBy
<1>2. ASSUME NEW r \in Reservations, resv[r].status # "absent"
      PROVE  resv'[r].listing = resv[r].listing
  <2>1. ASSUME NEW w \in Customers, NEW s \in Reservations, NEW m \in Listings,
               NEW q \in 1..MaxQty, ReserveStock(w, s, m, q)
        PROVE  resv'[r].listing = resv[r].listing
    BY <1>2, <2>1 DEF ReserveStock, TypeOK
  <2>2. ASSUME NEW w \in Settlers, CommitSettle(w) PROVE resv'[r].listing = resv[r].listing
    BY <2>2 DEF CommitSettle, SettleWrite, TypeOK, Reservation
  <2>3. ASSUME NEW s \in Reservations, TtlPasses(s) PROVE resv'[r].listing = resv[r].listing
    BY <2>3 DEF TtlPasses, TypeOK, Reservation
  <2>4. CASE UNCHANGED resv
    BY <2>4
  <2>5. QED
    BY <2>1, <2>2, <2>3, <2>4
       DEF Next, BeginSettle, AddStock, BeginAdjust, CommitAdjust, Rollback
<1>3. ASSUME NEW r \in Reservations, resv[r].listing = l PROVE settlements[r] <= 1
  <2>1. CASE resv[r].status = "absent"
    <3>1. settlements[r] = 0
      BY <1>0, <1>1, <2>1 DEF SettledBy, Settled
    <3>2. QED
      BY <3>1
  <2>2. CASE resv[r].status # "absent"
    <3>1. settlements'[r] <= 1
      BY <1>2, <1>3, <2>2 DEF SettledOnceOn
    <3>2. QED
      BY <1>1, <3>1
  <2>3. QED
    BY <2>1, <2>2
<1>4. ASSUME NEW w \in Settlers, CommitSettle(w), resv[tx[w].r].listing = l
      PROVE  resv[tx[w].r].status = "reserved"
  <2>1. PICK r : r = tx[w].r
    OBVIOUS
  <2>2. r \in Reservations
    BY <1>4, <2>1, SettleMovesQty
  <2>3. w \in Settling(r) /\ Commits(w, r)
    BY <1>4, <2>1 DEF Settling, Commits, CommitSettle
  <2>4. settlements'[r] = settlements[r] + 1
    BY <1>0, <2>2, <2>3, Recorded
  <2>5. resv[r].status # "absent"
    BY <1>0, <2>2, <2>3 DEF SettledBy
  <2>6. settlements'[r] <= 1
    BY <1>2, <1>4, <2>1, <2>2, <2>5 DEF SettledOnceOn
  <2>7. settlements[r] = 0
    BY <1>1, <2>2, <2>4, <2>6
  <2>8. QED
    BY <1>0, <2>1, <2>2, <2>5, <2>7 DEF SettledBy
<1>5. QED
  BY <1>3, <1>4 DEF SettledOnceOn

LEMMA AuditStep == TypeOK /\ AuditInv /\ [Next /\ Watch]_auditVars => AuditInv'
<1> SUFFICES ASSUME TypeOK, AuditInv, [Next /\ Watch]_auditVars PROVE AuditInv'
  OBVIOUS
<1>1. CASE Next /\ Watch
  <2>0. AuditTypeOK /\ (\A r \in Reservations : SettledBy(r)) /\ \A l \in Listings : StockLeft(l)
    BY DEF AuditInv
  <2>1. \A r \in Reservations : SettledBy(r)'
    BY <1>1, <2>0, SettledByStep
  <2>2. AuditTypeOK'
    <3>1. \A r \in Reservations : settlements'[r] \in Nat
      BY <2>1 DEF SettledBy
    <3>2. DOMAIN settlements' = Reservations
          /\ settlements' = [r \in Reservations |-> settlements'[r]]
      BY <1>1 DEF Watch
    <3>3. overlapped' \subseteq Reservations /\ undercut' \subseteq Listings
      BY <1>1, <2>0 DEF Watch, AuditTypeOK
    <3>4. QED
      BY <3>1, <3>2, <3>3 DEF AuditTypeOK
  <2>3. \A l \in Listings : StockLeft(l)'
    BY <1>1, <2>0, StockLeftStep
  <2>4. ASSUME NEW l \in Listings, SettledOnceOn(l)' PROVE Counts(l)'
    <3>1. /\ Counts(l)
          /\ \A w \in Settlers : CommitSettle(w) /\ resv[tx[w].r].listing = l =>
                 resv[tx[w].r].status = "reserved"
      BY <1>1, <2>4, OnceBefore DEF AuditInv
    <3>2. CASE \E w \in Settlers : CommitSettle(w)
      BY <3>1, <3>2, CountsKeptBySettle
    <3>3. CASE \E w \in Customers, r \in Reservations, m \in Listings, q \in 1..MaxQty :
                  ReserveStock(w, r, m, q)
      BY <3>1, <3>3, CountsKeptByReserve
    <3>4. QED
      BY <1>1, <3>1, <3>2, <3>3, CountsKeptByOthers
  <2>5. QED
    BY <2>1, <2>2, <2>3, <2>4 DEF AuditInv
<1>2. CASE UNCHANGED auditVars
  <2>1. /\ item' = item /\ resv' = resv /\ tx' = tx /\ settlements' = settlements
        /\ overlapped' = overlapped /\ undercut' = undercut
    BY <1>2 DEF vars, auditVars
  <2>2. /\ AuditTypeOK' /\ \A r \in Reservations : SettledBy(r)'
    BY <2>1 DEF AuditInv, AuditTypeOK, SettledBy, Settling
  <2>3. ASSUME NEW l \in Listings PROVE StockLeft(l)'
    BY <2>1 DEF AuditInv, StockLeft, Adjusting
  <2>4. ASSUME NEW l \in Listings, SettledOnceOn(l)' PROVE Counts(l)'
    <3>1. Counts(l)
      BY <2>1, <2>4 DEF AuditInv, SettledOnceOn
    <3>2. \A status : UnitsHeld(l, status)' = UnitsHeld(l, status)
      BY <2>1 DEF UnitsHeld, UnitsOf, HeldOn
    <3>3. QED
      BY <2>1, <3>1, <3>2, CountsKept
  <2>5. QED
    BY <2>2, <2>3, <2>4 DEF AuditInv
<1>3. QED
  BY <1>1, <1>2

LEMMA Audited == AuditSpec => []AuditInv
<1>1. [Next /\ Watch]_auditVars => [Next]_vars
  BY DEF auditVars
<1>2. AuditInit => Init
  BY DEF AuditInit
<1>3. QED
  BY <1>1, <1>2, AuditStarts, AuditStep, TypeCorrect, PTL DEF Spec, AuditSpec

\* However confirmations, releases and expiries overlap with each other, with
\* reservations and with administrators: a reservation is settled a second time only by
\* a call that was settling it at the same time as another, and at most once per call in
\* flight (InventoryService.confirmReservation, releaseReservation,
\* expireStaleReservations).
THEOREM ReservationSettled == AuditSpec => []SettledOnce
<1>1. AuditInv => SettledOnce
  BY DEF AuditInv, SettledBy, SettledOnce
<1>2. QED
  BY <1>1, Audited, PTL

\* The counters of a listing are what its reservations hold as long as none of them was
\* settled twice, and no more is promised than is in stock as long as none was taken
\* between the check of an adjustment and its write, whatever else overlaps
\* (InventoryService.reserveStock, adjustStock and the settling methods).
THEOREM StockIsAccounted == AuditSpec => []StockAccounted
<1>1. AuditInv => StockAccounted
  BY DEF AuditInv, SettledOnceOn, Counts, UnitsHeld, QtyOf, StockLeft, StockAccounted
<1>2. QED
  BY <1>1, Audited, PTL
==============================================================================
