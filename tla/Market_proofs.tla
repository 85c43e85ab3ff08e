---------------------------- MODULE Market_proofs ----------------------------
(***************************************************************************)
(* What TLAPS proves of checkouts, listings and the cart, for any number   *)
(* of listings, of lines per order and of requests in flight.              *)
(*                                                                         *)
(*   DeadlockNeedsSettlement   Spec => []CyclesNeedSettlement              *)
(*   RightAnswers              Spec => []AnswersMatchCart                  *)
(*   RemovalHolds              Spec => RemovedIsFinal                      *)
(*   CartKept                  Spec => CartNeverShrinks                    *)
(*                                                                         *)
(* Cycles: every row a checkout holds comes before every row it still has  *)
(* to lock, so whoever waits for it is waited for by nobody who waits for  *)
(* a later one, and there is a last listing; the settlement of one line    *)
(* holds nothing while it waits.                                           *)
(***************************************************************************)
EXTENDS Market, WellFoundedInduction, TLAPS

LockPcs == {"reserve", "settle"}

\* r: what a request has read, under the orders placed.
ReadOK(r) ==
    /\ "pc" \in DOMAIN r
    /\ r.pc \in {"checked", "reserve"} => r.lines \in ItemLists
    /\ r.pc \in LockPcs => "todo" \in DOMAIN r /\ r.todo \subseteq Listings
    /\ r.pc = "settle" =>
          /\ r.k \in Keys /\ order[r.k] # NoOrder
          /\ r.to \in Outcomes /\ r.todo \subseteq order[r.k].items
    /\ r.pc = "answered" /\ ~r.raced =>
          r.k \in Keys /\ order[r.k] # NoOrder /\ order[r.k].items = r.items

CallsOK == DOMAIN req = Clients /\ \A c \in Clients : ReadOK(req[c])

LocksOK ==
    /\ DOMAIN lock = Listings
    /\ \A c \in Clients, l \in Listings : lock[l] = c =>
          /\ req[c].pc \in LockPcs
          /\ req[c].pc = "reserve" => \A k \in req[c].todo : l < k
          /\ req[c].pc = "settle" => l \in order[req[c].k].items /\ l \notin req[c].todo

OrdersOK ==
    /\ DOMAIN order = Keys
    /\ \A k \in Keys : DOMAIN order[k] = {"items", "status"} /\ order[k].items \subseteq Listings

MarketInv == CallsOK /\ LocksOK /\ OrdersOK

LEMMA PayloadListings ==
    ASSUME MarketAssumption, NEW lines \in ItemLists PROVE Payload(lines) \subseteq Listings
BY DEF MarketAssumption, Payload, ToSet

(***************************************************************************)
(* The kinds of steps                                                      *)
(***************************************************************************)
LEMMA OtherReads ==
    ASSUME NEW r, ReadOK(r), order' = order PROVE ReadOK(r)'
BY DEF ReadOK

\* A request that holds no rows goes on.
LEMMA CallGoesOn ==
    ASSUME MarketInv, NEW c \in Clients, NEW x, req' = [req EXCEPT ![c] = x], ReadOK(x),
           req[c].pc \notin LockPcs, lock' = lock, order' = order
    PROVE  MarketInv'
<1>1. DOMAIN req' = Clients /\ \A d \in Clients : req'[d] = IF d = c THEN x ELSE req[d]
  BY DEF MarketInv, CallsOK
<1>2. CallsOK'
  BY <1>1 DEF MarketInv, CallsOK, ReadOK
<1>3. LocksOK'
  BY <1>1 DEF MarketInv, LocksOK
<1> QED
  BY <1>2, <1>3 DEF MarketInv, OrdersOK

\* A transaction ends.
LEMMA RowsReleased ==
    ASSUME MarketInv, MarketAssumption, NEW c \in Clients, NEW x, req' = [req EXCEPT ![c] = x],
           ReadOK(x)', x.pc \notin LockPcs, ReleaseLocks(c), OrdersOK',
           \A k \in Keys : order[k] # NoOrder => order'[k] # NoOrder /\ order'[k].items = order[k].items
    PROVE  MarketInv'
<1>1. DOMAIN req' = Clients /\ \A d \in Clients : req'[d] = IF d = c THEN x ELSE req[d]
  BY DEF MarketInv, CallsOK
<1>2. ASSUME NEW d \in Clients PROVE ReadOK(req[d])'
  <2>1. CASE d = c
    BY <1>1, <2>1 DEF ReadOK
  <2>2. CASE d # c
    <3>1. req'[d] = req[d] /\ ReadOK(req[d])
      BY <1>1, <2>2 DEF MarketInv, CallsOK
    <3>2. req[d].pc = "answered" /\ ~req[d].raced =>
             order'[req[d].k] # NoOrder /\ order'[req[d].k].items = req[d].items
      BY <3>1 DEF ReadOK
    <3>3. req[d].pc = "settle" =>
             order'[req[d].k] # NoOrder /\ order'[req[d].k].items = order[req[d].k].items
      BY <3>1 DEF ReadOK
    <3> QED
      BY <3>1, <3>2, <3>3 DEF ReadOK
  <2> QED
    BY <2>1, <2>2
<1>3. CallsOK'
  BY <1>1, <1>2 DEF CallsOK
<1>4. DOMAIN lock' = Listings /\ \A l \in Listings : lock'[l] = IF lock[l] = c THEN None ELSE lock[l]
  BY DEF ReleaseLocks
<1>5. ASSUME NEW d \in Clients, NEW l \in Listings, lock'[l] = d
      PROVE  /\ req'[d].pc \in LockPcs
             /\ req'[d].pc = "reserve" => \A k \in req'[d].todo : l < k
             /\ req'[d].pc = "settle" => l \in order'[req'[d].k].items /\ l \notin req'[d].todo
  <2>1. lock[l] = d /\ d # c /\ req'[d] = req[d] /\ ReadOK(req[d])
    BY <1>1, <1>4, <1>5 DEF MarketInv, CallsOK, MarketAssumption
  <2>2. req[d].pc = "settle" => order'[req[d].k].items = order[req[d].k].items
    BY <2>1 DEF ReadOK
  <2> QED
    BY <2>1, <2>2 DEF MarketInv, LocksOK
<1>6. LocksOK'
  BY <1>4, <1>5 DEF LocksOK
<1> QED
  BY <1>3, <1>6 DEF MarketInv

\* A checkout has locked the rows before the next one.
LEMMA RowLocked ==
    ASSUME MarketInv, MarketAssumption, NEW c \in Clients, NEW l \in Listings,
           \/ req[c].pc = "reserve" /\ NextLine(l, req[c].todo)
           \/ req[c].pc = "settle" /\ l \in req[c].todo,
           TakeLock(c, l)
    PROVE  MarketInv'
<1>1. PICK x : x = [req[c] EXCEPT !.todo = @ \ {l}]
  OBVIOUS
<1>2. /\ lock[l] = None /\ lock' = [lock EXCEPT ![l] = c]
      /\ req' = [req EXCEPT ![c] = x] /\ order' = order
  BY <1>1 DEF TakeLock, Goto
<1>3. ReadOK(req[c]) /\ "todo" \in DOMAIN req[c] /\ req[c].todo \subseteq Listings
  BY DEF MarketInv, CallsOK, ReadOK, LockPcs
<1>4. /\ DOMAIN x = DOMAIN req[c] /\ x.todo = req[c].todo \ {l}
      /\ x.pc = req[c].pc /\ x.lines = req[c].lines /\ x.k = req[c].k /\ x.to = req[c].to
  BY <1>1, <1>3
<1>5. DOMAIN req' = Clients /\ \A d \in Clients : req'[d] = IF d = c THEN x ELSE req[d]
  BY <1>2 DEF MarketInv, CallsOK
<1>6. ReadOK(x)
  BY <1>3, <1>4 DEF ReadOK, LockPcs
<1>7. CallsOK'
  BY <1>2, <1>5, <1>6 DEF MarketInv, CallsOK, ReadOK
<1>8. DOMAIN lock' = Listings /\ \A m \in Listings : lock'[m] = IF m = l THEN c ELSE lock[m]
  BY <1>2 DEF MarketInv, LocksOK
<1>9. x.pc = "reserve" => \A k \in x.todo : l < k
  <2>1. x.pc = "reserve" => \A k \in x.todo : k \in Int /\ l \in Int /\ l <= k /\ k # l
    BY <1>3, <1>4 DEF NextLine, MarketAssumption
  <2> QED
    BY <2>1
<1>10. ASSUME NEW d \in Clients, NEW m \in Listings, lock'[m] = d
       PROVE  /\ req'[d].pc \in LockPcs
              /\ req'[d].pc = "reserve" => \A k \in req'[d].todo : m < k
              /\ req'[d].pc = "settle" => m \in order'[req'[d].k].items /\ m \notin req'[d].todo
  <2>1. CASE m = l
    <3>1. d = c /\ req'[d] = x
      BY <1>5, <1>8, <1>10, <2>1
    <3>2. x.pc = "settle" => l \in order[x.k].items /\ l \notin x.todo
      BY <1>3, <1>4 DEF ReadOK
    <3> QED
      BY <1>2, <1>4, <1>9, <2>1, <3>1, <3>2 DEF LockPcs
  <2>2. CASE m # l
    <3>1. lock[m] = d
      BY <1>8, <1>10, <2>2
    <3>2. CASE d = c
      BY <1>2, <1>4, <1>5, <3>1, <3>2 DEF MarketInv, LocksOK
    <3>3. CASE d # c
      BY <1>2, <1>5, <3>1, <3>3 DEF MarketInv, LocksOK
    <3> QED
      BY <3>2, <3>3
  <2> QED
    BY <2>1, <2>2
<1>11. LocksOK'
  BY <1>8, <1>10 DEF LocksOK
<1> QED
  BY <1>2, <1>7, <1>11 DEF MarketInv, OrdersOK

(***************************************************************************)
(* There is a last listing among any                                       *)
(***************************************************************************)
Before == {p \in Nat \X Nat : p[1] < p[2]}

LEMMA LastOf ==
    ASSUME MarketAssumption, NEW H, H \subseteq Listings, H # {}
    PROVE  \E l \in H : \A k \in H : k <= l
<1>1. PICK last \in Listings : \A l \in Listings : l <= last
  BY DEF MarketAssumption
<1>2. Listings \subseteq Int
  BY DEF MarketAssumption
<1>3. IsWellFoundedOn(Before, Nat)
  BY NatLessThanWellFounded DEF OpToRel, Before
<1> DEFINE T == {n \in Nat : last - n \in H}
<1>4. T \subseteq Nat
  OBVIOUS
<1>5. T # {}
  <2>1. PICK h \in H : TRUE
    OBVIOUS
  <2>2. last - h \in Nat /\ last - (last - h) = h
    BY <1>1, <1>2
  <2> QED
    BY <2>1, <2>2
<1> HIDE DEF T
<1>6. PICK n \in T : \A m \in T : ~(<<m, n>> \in Before)
  BY <1>3, <1>4, <1>5, WFMin
<1>7. n \in Nat /\ last - n \in H
  BY <1>6 DEF T
<1>8. ASSUME NEW k \in H PROVE k <= last - n
  <2>1. last - k \in Nat /\ last - (last - k) = k /\ k \in Int /\ last \in Int
    BY <1>1, <1>2
  <2>2. last - k \in T
    BY <2>1 DEF T
  <2>3. ~(last - k < n)
    BY <1>6, <1>7, <2>1, <2>2 DEF Before
  <2> QED
    BY <1>7, <2>1, <2>3
<1> QED
  BY <1>7, <1>8

(***************************************************************************)
(* Checkouts                                                               *)
(***************************************************************************)
LEMMA IdleOK == Idle.pc \notin LockPcs /\ ReadOK(Idle) /\ ReadOK(Idle)'
BY DEF Idle, LockPcs, ReadOK

LEMMA CheckoutReads ==
    ASSUME MarketInv, NEW c \in Clients, NEW k \in Keys, NEW lines \in ItemLists,
           FindByKey(c, k, lines) \/ BeginCheckout(c, k, lines)
    PROVE  MarketInv'
<1>1. req[c].pc \notin LockPcs /\ lock' = lock /\ order' = order
  BY IdleOK DEF FindByKey, BeginCheckout, Free
<1>2. CASE FindByKey(c, k, lines)
  <2>1. PICK x : x = [pc |-> "answered", k |-> k, items |-> Payload(lines), raced |-> FALSE]
    OBVIOUS
  <2>2. req' = [req EXCEPT ![c] = x] /\ order[k] # NoOrder /\ order[k].items = Payload(lines)
    BY <1>2, <2>1 DEF FindByKey, Answer, SamePayload, Goto
  <2>3. ReadOK(x)
    BY <2>1, <2>2 DEF ReadOK, LockPcs
  <2> QED
    BY <1>1, <2>2, <2>3, CallGoesOn
<1>3. CASE BeginCheckout(c, k, lines)
  <2>1. PICK x : x = [pc |-> "checked", k |-> k, lines |-> lines]
    OBVIOUS
  <2>2. req' = [req EXCEPT ![c] = x]
    BY <1>3, <2>1 DEF BeginCheckout, Goto
  <2>3. ReadOK(x)
    BY <2>1 DEF ReadOK, LockPcs
  <2> QED
    BY <1>1, <2>2, <2>3, CallGoesOn
<1> QED
  BY <1>2, <1>3

LEMMA SnapshotKeeps ==
    ASSUME MarketInv, MarketAssumption, NEW c \in Clients, SnapshotListings(c)
    PROVE  MarketInv'
<1>1. req[c].pc = "checked" /\ lock' = lock /\ order' = order
  BY DEF SnapshotListings, At
<1>2. req[c].lines \in ItemLists
  BY <1>1 DEF MarketInv, CallsOK, ReadOK
<1>3. PICK todo : todo = Payload(req[c].lines)
  OBVIOUS
<1>4. PICK x : x = [pc |-> "reserve", k |-> req[c].k, lines |-> req[c].lines, todo |-> todo]
  OBVIOUS
<1>5. req' = [req EXCEPT ![c] = x]
  BY <1>3, <1>4 DEF SnapshotListings, Goto
<1>6. ReadOK(x)
  BY <1>2, <1>3, <1>4, PayloadListings DEF ReadOK
<1> QED
  BY <1>1, <1>5, <1>6, CallGoesOn DEF LockPcs

LEMMA PlaceOrderKeeps ==
    ASSUME MarketInv, MarketAssumption, NEW c \in Clients, PlaceOrder(c)
    PROVE  MarketInv'
<1>1. PICK items : items = Payload(req[c].lines)
  OBVIOUS
<1>2. PICK row : row = [items |-> items, status |-> "created"]
  OBVIOUS
<1>3. /\ req[c].pc = "reserve" /\ order[req[c].k] = NoOrder
      /\ order' = [order EXCEPT ![req[c].k] = row]
      /\ ReleaseLocks(c) /\ req' = [req EXCEPT ![c] = Idle]
  BY <1>1, <1>2 DEF PlaceOrder, At, Finish, Goto
<1>4. items \subseteq Listings
  BY <1>1, <1>3, PayloadListings DEF MarketInv, CallsOK, ReadOK
<1>5. DOMAIN order' = Keys /\ \A k \in Keys : order'[k] = IF k = req[c].k THEN row ELSE order[k]
  BY <1>3 DEF MarketInv, OrdersOK
<1>6. DOMAIN row = {"items", "status"} /\ row.items = items
  BY <1>2
<1>7. OrdersOK'
  BY <1>4, <1>5, <1>6 DEF MarketInv, OrdersOK
<1>8. PICK x : x = Idle
  OBVIOUS
<1>9. req' = [req EXCEPT ![c] = x] /\ ReadOK(x)' /\ x.pc \notin LockPcs
  BY <1>3, <1>8, IdleOK DEF ReadOK
<1>10. \A k \in Keys : order[k] # NoOrder => order'[k] = order[k]
  BY <1>3, <1>5
<1> QED
  BY <1>3, <1>7, <1>9, <1>10, RowsReleased

LEMMA LoseRaceKeeps ==
    ASSUME MarketInv, MarketAssumption, NEW c \in Clients, LoseRace(c)
    PROVE  MarketInv'
<1>1. PICK items : items = Payload(req[c].lines)
  OBVIOUS
<1>2. PICK x : x = [pc |-> "answered", k |-> req[c].k, items |-> items, raced |-> TRUE]
  OBVIOUS
<1>3. req' = [req EXCEPT ![c] = x] /\ ReleaseLocks(c) /\ order' = order
  BY <1>1, <1>2 DEF LoseRace, Answer, Goto
<1>4. ReadOK(x)' /\ x.pc \notin LockPcs
  BY <1>2 DEF ReadOK, LockPcs
<1> QED
  BY <1>3, <1>4, RowsReleased DEF MarketInv, OrdersOK

\* Settling changes no order's items.
LEMMA CommitSettleKeeps ==
    ASSUME MarketInv, MarketAssumption, NEW c \in Clients, CommitSettle(c)
    PROVE  MarketInv'
<1>0. PICK to : to = req[c].to
  OBVIOUS
<1>1. /\ order' = [order EXCEPT ![req[c].k].status = to]
      /\ ReleaseLocks(c) /\ req' = [req EXCEPT ![c] = Idle]
      /\ to \in Outcomes
  BY <1>0 DEF CommitSettle, Finish, Goto, At, MarketInv, CallsOK, ReadOK
<1>2. ASSUME NEW k \in Keys
      PROVE  /\ DOMAIN order'[k] = {"items", "status"} /\ order'[k].items = order[k].items
             /\ order'[k].status = IF k = req[c].k THEN to ELSE order[k].status
  BY <1>1 DEF MarketInv, OrdersOK
<1>3. OrdersOK'
  BY <1>1, <1>2 DEF MarketInv, OrdersOK
<1>4. ASSUME NEW k \in Keys, order[k] # NoOrder PROVE order'[k] # NoOrder
  <2>1. CASE k = req[c].k
    <3>1. order'[k].status = to /\ to # None
      BY <1>1, <1>2, <2>1 DEF Outcomes, None
    <3> QED
      BY <3>1 DEF NoOrder
  <2>2. CASE k # req[c].k
    BY <1>1, <1>4, <2>2 DEF MarketInv, OrdersOK
  <2> QED
    BY <2>1, <2>2
<1>6. PICK x : x = Idle
  OBVIOUS
<1>7. req' = [req EXCEPT ![c] = x] /\ ReadOK(x)' /\ x.pc \notin LockPcs
  BY <1>1, <1>6, IdleOK DEF ReadOK
<1> QED
  BY <1>1, <1>2, <1>3, <1>4, <1>7, RowsReleased

LEMMA GiveUpKeeps ==
    ASSUME MarketInv, MarketAssumption, NEW c \in Clients, GiveUp(c)
    PROVE  MarketInv'
<1>1. ReleaseLocks(c) /\ order' = order /\ req' = [req EXCEPT ![c] = Idle]
  BY DEF GiveUp, Finish, Goto
<1>2. PICK x : x = Idle
  OBVIOUS
<1>3. req' = [req EXCEPT ![c] = x] /\ ReadOK(x)' /\ x.pc \notin LockPcs
  BY <1>1, <1>2, IdleOK DEF ReadOK
<1> QED
  BY <1>1, <1>3, RowsReleased DEF MarketInv, OrdersOK

LEMMA BeginSettleKeeps ==
    ASSUME MarketInv, NEW c \in Clients, NEW k \in Keys, NEW to \in Outcomes, BeginSettle(c, k, to)
    PROVE  MarketInv'
<1>1. PICK todo : todo = order[k].items
  OBVIOUS
<1>2. PICK x : x = [pc |-> "settle", k |-> k, to |-> to, todo |-> todo]
  OBVIOUS
<1>3. /\ req[c].pc \notin LockPcs /\ lock' = lock /\ order' = order
      /\ req' = [req EXCEPT ![c] = x] /\ order[k].status = "created"
  BY <1>1, <1>2, IdleOK DEF BeginSettle, Free, Goto
<1>4. order[k] # NoOrder
  BY <1>3 DEF NoOrder, None
<1>5. ReadOK(x)
  BY <1>1, <1>2, <1>4 DEF MarketInv, OrdersOK, ReadOK
<1> QED
  BY <1>3, <1>5, CallGoesOn

(***************************************************************************)
(* The invariant                                                           *)
(***************************************************************************)
ListingPcs == {"update", "moderate", "cart"}

\* Requests about a listing or the cart take no part in this.
LEMMA ListingReads ==
    ASSUME MarketInv, NEW c \in Clients, Free(c) \/ req[c].pc \in ListingPcs \union {"answered"},
           NEW r, Goto(c, r), r.pc \in ListingPcs \union {"idle"}, "pc" \in DOMAIN r,
           lock' = lock, order' = order
    PROVE  MarketInv'
<1>1. PICK x : x = r
  OBVIOUS
<1>2. req' = [req EXCEPT ![c] = x] /\ ReadOK(x)
  BY <1>1 DEF Goto, ReadOK, ListingPcs, LockPcs
<1>3. req[c].pc \notin LockPcs
  BY IdleOK DEF Free, ListingPcs, LockPcs
<1> QED
  BY <1>2, <1>3, CallGoesOn

LEMMA CallDone ==
    ASSUME MarketInv, NEW c \in Clients, req[c].pc \in ListingPcs \union {"answered"}, Finish(c),
           lock' = lock, order' = order
    PROVE  MarketInv'
<1>1. PICK r : r = Idle
  OBVIOUS
<1>2. Goto(c, r) /\ r.pc = "idle" /\ "pc" \in DOMAIN r
  BY <1>1 DEF Finish, Idle
<1> QED
  BY <1>2, ListingReads

LEMMA ListingKeeps ==
    ASSUME MarketInv, NEW c \in Clients, NEW l, NEW to,
           BeginUpdate(c, l, to) \/ BeginModerate(c, l, to) \/ CommitUpdate(c) \/ CommitModerate(c)
    PROVE  MarketInv'
<1>1. CASE BeginUpdate(c, l, to)
  <2>1. PICK r : r = [pc |-> "update", l |-> l, seen |-> status[l], named |-> to]
    OBVIOUS
  <2>2. Goto(c, r) /\ Free(c) /\ lock' = lock /\ order' = order
    BY <1>1, <2>1 DEF BeginUpdate
  <2> QED
    BY <2>1, <2>2, ListingReads DEF ListingPcs
<1>2. CASE BeginModerate(c, l, to)
  <2>1. PICK r : r = [pc |-> "moderate", l |-> l, seen |-> status[l], to |-> to]
    OBVIOUS
  <2>2. Goto(c, r) /\ Free(c) /\ lock' = lock /\ order' = order
    BY <1>2, <2>1 DEF BeginModerate
  <2> QED
    BY <2>1, <2>2, ListingReads DEF ListingPcs
<1>3. CASE CommitUpdate(c) \/ CommitModerate(c)
  BY <1>3, CallDone DEF CommitUpdate, CommitModerate, At, ListingPcs
<1> QED
  BY <1>1, <1>2, <1>3

\* What a request is about to write into the cart, having read the row.
CartCopy(c, op, l, n) ==
    \E q \in {n, MaxQty} : Goto(c, [pc |-> "cart", op |-> op, l |-> l, copy |-> cart[l], qty |-> q])

LEMMA CartCopied ==
    ASSUME NEW c, NEW op, NEW l, NEW n, BeginCartWrite(c, op, l, n)
    PROVE  /\ CartCopy(c, op, l, n) /\ Free(c)
           /\ cart' = cart /\ lock' = lock /\ order' = order /\ status' = status
<1>1. PICK q : q = IF n < MaxQty THEN n ELSE MaxQty
  OBVIOUS
<1>2. Goto(c, [pc |-> "cart", op |-> op, l |-> l, copy |-> cart[l], qty |-> q])
  BY <1>1 DEF BeginCartWrite
<1> QED
  BY <1>1, <1>2 DEF BeginCartWrite, CartCopy

LEMMA CartReadKeeps ==
    ASSUME MarketInv, NEW c \in Clients, NEW op, NEW l, NEW n, BeginCartWrite(c, op, l, n)
    PROVE  MarketInv'
<1>1. PICK q : Goto(c, [pc |-> "cart", op |-> op, l |-> l, copy |-> cart[l], qty |-> q])
  BY CartCopied DEF CartCopy
<1>2. PICK r : r = [pc |-> "cart", op |-> op, l |-> l, copy |-> cart[l], qty |-> q]
  OBVIOUS
<1>3. Goto(c, r)
  BY <1>1, <1>2
<1> QED
  BY <1>2, <1>3, CartCopied, ListingReads DEF ListingPcs

LEMMA RequestsElsewhere ==
    ASSUME MarketInv, req' = req, lock' = lock, order' = order
    PROVE  MarketInv'
BY DEF MarketInv, CallsOK, LocksOK, OrdersOK, ReadOK

LEMMA MarketInvStep ==
    ASSUME MarketInv, MarketAssumption, [Next]_vars
    PROVE  MarketInv'
<1>1. ASSUME NEW c \in Clients, NEW k \in Keys, NEW lines \in ItemLists,
             FindByKey(c, k, lines) \/ BeginCheckout(c, k, lines)
      PROVE  MarketInv'
  BY <1>1, CheckoutReads
<1>2. ASSUME NEW c \in Clients,
             SnapshotListings(c) \/ PlaceOrder(c) \/ LoseRace(c) \/ Deliver(c)
      PROVE  MarketInv'
  <2>1. CASE Deliver(c)
    BY <2>1, CallDone DEF Deliver, At
  <2> QED
    BY <1>2, <2>1, SnapshotKeeps, PlaceOrderKeeps, LoseRaceKeeps
<1>3. ASSUME NEW c \in Clients, NEW k \in Keys, NEW to \in Outcomes, BeginSettle(c, k, to) PROVE MarketInv'
  BY <1>3, BeginSettleKeeps
<1>4. ASSUME NEW c \in Clients, NEW l \in Listings, ReserveLine(c, l) \/ SettleLine(c, l)
      PROVE  MarketInv'
  BY <1>4, RowLocked DEF ReserveLine, SettleLine, At, LockPcs
<1>5. ASSUME NEW c \in Clients, CommitSettle(c) PROVE MarketInv'
  BY <1>5, CommitSettleKeeps
<1>6. ASSUME NEW c \in Clients, NEW l \in Listings, NEW to, BeginUpdate(c, l, to) PROVE MarketInv'
  BY <1>6, ListingKeeps
<1>7. ASSUME NEW c \in Clients, NEW l \in Listings, NEW to, BeginModerate(c, l, to) PROVE MarketInv'
  BY <1>7, ListingKeeps
<1>8. ASSUME NEW c \in Clients, CommitUpdate(c) \/ CommitModerate(c) PROVE MarketInv'
  BY <1>8, ListingKeeps
<1>9. ASSUME NEW c \in Clients, NEW l \in Listings, NEW n \in 1..MaxQty,
             BeginAddItem(c, l, n) \/ BeginMerge(c, l, n) \/ BeginUpdateItem(c, l, n)
      PROVE  MarketInv'
  BY <1>9, CartReadKeeps DEF BeginAddItem, BeginMerge, BeginUpdateItem
<1>10. ASSUME NEW c \in Clients, CommitCartWrite(c) \/ GiveUp(c) PROVE MarketInv'
  <2>1. CASE CommitCartWrite(c)
    BY <2>1, CallDone DEF CommitCartWrite, At, ListingPcs
  <2> QED
    BY <1>10, <2>1, GiveUpKeeps
<1>11. CASE ClearCart \/ \E l \in Listings : RemoveItem(l)
  BY <1>11, RequestsElsewhere DEF ClearCart, RemoveItem
<1>12. CASE UNCHANGED vars
  BY <1>12, RequestsElsewhere DEF vars
<1> QED
  BY <1>1, <1>2, <1>3, <1>4, <1>5, <1>6, <1>7, <1>8, <1>9, <1>10, <1>11, <1>12 DEF Next

LEMMA MarketInvariant == Spec => []MarketInv
<1>1. Init => MarketInv
  <2>1. SUFFICES ASSUME Init PROVE MarketInv
    OBVIOUS
  <2>2. CallsOK
    BY <2>1, IdleOK DEF Init, CallsOK
  <2>3. LocksOK
    BY <2>1, MarketAssumption DEF Init, LocksOK, MarketAssumption
  <2>4. OrdersOK
    BY <2>1 DEF Init, OrdersOK, NoOrder
  <2> QED
    BY <2>2, <2>3, <2>4 DEF MarketInv
<1>2. MarketInv /\ [Next]_vars => MarketInv'
  BY MarketAssumption, MarketInvStep
<1> QED
  BY <1>1, <1>2, PTL DEF Spec

\* However many checkouts and settlements lock however many rows: a group of them that
\* waits for one another contains the settlement of an order of several lines
\* (CheckoutService.initiateCheckout, and the loops over order items in OrderService and
\* PaymentService).
THEOREM DeadlockNeedsSettlement == Spec => []CyclesNeedSettlement
<1>1. ASSUME MarketInv PROVE CyclesNeedSettlement
  <2>1. SUFFICES ASSUME NEW G \in SUBSET Clients, Deadlock(G),
                        \A c \in G : ~(At(c, "settle") /\ SeveralLines(req[c].k))
                 PROVE  FALSE
    BY DEF CyclesNeedSettlement
  <2> DEFINE H == {l \in Listings : \E c \in G : Wants(c, l)}
  <2>2. ASSUME NEW c \in G PROVE \E l \in H, d \in G : Wants(c, l) /\ lock[l] = d
    <3>1. PICK d \in G, l \in Listings : Wants(c, l) /\ lock[l] = d
      BY <2>1 DEF Deadlock, WaitsFor
    <3> QED
      BY <3>1
  <2>3. ASSUME NEW l \in H, NEW d \in G, lock[l] = d
        PROVE  At(d, "reserve") /\ \A k \in req[d].todo : l < k
    <3>1. /\ req[d].pc \in LockPcs
          /\ req[d].pc = "reserve" => \A k \in req[d].todo : l < k
          /\ req[d].pc = "settle" => l \in order[req[d].k].items /\ l \notin req[d].todo
      BY <1>1, <2>3 DEF MarketInv, LocksOK
    <3>2. ASSUME req[d].pc = "settle" PROVE FALSE
      <4>1. PICK m \in H : m \in req[d].todo
        BY <2>2, <3>2 DEF Wants, At
      <4>2. m \in order[req[d].k].items /\ l \in order[req[d].k].items /\ l # m
        BY <1>1, <3>1, <3>2, <4>1 DEF MarketInv, CallsOK, ReadOK
      <4> QED
        BY <2>1, <3>2, <4>2 DEF SeveralLines, At
    <3> QED
      BY <3>1, <3>2 DEF LockPcs, At
  <2>4. H # {}
    BY <2>1, <2>2 DEF Deadlock
  <2>5. PICK last \in H : \A k \in H : k <= last
    BY <2>4, LastOf, MarketAssumption
  <2>6. ASSUME NEW l \in H, NEW d \in G, lock[l] = d
        PROVE  \E m \in H, e \in G : l < m /\ lock[m] = e
    <3>1. PICK m \in H, e \in G : Wants(d, m) /\ lock[m] = e
      BY <2>2
    <3>2. m \in req[d].todo
      BY <2>3, <2>6, <3>1 DEF Wants, At, NextLine
    <3> QED
      BY <2>3, <2>6, <3>1, <3>2
  <2>7. PICK first \in H, d \in G : lock[first] = d
    BY <2>1, <2>2 DEF Deadlock
  <2> DEFINE Held == {l \in H : \E e \in G : lock[l] = e}
  <2>8. Held \subseteq Listings /\ Held # {}
    BY <2>7
  <2>9. PICK top \in Held : \A k \in Held : k <= top
    BY <2>8, LastOf, MarketAssumption
  <2>10. PICK m \in Held : top < m
    BY <2>6, <2>9
  <2>11. m <= top /\ m \in Int /\ top \in Int
    BY <2>8, <2>9, <2>10, MarketAssumption DEF MarketAssumption
  <2> QED
    BY <2>10, <2>11
<1> QED
  BY <1>1, MarketInvariant, PTL

\* A repeated request is answered with its own order, for any number of keys and
\* of requests.
THEOREM RightAnswers == Spec => []AnswersMatchCart
<1>1. MarketInv => AnswersMatchCart
  BY DEF MarketInv, CallsOK, ReadOK, AnswersMatchCart, At
<1> QED
  BY <1>1, MarketInvariant, PTL

(***************************************************************************)
(* What is about to be written to a listing or to the cart                 *)
(***************************************************************************)
WritePcs == {"moderate", "cart"}

WriteOK(r) ==
    /\ r.pc = "moderate" => r.seen # "removed"
    /\ r.pc = "cart" => r.qty \in 0..MaxQty /\ (r.op # "update" => r.copy.qty <= r.qty)

WritesInv ==
    /\ DOMAIN cart = Listings
    /\ \A l \in Listings : cart[l].qty \in 0..MaxQty
    /\ \A c \in Clients : WriteOK(req[c])

NoNewWrite == \A d \in Clients : req'[d] = req[d] \/ req'[d].pc \notin WritePcs

LEMMA NewRequest ==
    ASSUME MarketInv, NEW c \in Clients, NEW r, Goto(c, r)
    PROVE  DOMAIN req' = Clients /\ \A d \in Clients : req'[d] = IF d = c THEN r ELSE req[d]
BY DEF Goto, MarketInv, CallsOK

LEMMA NewReadOnly ==
    ASSUME MarketInv, NEW c \in Clients, NEW r, Goto(c, r), r.pc \notin WritePcs
    PROVE  NoNewWrite
BY NewRequest DEF NoNewWrite

LEMMA RequestDone == ASSUME MarketInv, NEW c \in Clients, Finish(c) PROVE NoNewWrite
BY NewReadOnly DEF Finish, Idle, WritePcs

LEMMA CheckoutsWriteNothing ==
    ASSUME MarketInv, NEW c \in Clients, NEW k, NEW lines, NEW l,
           \/ FindByKey(c, k, lines) \/ BeginCheckout(c, k, lines) \/ SnapshotListings(c)
           \/ PlaceOrder(c) \/ LoseRace(c) \/ Deliver(c)
           \/ (\E to : BeginSettle(c, k, to)) \/ ReserveLine(c, l) \/ SettleLine(c, l) \/ CommitSettle(c)
           \/ GiveUp(c)
    PROVE  NoNewWrite /\ cart' = cart
<1>1. cart' = cart
  BY DEF FindByKey, BeginCheckout, SnapshotListings, PlaceOrder, LoseRace, Deliver, BeginSettle,
         ReserveLine, SettleLine, TakeLock, CommitSettle, GiveUp
<1>2. ASSUME NEW x, NEW y, NEW z, Answer(c, x, y, z) PROVE NoNewWrite
  <2>1. PICK r : r = [pc |-> "answered", k |-> x, items |-> Payload(y), raced |-> z]
    OBVIOUS
  <2>2. Goto(c, r) /\ r.pc \notin WritePcs
    BY <1>2, <2>1 DEF Answer, WritePcs
  <2> QED
    BY <2>2, NewReadOnly
<1>3. CASE FindByKey(c, k, lines) \/ LoseRace(c)
  BY <1>2, <1>3 DEF FindByKey, LoseRace
<1>4. CASE BeginCheckout(c, k, lines)
  <2>1. PICK r : r = [pc |-> "checked", k |-> k, lines |-> lines]
    OBVIOUS
  <2>2. Goto(c, r)
    BY <1>4, <2>1 DEF BeginCheckout
  <2> QED
    BY <1>1, <2>1, <2>2, NewReadOnly DEF WritePcs
<1>5. CASE SnapshotListings(c)
  <2>1. PICK todo : todo = Payload(req[c].lines)
    OBVIOUS
  <2>2. PICK r : r = [pc |-> "reserve", k |-> req[c].k, lines |-> req[c].lines, todo |-> todo]
    OBVIOUS
  <2>3. Goto(c, r)
    BY <1>5, <2>1, <2>2 DEF SnapshotListings
  <2> QED
    BY <1>1, <2>2, <2>3, NewReadOnly DEF WritePcs
<1>6. CASE (\E to : BeginSettle(c, k, to))
  <2> PICK to : BeginSettle(c, k, to)
    BY <1>6
  <2>1. PICK r : r = [pc |-> "settle", k |-> k, to |-> to, todo |-> order[k].items]
    OBVIOUS
  <2>2. Goto(c, r)
    BY <2>1 DEF BeginSettle
  <2> QED
    BY <1>1, <2>1, <2>2, NewReadOnly DEF WritePcs
<1>7. CASE ReserveLine(c, l) \/ SettleLine(c, l)
  <2>1. PICK r : r = [req[c] EXCEPT !.todo = @ \ {l}]
    OBVIOUS
  <2>2. Goto(c, r) /\ req[c].pc \in LockPcs
    BY <1>7, <2>1 DEF ReserveLine, SettleLine, TakeLock, At, LockPcs
  <2>3. "todo" \in DOMAIN req[c]
    BY <2>2 DEF MarketInv, CallsOK, ReadOK
  <2>4. r.pc = req[c].pc
    BY <2>1, <2>3
  <2> QED
    BY <1>1, <2>2, <2>4, NewReadOnly DEF LockPcs, WritePcs
<1>8. CASE PlaceOrder(c) \/ Deliver(c) \/ CommitSettle(c) \/ GiveUp(c)
  BY <1>8, RequestDone DEF PlaceOrder, Deliver, CommitSettle, GiveUp
<1> QED
  BY <1>1, <1>3, <1>4, <1>5, <1>6, <1>7, <1>8

LEMMA WritesKept ==
    ASSUME WritesInv, NoNewWrite, cart' = cart
    PROVE  WritesInv'
<1>1. ASSUME NEW d \in Clients PROVE WriteOK(req[d])'
  <2>1. CASE req'[d] = req[d]
    BY <2>1 DEF WritesInv, WriteOK
  <2>2. CASE req'[d].pc \notin WritePcs
    BY <2>2 DEF WriteOK, WritePcs
  <2> QED
    BY <2>1, <2>2 DEF NoNewWrite
<1> QED
  BY <1>1 DEF WritesInv

\* A new write, checked as it is read.
LEMMA WriteBegun ==
    ASSUME MarketInv, WritesInv, NEW c \in Clients, NEW r, Goto(c, r), WriteOK(r), cart' = cart
    PROVE  WritesInv'
<1>1. ASSUME NEW d \in Clients PROVE WriteOK(req[d])'
  BY NewRequest DEF WritesInv, WriteOK
<1> QED
  BY <1>1 DEF WritesInv

LEMMA ListingReadOK ==
    ASSUME MarketInv, WritesInv, NEW c \in Clients, NEW l, NEW to,
           BeginUpdate(c, l, to) \/ BeginModerate(c, l, to)
    PROVE  WritesInv'
<1>1. CASE BeginUpdate(c, l, to)
  <2>1. PICK r : r = [pc |-> "update", l |-> l, seen |-> status[l], named |-> to]
    OBVIOUS
  <2>2. Goto(c, r) /\ cart' = cart
    BY <1>1, <2>1 DEF BeginUpdate
  <2> QED
    BY <2>1, <2>2, WriteBegun DEF WriteOK
<1>2. CASE BeginModerate(c, l, to)
  <2>1. PICK r : r = [pc |-> "moderate", l |-> l, seen |-> status[l], to |-> to]
    OBVIOUS
  <2>2. Goto(c, r) /\ cart' = cart
    BY <1>2, <2>1 DEF BeginModerate
  <2>3. status[l] # "removed"
    BY <1>2 DEF BeginModerate, ValidTransitions, ListingStatus
  <2> QED
    BY <2>1, <2>2, <2>3, WriteBegun DEF WriteOK
<1> QED
  BY <1>1, <1>2

LEMMA CartReadOK ==
    ASSUME MarketInv, WritesInv, MarketAssumption, NEW c \in Clients, NEW l \in Listings,
           NEW n \in 1..MaxQty,
           BeginAddItem(c, l, n) \/ BeginMerge(c, l, n) \/ BeginUpdateItem(c, l, n)
    PROVE  WritesInv'
<1>1. MaxQty \in Nat /\ n \in 1..MaxQty /\ cart[l].qty \in 0..MaxQty
  BY DEF MarketAssumption, WritesInv
<1>2. ASSUME NEW op, NEW q \in Nat, op # "update" => cart[l].qty <= q, BeginCartWrite(c, op, l, q)
      PROVE  WritesInv'
  <2>1. PICK m : m = IF q < MaxQty THEN q ELSE MaxQty
    OBVIOUS
  <2>2. PICK r : r = [pc |-> "cart", op |-> op, l |-> l, copy |-> cart[l], qty |-> m]
    OBVIOUS
  <2>3. Goto(c, r) /\ cart' = cart
    BY <1>2, <2>1, <2>2 DEF BeginCartWrite
  <2>4. m \in 0..MaxQty /\ (op # "update" => cart[l].qty <= m)
    BY <1>1, <1>2, <2>1
  <2>5. WriteOK(r)
    BY <2>2, <2>4 DEF WriteOK
  <2> QED
    BY <2>3, <2>5, WriteBegun
<1>3. CASE BeginAddItem(c, l, n)
  <2>1. cart[l].qty + n \in Nat /\ cart[l].qty <= cart[l].qty + n
    BY <1>1
  <2> QED
    BY <1>2, <1>3, <2>1 DEF BeginAddItem
<1>4. CASE BeginMerge(c, l, n)
  <2>1. PICK q : q = IF n > cart[l].qty THEN n ELSE cart[l].qty
    OBVIOUS
  <2>2. q \in Nat /\ cart[l].qty <= q
    BY <1>1, <2>1
  <2> QED
    BY <1>2, <1>4, <2>1, <2>2 DEF BeginMerge
<1>5. CASE BeginUpdateItem(c, l, n)
  BY <1>1, <1>2, <1>5 DEF BeginUpdateItem
<1> QED
  BY <1>3, <1>4, <1>5

\* A write of the cart: the request done, the row as it read it or gone.
LEMMA CartSaved ==
    ASSUME MarketInv, WritesInv, NEW c \in Clients, CommitCartWrite(c)
    PROVE  /\ req[c].pc = "cart" /\ req'[c] = Idle /\ NoNewWrite
           /\ req[c].qty \in 0..MaxQty /\ DOMAIN cart' = Listings
           /\ \A l \in Listings : cart'[l].qty = IF l = req[c].l THEN req[c].qty ELSE cart[l].qty
<1>1. PICK id : cart' = [cart EXCEPT ![req[c].l] = [id |-> id, qty |-> req[c].qty]]
  BY DEF CommitCartWrite
<1>2. req[c].pc = "cart" /\ Finish(c)
  BY DEF CommitCartWrite, At
<1>3. req'[c] = Idle /\ NoNewWrite
  BY <1>2, NewRequest, RequestDone DEF Finish
<1>4. req[c].qty \in 0..MaxQty
  BY <1>2 DEF WritesInv, WriteOK
<1>5. DOMAIN cart' = Listings
      /\ \A l \in Listings : cart'[l].qty = IF l = req[c].l THEN req[c].qty ELSE cart[l].qty
  BY <1>1 DEF WritesInv
<1> QED
  BY <1>2, <1>3, <1>4, <1>5

LEMMA CartEmptied ==
    ASSUME MarketInv, WritesInv, MarketAssumption, ClearCart \/ \E l \in Listings : RemoveItem(l)
    PROVE  WritesInv' /\ req' = req
<1>1. req' = req /\ DOMAIN cart' = Listings
  BY DEF ClearCart, RemoveItem, WritesInv
<1>2. \A m \in Listings : cart'[m] = cart[m] \/ cart'[m] = NoItem
  BY DEF ClearCart, RemoveItem, WritesInv
<1>3. \A m \in Listings : cart'[m].qty \in 0..MaxQty
  BY <1>2 DEF NoItem, WritesInv, MarketAssumption
<1> QED
  BY <1>1, <1>3 DEF WritesInv, WriteOK

LEMMA WritesStep ==
    ASSUME MarketInv, WritesInv, MarketAssumption, [Next]_vars
    PROVE  WritesInv'
<1>1. ASSUME NEW c \in Clients, NEW k \in Keys, NEW lines \in ItemLists,
             FindByKey(c, k, lines) \/ BeginCheckout(c, k, lines)
      PROVE  WritesInv'
  BY <1>1, CheckoutsWriteNothing, WritesKept
<1>2. ASSUME NEW c \in Clients,
             \/ SnapshotListings(c) \/ PlaceOrder(c) \/ LoseRace(c) \/ Deliver(c)
             \/ CommitSettle(c) \/ GiveUp(c)
      PROVE  WritesInv'
  BY <1>2, CheckoutsWriteNothing, WritesKept
<1>3. ASSUME NEW c \in Clients, NEW k \in Keys, NEW to \in Outcomes, BeginSettle(c, k, to) PROVE WritesInv'
  BY <1>3, CheckoutsWriteNothing, WritesKept
<1>4. ASSUME NEW c \in Clients, NEW l \in Listings, ReserveLine(c, l) \/ SettleLine(c, l)
      PROVE  WritesInv'
  BY <1>4, CheckoutsWriteNothing, WritesKept
<1>5. ASSUME NEW c \in Clients, NEW l \in Listings, NEW to, BeginUpdate(c, l, to) PROVE WritesInv'
  BY <1>5, ListingReadOK
<1>6. ASSUME NEW c \in Clients, NEW l \in Listings, NEW to, BeginModerate(c, l, to) PROVE WritesInv'
  BY <1>6, ListingReadOK
<1>7. ASSUME NEW c \in Clients, CommitUpdate(c) \/ CommitModerate(c) PROVE WritesInv'
  BY <1>7, RequestDone, WritesKept DEF CommitUpdate, CommitModerate
<1>8. ASSUME NEW c \in Clients, NEW l \in Listings, NEW n \in 1..MaxQty,
             BeginAddItem(c, l, n) \/ BeginMerge(c, l, n) \/ BeginUpdateItem(c, l, n)
      PROVE  WritesInv'
  BY <1>8, CartReadOK
<1>9. ASSUME NEW c \in Clients, CommitCartWrite(c) PROVE WritesInv'
  <2>1. \A l \in Listings : cart'[l].qty \in 0..MaxQty
    BY <1>9, CartSaved DEF WritesInv
  <2>2. \A d \in Clients : WriteOK(req[d])'
    BY <1>9, CartSaved DEF WritesInv, WriteOK, NoNewWrite, WritePcs
  <2> QED
    BY <1>9, <2>1, <2>2, CartSaved DEF WritesInv
<1>10. CASE ClearCart \/ \E l \in Listings : RemoveItem(l)
  BY <1>10, CartEmptied
<1>11. CASE UNCHANGED vars
  BY <1>11 DEF vars, WritesInv, WriteOK
<1> QED
  BY <1>1, <1>2, <1>3, <1>4, <1>5, <1>6, <1>7, <1>8, <1>9, <1>10, <1>11 DEF Next

LEMMA WritesInvariant == Spec => []WritesInv
<1>1. Init => WritesInv
  BY MarketAssumption DEF Init, WritesInv, WriteOK, Idle, NoItem, MarketAssumption
<1>2. MarketInv /\ WritesInv /\ [Next]_vars => WritesInv'
  BY MarketAssumption, WritesStep
<1> QED
  BY <1>1, <1>2, MarketInvariant, PTL DEF Spec

(***************************************************************************)
(* What a write may do                                                     *)
(***************************************************************************)
Unremoved(l) ==
    status[l] = "removed" /\ status'[l] # "removed" =>
       \E c \in Clients :
          /\ req[c].pc \in {"update", "moderate"} /\ req'[c] = Idle
          /\ req[c].l = l
          /\ req[c].seen # "removed" \/ (At(c, "update") /\ req[c].named # None)

LEMMA StatusWriters ==
    ASSUME [Next]_vars
    PROVE  \/ status' = status
           \/ \E c \in Clients : PlaceOrder(c) \/ CommitSettle(c) \/ CommitUpdate(c) \/ CommitModerate(c)
<1>1. ASSUME NEW c \in Clients, NEW k \in Keys, NEW lines \in ItemLists,
             FindByKey(c, k, lines) \/ BeginCheckout(c, k, lines)
      PROVE  status' = status
  BY <1>1 DEF FindByKey, BeginCheckout
<1>2. ASSUME NEW c \in Clients, SnapshotListings(c) \/ LoseRace(c) \/ Deliver(c) \/ GiveUp(c)
      PROVE  status' = status
  BY <1>2 DEF SnapshotListings, LoseRace, Deliver, GiveUp
<1>3. ASSUME NEW c \in Clients, NEW k \in Keys, NEW to \in Outcomes, BeginSettle(c, k, to) PROVE status' = status
  BY <1>3 DEF BeginSettle
<1>4. ASSUME NEW c \in Clients, NEW l \in Listings, ReserveLine(c, l) \/ SettleLine(c, l)
      PROVE  status' = status
  BY <1>4 DEF ReserveLine, SettleLine, TakeLock
<1>5. ASSUME NEW c \in Clients, NEW l \in Listings, NEW to, BeginUpdate(c, l, to)
      PROVE  status' = status
  BY <1>5 DEF BeginUpdate
<1>6. ASSUME NEW c \in Clients, NEW l \in Listings, NEW to, BeginModerate(c, l, to)
      PROVE  status' = status
  BY <1>6 DEF BeginModerate
<1>7. ASSUME NEW c \in Clients, NEW l \in Listings, NEW n \in 1..MaxQty,
             BeginAddItem(c, l, n) \/ BeginMerge(c, l, n) \/ BeginUpdateItem(c, l, n)
      PROVE  status' = status
  BY <1>7, CartCopied DEF BeginAddItem, BeginMerge, BeginUpdateItem
<1>8. ASSUME NEW c \in Clients, CommitCartWrite(c) PROVE status' = status
  BY <1>8 DEF CommitCartWrite
<1>9. CASE ClearCart \/ \E l \in Listings : RemoveItem(l)
  BY <1>9 DEF ClearCart, RemoveItem
<1>10. CASE UNCHANGED vars
  BY <1>10 DEF vars
<1> QED
  BY <1>1, <1>2, <1>3, <1>4, <1>5, <1>6, <1>7, <1>8, <1>9, <1>10 DEF Next

\* A removal is undone by nothing but a save of a copy that is older than it, or
\* an update that names another status: not by a sale, by returned stock or by a
\* moderator who has seen it.
THEOREM RemovalHolds == Spec => RemovedIsFinal
<1>1. ASSUME MarketInv, WritesInv, [Next]_vars, NEW l \in Listings PROVE Unremoved(l)
  <2>1. ASSUME NEW c \in Clients, PlaceOrder(c) \/ CommitSettle(c), status[l] = "removed"
        PROVE  status'[l] = "removed"
    <3>1. \A n : MarkSoldOut(l, n) = status[l] /\ MarkActive(l, n) = status[l]
      BY <2>1 DEF MarkSoldOut, MarkActive
    <3>2. PICK n : \/ status'[l] = status[l]
                   \/ status'[l] = MarkSoldOut(l, n)
                   \/ status'[l] = MarkActive(l, n)
      BY <1>1, <2>1 DEF PlaceOrder, CommitSettle
    <3> QED
      BY <2>1, <3>1, <3>2
  <2>2. ASSUME NEW c \in Clients, CommitUpdate(c) PROVE Unremoved(l)
    <3>1. req[c].pc = "update" /\ req'[c] = Idle
      BY <1>1, <2>2, NewRequest DEF CommitUpdate, At, Finish
    <3>2. status' = [status EXCEPT ![req[c].l] = IF req[c].named = None THEN req[c].seen ELSE req[c].named]
      BY <2>2 DEF CommitUpdate
    <3> QED
      BY <3>1, <3>2 DEF Unremoved, At
  <2>3. ASSUME NEW c \in Clients, CommitModerate(c) PROVE Unremoved(l)
    <3>1. req[c].pc = "moderate" /\ req'[c] = Idle /\ req[c].seen # "removed"
      BY <1>1, <2>3, NewRequest DEF CommitModerate, At, Finish, WritesInv, WriteOK
    <3>2. status' = [status EXCEPT ![req[c].l] = req[c].to]
      BY <2>3 DEF CommitModerate
    <3> QED
      BY <3>1, <3>2 DEF Unremoved
  <2> QED
    BY <1>1, <2>1, <2>2, <2>3, StatusWriters DEF Unremoved
<1>2. MarketInv /\ WritesInv /\ [Next]_vars => [\A l \in Listings : Unremoved(l)]_vars
  BY <1>1
<1> QED
  BY <1>2, MarketInvariant, WritesInvariant, PTL DEF Spec, RemovedIsFinal, Unremoved

\* The row of a listing becomes smaller, and not at a customer's request to.
Shrunk(l) ==
    cart'[l].qty < cart[l].qty =>
       \/ req' = req
       \/ \E c \in Clients :
             /\ At(c, "cart") /\ req'[c] = Idle /\ req[c].l = l
             /\ req[c].op = "update" \/ req[c].copy # cart[l]

LEMMA CartWriters ==
    ASSUME MarketInv, WritesInv, [Next]_vars
    PROVE  cart' = cart \/ req' = req \/ \E c \in Clients : CommitCartWrite(c)
<1>1. ASSUME NEW c \in Clients, NEW k \in Keys, NEW lines \in ItemLists,
             FindByKey(c, k, lines) \/ BeginCheckout(c, k, lines)
      PROVE  cart' = cart
  BY <1>1, CheckoutsWriteNothing
<1>2. ASSUME NEW c \in Clients,
             \/ SnapshotListings(c) \/ PlaceOrder(c) \/ LoseRace(c) \/ Deliver(c)
             \/ CommitSettle(c) \/ GiveUp(c)
      PROVE  cart' = cart
  BY <1>2, CheckoutsWriteNothing
<1>3. ASSUME NEW c \in Clients, NEW k \in Keys, NEW to \in Outcomes, BeginSettle(c, k, to) PROVE cart' = cart
  BY <1>3, CheckoutsWriteNothing
<1>4. ASSUME NEW c \in Clients, NEW l \in Listings, ReserveLine(c, l) \/ SettleLine(c, l)
      PROVE  cart' = cart
  BY <1>4, CheckoutsWriteNothing
<1>5. ASSUME NEW c \in Clients, NEW l \in Listings, NEW to, BeginUpdate(c, l, to)
      PROVE  cart' = cart
  BY <1>5 DEF BeginUpdate
<1>6. ASSUME NEW c \in Clients, NEW l \in Listings, NEW to, BeginModerate(c, l, to)
      PROVE  cart' = cart
  BY <1>6 DEF BeginModerate
<1>7. ASSUME NEW c \in Clients, CommitUpdate(c) \/ CommitModerate(c) PROVE cart' = cart
  BY <1>7 DEF CommitUpdate, CommitModerate
<1>8. ASSUME NEW c \in Clients, NEW l \in Listings, NEW n \in 1..MaxQty,
             BeginAddItem(c, l, n) \/ BeginMerge(c, l, n) \/ BeginUpdateItem(c, l, n)
      PROVE  cart' = cart
  BY <1>8, CartCopied DEF BeginAddItem, BeginMerge, BeginUpdateItem
<1>9. CASE ClearCart \/ \E l \in Listings : RemoveItem(l)
  BY <1>9 DEF ClearCart, RemoveItem
<1>10. CASE UNCHANGED vars
  BY <1>10 DEF vars
<1> QED
  BY <1>1, <1>2, <1>3, <1>4, <1>5, <1>6, <1>7, <1>8, <1>9, <1>10 DEF Next

\* Adding and merging take nothing out of a cart, for any number of requests,
\* products and quantities, unless the line was written since it was read.
THEOREM CartKept == Spec => CartNeverShrinks
<1>1. ASSUME MarketInv, WritesInv, [Next]_vars, NEW l \in Listings PROVE Shrunk(l)
  <2>1. cart[l].qty \in 0..MaxQty /\ MaxQty \in Nat
    BY <1>1, MarketAssumption DEF WritesInv, MarketAssumption
  <2>2. CASE cart' = cart
    BY <2>1, <2>2 DEF Shrunk
  <2>3. ASSUME NEW c \in Clients, CommitCartWrite(c) PROVE Shrunk(l)
    <3>1. /\ req[c].pc = "cart" /\ req'[c] = Idle /\ req[c].qty \in 0..MaxQty
          /\ cart'[l].qty = IF l = req[c].l THEN req[c].qty ELSE cart[l].qty
      BY <1>1, <2>3, CartSaved
    <3>2. req[c].op # "update" => req[c].copy.qty <= req[c].qty
      BY <1>1, <3>1 DEF WritesInv, WriteOK
    <3>3. SUFFICES ASSUME cart'[l].qty < cart[l].qty
                   PROVE  req[c].l = l /\ (req[c].op = "update" \/ req[c].copy # cart[l])
      BY <3>1 DEF Shrunk, At
    <3>4. req[c].l = l
      BY <2>1, <3>1, <3>3
    <3>5. ASSUME req[c].op # "update", req[c].copy = cart[l] PROVE FALSE
      <4>1. cart[l].qty <= req[c].qty /\ req[c].qty < cart[l].qty
        BY <3>1, <3>2, <3>3, <3>4, <3>5
      <4> QED
        BY <2>1, <3>1, <4>1
    <3> QED
      BY <3>4, <3>5
  <2> QED
    BY <1>1, <2>2, <2>3, CartWriters DEF Shrunk
<1>2. MarketInv /\ WritesInv /\ [Next]_vars => [\A l \in Listings : Shrunk(l)]_vars
  BY <1>1
<1> QED
  BY <1>2, MarketInvariant, WritesInvariant, PTL DEF Spec, CartNeverShrinks, Shrunk
=============================================================================
