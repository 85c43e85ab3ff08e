-------------------------------- MODULE Market --------------------------------
(***************************************************************************)
(* Listings, a buyer's cart, and the checkout: what an administrator does  *)
(* to a listing, the inventory rows a checkout locks one by one, and the   *)
(* idempotency key under which its order is found again.                   *)
(*                                                                         *)
(* Listing ids are numbers, as only their order matters.  A line of an     *)
(* order is one unit.  The counters behind available_qty are those of Inventory, *)
(* and what happens to an order after it is placed is in OrderPayment;     *)
(* here it is paid or cancelled, for the rows that locks.                  *)
(***************************************************************************)
EXTENDS Integers, SequencesExt

CONSTANTS
    Listings,        \* ids, in the order localeCompare gives them
    InStock,         \* bound: available_qty of every listing at the start
    ItemLists,       \* dto.items: sequences of listings, as the client sent them
    Keys,            \* idempotency keys
    Clients,         \* requests in flight
    MaxOrdersPerHour,\* MAX_ORDERS_PER_HOUR (5)
    MaxQty,          \* MAX_QTY of a line of the cart (10)
    MaxRows,         \* bound: rows ever inserted into cart_items
    MaxEdits         \* bound: requests of administrators and requests that
                     \* read and then write the cart

None == "none"

ASSUME MarketAssumption ==
    /\ Listings \subseteq Int
    /\ \E last \in Listings : \A l \in Listings : l <= last
    /\ ItemLists \subseteq Seq(Listings)
    /\ None \notin Clients
    /\ InStock \in Nat /\ MaxOrdersPerHour \in Nat
    /\ MaxQty \in Nat /\ MaxRows \in Nat /\ MaxEdits \in Nat

VARIABLES
    status,    \* listings.status
    stock,     \* inventory_items.available_qty, as committed
    lock,      \* which request's transaction holds the inventory row
    order,     \* the order under each idempotency key
    cart,      \* the buyer's cart_items
    rows,      \* how many rows were inserted into it
    req,       \* what each request in flight has read
    edits      \* how many of those requests there were

vars == <<status, stock, lock, order, cart, rows, req, edits>>

ListingStatus == {"draft", "pending_review", "active", "paused", "sold_out", "removed"}

\* items: the snapshot of the lines.
Outcomes == {"paid", "cancelled"}    \* a failed payment releases as a cancellation does
OrderRow == [items: SUBSET Listings, status: {"created"} \union Outcomes]
NoOrder == [items |-> {}, status |-> None]

\* id tells a row from the one inserted after it was deleted.
CartItem == [id: Nat, qty: 1..MaxQty]
NoItem == [id |-> 0, qty |-> 0]

Idle == [pc |-> "idle"]

Init ==
    /\ status \in [Listings -> {"draft", "active"}]
    /\ stock = [l \in Listings |-> InStock]
    /\ lock = [l \in Listings |-> None]
    /\ order = [k \in Keys |-> NoOrder]
    /\ cart = [l \in Listings |-> NoItem]
    /\ rows = 0
    /\ req = [c \in Clients |-> Idle]
    /\ edits = 0

Free(c) == req[c] = Idle
At(c, pc) == req[c].pc = pc
Goto(c, record) == req' = [req EXCEPT ![c] = record]
Finish(c) == Goto(c, Idle)

Orders == {k \in Keys : order[k] # NoOrder}

MarkSoldOut(l, left) == IF left = 0 /\ status[l] = "active" THEN "sold_out" ELSE status[l]
MarkActive(l, left) == IF left > 0 /\ status[l] = "sold_out" THEN "active" ELSE status[l]

(***************************************************************************)
(* initiateCheckout                                                        *)
(***************************************************************************)
\* computePayloadHash: the lines in canonical order.
Payload(lines) == ToSet(lines)

\* The order found is what the request is told.
Answer(c, k, lines, raced) ==
    Goto(c, [pc |-> "answered", k |-> k, items |-> Payload(lines), raced |-> raced])

\* Mutant of SamePayload: whatever was ordered under the key is the answer.
SamePayloadUnchecked(k, lines) == TRUE

SamePayload(k, lines) == order[k].items = Payload(lines)

FindByKey(c, k, lines) ==
    /\ Free(c) /\ order[k] # NoOrder
    /\ SamePayload(k, lines)
    /\ Answer(c, k, lines, FALSE)
    /\ UNCHANGED <<status, stock, lock, order, edits, cart, rows>>

\* All orders of the model are placed by one buyer within one hour.
WithinVelocity == Cardinality(Orders) < MaxOrdersPerHour

BeginCheckout(c, k, lines) ==
    /\ Free(c) /\ order[k] = NoOrder
    /\ WithinVelocity
    /\ Goto(c, [pc |-> "checked", k |-> k, lines |-> lines])
    /\ UNCHANGED <<status, stock, lock, order, edits, cart, rows>>

\* Mutant of NextLine: the rows are locked as the client listed them.
NextLineAsSent(l, todo) == l \in todo

\* The lines are sorted by the id of the listing.
NextLine(l, todo) == l \in todo /\ \A k \in todo : l <= k

\* Every listing must be active; that is not looked at again.
SnapshotListings(c) ==
    LET r == req[c] IN
    /\ At(c, "checked")
    /\ \A l \in ToSet(r.lines) : status[l] = "active"
    /\ Goto(c, [pc |-> "reserve", k |-> r.k, lines |-> r.lines, todo |-> Payload(r.lines)])
    /\ UNCHANGED <<status, stock, lock, order, edits, cart, rows>>

TakeLock(c, l) ==
    /\ lock[l] = None
    /\ lock' = [lock EXCEPT ![l] = c]
    /\ Goto(c, [req[c] EXCEPT !.todo = @ \ {l}])
    /\ UNCHANGED <<status, stock, order, edits, cart, rows>>

\* One line: the UPDATE waits for the row's lock, then asks for enough stock.
ReserveLine(c, l) ==
    /\ At(c, "reserve") /\ NextLine(l, req[c].todo)
    /\ stock[l] > 0
    /\ TakeLock(c, l)

ReleaseLocks(c) == lock' = [l \in Listings |-> IF lock[l] = c THEN None ELSE lock[l]]

PlaceOrder(c) ==
    LET r == req[c]
        left == [l \in Listings |-> IF l \in Payload(r.lines) THEN stock[l] - 1 ELSE stock[l]]
    IN
    /\ At(c, "reserve") /\ r.todo = {}
    /\ order[r.k] = NoOrder    \* unique idempotency key
    /\ order' = [order EXCEPT ![r.k] = [items |-> Payload(r.lines), status |-> "created"]]
    /\ stock' = left
    /\ status' = [l \in Listings |->
                     IF l \in Payload(r.lines) THEN MarkSoldOut(l, left[l]) ELSE status[l]]
    /\ ReleaseLocks(c)
    /\ Finish(c)
    /\ UNCHANGED <<edits, cart, rows>>

\* Another request has ordered under the key: everything is rolled back, and
\* its order is the answer, whatever its payload.
LoseRace(c) ==
    LET r == req[c] IN
    /\ At(c, "reserve") /\ r.todo = {}
    /\ order[r.k] # NoOrder
    /\ ReleaseLocks(c)
    /\ Answer(c, r.k, r.lines, TRUE)
    /\ UNCHANGED <<status, stock, order, edits, cart, rows>>

Deliver(c) ==
    /\ At(c, "answered")
    /\ Finish(c)
    /\ UNCHANGED <<status, stock, lock, order, edits, cart, rows>>

(***************************************************************************)
(* The end of an order settles its reservations in one transaction: the    *)
(* webhook and the verification of a payment confirm them, a cancellation  *)
(* (by the buyer or an administrator) and a failed payment release them.   *)
(* Each locks the order's row first, and who comes second finds the        *)
(* reservations settled.  The expiry job settles one reservation per       *)
(* transaction and locks no second inventory row.                          *)
(***************************************************************************)
BeginSettle(c, k, to) ==
    /\ Free(c)
    /\ order[k].status = "created"
    /\ \A d \in Clients : ~(At(d, "settle") /\ req[d].k = k)
    /\ Goto(c, [pc |-> "settle", k |-> k, to |-> to, todo |-> order[k].items])
    /\ UNCHANGED <<status, stock, lock, order, edits, cart, rows>>

\* The items are read without an ORDER BY, so their rows are locked in any order.
SettleLine(c, l) ==
    /\ At(c, "settle") /\ l \in req[c].todo
    /\ TakeLock(c, l)

CommitSettle(c) ==
    LET r == req[c]
        returned == IF r.to = "cancelled" THEN order[r.k].items ELSE {}
        left == [l \in Listings |-> IF l \in returned THEN stock[l] + 1 ELSE stock[l]]
    IN
    /\ At(c, "settle") /\ r.todo = {}
    /\ order' = [order EXCEPT ![r.k].status = r.to]
    /\ stock' = left
    /\ status' = [l \in Listings |-> IF l \in returned THEN MarkActive(l, left[l]) ELSE status[l]]
    /\ ReleaseLocks(c)
    /\ Finish(c)
    /\ UNCHANGED <<edits, cart, rows>>

(***************************************************************************)
(* updateListing and moderateListing read the listing, and save the whole  *)
(* copy.  They lock the listing's row in one statement and nothing after   *)
(* it, so they are never part of a cycle of waiting transactions.          *)
(***************************************************************************)
\* named: dto.status, if the update has one.
BeginUpdate(c, l, named) ==
    /\ Free(c) /\ edits < MaxEdits
    /\ Goto(c, [pc |-> "update", l |-> l, seen |-> status[l], named |-> named])
    /\ edits' = edits + 1
    /\ UNCHANGED <<status, stock, lock, order, cart, rows>>

CommitUpdate(c) ==
    LET r == req[c] IN
    /\ At(c, "update")
    /\ status' = [status EXCEPT ![r.l] = IF r.named = None THEN r.seen ELSE r.named]
    /\ Finish(c)
    /\ UNCHANGED <<stock, lock, order, edits, cart, rows>>

ValidTransitions ==
    [s \in ListingStatus |->
        CASE s = "draft" -> {"pending_review", "active", "removed"}
          [] s = "pending_review" -> {"draft", "active", "removed"}
          [] s = "active" -> {"paused", "sold_out", "removed"}
          [] s = "paused" -> {"active", "removed"}
          [] s = "sold_out" -> {"active", "removed"}
          [] s = "removed" -> {}]

\* approve and resume, reject, pause and flag_for_review, remove
ModerationTargets == {"active", "draft", "paused", "removed"}

BeginModerateAny(c, l, to) ==    \* mutant: the table of transitions is not consulted
    /\ Free(c) /\ edits < MaxEdits
    /\ Goto(c, [pc |-> "moderate", l |-> l, seen |-> status[l], to |-> to])
    /\ edits' = edits + 1
    /\ UNCHANGED <<status, stock, lock, order, cart, rows>>

BeginModerate(c, l, to) ==
    /\ Free(c) /\ edits < MaxEdits
    /\ to \in ValidTransitions[status[l]]
    /\ Goto(c, [pc |-> "moderate", l |-> l, seen |-> status[l], to |-> to])
    /\ edits' = edits + 1
    /\ UNCHANGED <<status, stock, lock, order, cart, rows>>

CommitModerate(c) ==
    LET r == req[c] IN
    /\ At(c, "moderate")
    /\ status' = [status EXCEPT ![r.l] = r.to]
    /\ Finish(c)
    /\ UNCHANGED <<stock, lock, order, edits, cart, rows>>

(***************************************************************************)
(* The cart.  Adding, merging a guest's cart (a line at a time) and        *)
(* changing a quantity read the row and save the copy.                     *)
(***************************************************************************)
BeginCartWrite(c, op, l, qty) ==
    /\ Free(c) /\ edits < MaxEdits
    /\ Goto(c, [pc |-> "cart", op |-> op, l |-> l, copy |-> cart[l],
                qty |-> IF qty < MaxQty THEN qty ELSE MaxQty])
    /\ edits' = edits + 1
    /\ UNCHANGED <<status, stock, lock, order, cart, rows>>

BeginAddItem(c, l, n) ==
    /\ status[l] = "active"
    /\ BeginCartWrite(c, "add", l, cart[l].qty + n)

BeginMergeReplacing(c, l, n) ==    \* mutant: the guest's quantity wins
    /\ status[l] = "active"
    /\ BeginCartWrite(c, "merge", l, n)

\* The higher quantity is kept; a listing that is not active is skipped.
BeginMerge(c, l, n) ==
    /\ status[l] = "active"
    /\ BeginCartWrite(c, "merge", l, IF n > cart[l].qty THEN n ELSE cart[l].qty)

BeginUpdateItem(c, l, n) ==
    /\ cart[l] # NoItem
    /\ BeginCartWrite(c, "update", l, n)

\* A row deleted since it was read is inserted again, with its id; beside a row
\* inserted since, it is refused by the unique key on user and listing.
CommitCartWrite(c) ==
    LET r == req[c]
        new == r.copy = NoItem
        id == IF new THEN rows + 1 ELSE r.copy.id
    IN
    /\ At(c, "cart")
    /\ cart[r.l] = NoItem \/ cart[r.l].id = r.copy.id
    /\ new => rows < MaxRows
    /\ cart' = [cart EXCEPT ![r.l] = [id |-> id, qty |-> r.qty]]
    /\ rows' = IF new THEN rows + 1 ELSE rows
    /\ Finish(c)
    /\ UNCHANGED <<status, stock, lock, order, edits>>

RemoveItem(l) ==
    /\ cart[l] # NoItem
    /\ cart' = [cart EXCEPT ![l] = NoItem]
    /\ UNCHANGED <<status, stock, lock, order, rows, req, edits>>

ClearCart ==
    /\ cart' = [l \in Listings |-> NoItem]
    /\ UNCHANGED <<status, stock, lock, order, rows, req, edits>>

\* The request fails: refused, out of stock, ended by the database, or cut short.
GiveUp(c) ==
    /\ ~Free(c)
    /\ ReleaseLocks(c)
    /\ Finish(c)
    /\ UNCHANGED <<status, stock, order, edits, cart, rows>>

Next ==
    \/ \E c \in Clients, k \in Keys, lines \in ItemLists :
          FindByKey(c, k, lines) \/ BeginCheckout(c, k, lines)
    \/ \E c \in Clients : SnapshotListings(c) \/ PlaceOrder(c) \/ LoseRace(c) \/ Deliver(c)
    \/ \E c \in Clients, k \in Keys, to \in Outcomes : BeginSettle(c, k, to)
    \/ \E c \in Clients, l \in Listings : ReserveLine(c, l) \/ SettleLine(c, l)
    \/ \E c \in Clients : CommitSettle(c)
    \/ \E c \in Clients, l \in Listings : \E named \in ListingStatus \union {None} : BeginUpdate(c, l, named)
    \/ \E c \in Clients, l \in Listings, to \in ModerationTargets : BeginModerate(c, l, to)
    \/ \E c \in Clients : CommitUpdate(c) \/ CommitModerate(c)
    \/ \E c \in Clients, l \in Listings, n \in 1..MaxQty :
          BeginAddItem(c, l, n) \/ BeginMerge(c, l, n) \/ BeginUpdateItem(c, l, n)
    \/ \E c \in Clients : CommitCartWrite(c) \/ GiveUp(c)
    \/ \E l \in Listings : RemoveItem(l)
    \/ ClearCart

Spec == Init /\ [][Next]_vars

(***************************************************************************)
(* Properties                                                              *)
(***************************************************************************)
\* A checkout wants one row next, a settlement any of those it has left.
Wants(c, l) ==
    \/ At(c, "reserve") /\ NextLine(l, req[c].todo)
    \/ At(c, "settle") /\ l \in req[c].todo

WaitsFor(c, d) == \E l \in Listings : Wants(c, l) /\ lock[l] = d

\* Some of these requests wait for one another in a circle.
Deadlock(G) == G # {} /\ \A c \in G : \E d \in G : WaitsFor(c, d)

\* No transactions ever deadlock on inventory rows.
NoLockCycle == \A G \in SUBSET Clients : ~Deadlock(G)

SeveralLines(k) == \E l, m \in order[k].items : l # m

\* Every circle of transactions waiting for one another's inventory rows contains the
\* settlement of an order of several lines.  Checkouts lock the rows by listing id, so
\* checkouts and settlements of one line, however many, never deadlock among themselves.
CyclesNeedSettlement ==
    \A G \in SUBSET Clients :
        Deadlock(G) => \E c \in G : At(c, "settle") /\ SeveralLines(req[c].k)

\* A client that repeats an idempotency key gets its own order or an error, not
\* the order of another cart, unless both requests were running at once.
AnswersMatchCart ==
    \A c \in Clients :
        At(c, "answered") /\ ~req[c].raced => order[req[c].k].items = req[c].items

\* A removed listing comes back on sale only through a request that had read it
\* before it was removed, or an update that names a status; no moderation of a
\* removed listing, no sale and no returned stock brings it back.
RemovedIsFinal ==
    [][\A l \in Listings :
         status[l] = "removed" /\ status'[l] # "removed" =>
            \E c \in Clients :
               /\ req[c].pc \in {"update", "moderate"} /\ req'[c] = Idle
               /\ req[c].l = l
               /\ req[c].seen # "removed" \/ (At(c, "update") /\ req[c].named # None)]_vars

\* Adding a product or merging a guest's cart takes nothing out of the cart,
\* unless another request has written that line since it was read.
CartNeverShrinks ==
    [][\A l \in Listings :
         cart'[l].qty < cart[l].qty =>
            \/ req' = req    \* removed or cleared
            \/ \E c \in Clients :
                  /\ At(c, "cart") /\ req'[c] = Idle /\ req[c].l = l
                  /\ req[c].op = "update" \/ req[c].copy # cart[l]]_vars
==============================================================================
