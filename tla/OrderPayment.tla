---------------------------- MODULE OrderPayment -----------------------------
(***************************************************************************)
(* An order from checkout to payment: the order row and its state machine, *)
(* the payment row, Stripe's payment intents and webhook events, the       *)
(* webhook dedup rows, the money_event_outbox rows that later feed the     *)
(* commission engine, and the inventory engine underneath.                 *)
(*                                                                         *)
(* An order has one line of one unit, so its reservation carries the       *)
(* order's id.  A request or job that is in the middle of its work is a    *)
(* record in req; where it stands is its pc:                               *)
(*                                                                         *)
(*   start    accepted; its checks outside the transaction have passed     *)
(*   read     inside its transaction, order status read; locks says        *)
(*            whether it has updated, and so locked, the payment row first *)
(*   locked   order row updated (and locked), reservation row read         *)
(*   moved    createPaymentIntent: transition committed, Stripe next       *)
(*   created  createPaymentIntent: Stripe answered, payment row next       *)
(*   ok, error  webhook: processed or failed, the dedup row is next        *)
(***************************************************************************)
EXTENDS Integers, FiniteSets, OrderStateMachine

CONSTANTS
    Listings, Orders,
    Intents,        \* Stripe payment intents, named by their idempotency key
    NoIntent,
    Workers,        \* requests and webhook deliveries in flight at a time
    Jobs,           \* runs of the reservation expiry job
    Units,          \* units in stock of each listing
    CardsMayFail,   \* whether a payment attempt may be declined
    MayCancel,      \* whether buyers cancel
    AdminTargets,   \* the statuses an administrator sets
    IntentWorkers,  \* the workers that serve createPaymentIntent
    MaxCrashes,     \* bound on process crashes
    MaxAborts       \* bound on transactions the database aborts

ASSUME ConstantsAssumption ==
    /\ Units \in Nat /\ MaxCrashes \in Nat /\ MaxAborts \in Nat
    /\ IntentWorkers \subseteq Workers
    /\ CardsMayFail \in BOOLEAN /\ MayCancel \in BOOLEAN
    /\ AdminTargets \subseteq OrderStatus
    /\ NoIntent \notin Intents

VARIABLES
    item, listing, resv, tx,    \* the inventory engine
    order,          \* orders.status
    payment,        \* payments, one row per order at most (unique order_id)
    intent,         \* Stripe's side
    sent,           \* webhook events Stripe has emitted
    acked,          \* events answered with 200
    record,         \* payment_webhook_events, unique provider_event_id
    outbox,         \* number of order.paid rows per order
    req,            \* requests in flight
    crashes, aborts

faultVars == <<crashes, aborts>>
orderVars == <<order, payment, record, outbox>>
stripeVars == <<intent, sent, acked>>
stockVars == <<item, listing, resv, tx>>
vars == <<item, listing, resv, tx, order, payment, intent, sent, acked,
          record, outbox, req, crashes, aborts>>

Inv == INSTANCE Inventory WITH
          Reservations <- Orders, Customers <- Workers, Settlers <- Jobs,
          Admins <- {}, MaxQty <- 1, MaxTotal <- Units

Lifecycle == INSTANCE OrderLifecycle

(***************************************************************************)
(* Rows                                                                    *)
(***************************************************************************)
NoPayment == [status |-> "none", intent |-> NoIntent]
Payment == {NoPayment} \union
           [status: {"pending", "captured", "failed", "refunded"}, intent: Intents]

\* known: the client holds the client_secret, without which it cannot pay.
Intent == [status: {"none", "open", "succeeded"}, order: Orders, known: BOOLEAN]

Event == [kind: {"succeeded", "failed"}, intent: Intents]

WebhookOps == {"succeeded", "failed"}
PaidOps == {"succeeded", "verify"}
Ops == {"intent", "cancel", "admin"} \union PaidOps \union WebhookOps

NoReq == [op |-> "none"]
Request ==
    [op: Ops, pc: {"start", "read", "locked", "moved", "created", "ok", "error"},
     o: Orders, i: Intents \union {NoIntent}, to: OrderStatus,
     locks: BOOLEAN, held: Inv!ReservationStatus]

TypeOK ==
    /\ Inv!TypeOK
    /\ order \in [Orders -> OrderStatus \union {"absent"}]
    /\ payment \in [Orders -> Payment]
    /\ intent \in [Intents -> Intent]
    /\ acked \subseteq sent /\ sent \subseteq Event
    /\ record \in [Event -> {"none", "unprocessed", "processed", "error"}]
    /\ outbox \in [Orders -> 0..2]
    /\ req \in [Workers -> {NoReq} \union Request]
    /\ crashes \in 0..MaxCrashes /\ aborts \in 0..MaxAborts

Init ==
    /\ Inv!Init
    /\ \A l \in Listings : item[l].total = Units /\ listing[l] = "active"
    /\ order = [o \in Orders |-> "absent"]
    /\ payment = [o \in Orders |-> NoPayment]
    /\ intent \in [Intents -> [status: {"none"}, order: Orders, known: {FALSE}]]
    /\ sent = {} /\ acked = {}
    /\ record = [e \in Event |-> "none"]
    /\ outbox = [o \in Orders |-> 0]
    /\ req = [w \in Workers |-> NoReq]
    /\ crashes = 0 /\ aborts = 0

(***************************************************************************)
(* Requests in flight and their row locks                                  *)
(***************************************************************************)
Free(w) == req[w] = NoReq
At(w, pc) == ~Free(w) /\ req[w].pc = pc
Goto(w, pc) == req' = [req EXCEPT ![w].pc = pc]
Finish(w) == req' = [req EXCEPT ![w] = NoReq]

Accept(w, op, o, i, to) ==
    /\ Free(w)
    /\ req' = [req EXCEPT ![w] = [op |-> op, pc |-> "start", o |-> o, i |-> i,
                                  to |-> to, locks |-> FALSE, held |-> "absent"]]

\* A webhook finds the payment row by Stripe's intent.
FindsPayment(w) == payment[req[w].o].intent = req[w].i

\* Whether the transaction of w updates the payment row before it reads the
\* order: a webhook that finds the row does; verify does unless it read captured,
\* and it may have read that before or after the row's last change.
UpdatesPayment(w) ==
    CASE req[w].op \in WebhookOps -> {FindsPayment(w)}
      [] req[w].op = "verify" ->
            IF payment[req[w].o].status = "captured" THEN BOOLEAN ELSE {TRUE}
      [] OTHER -> {FALSE}

PaymentLockedNever(o) == FALSE      \* mutant: the payment is updated last

PaymentLocked(o) ==
    \E w \in Workers : (At(w, "read") \/ At(w, "locked")) /\ req[w].o = o /\ req[w].locks

OrderLocked(o) == \E w \in Workers : At(w, "locked") /\ req[w].o = o

\* How a transaction that ends leaves its request: a webhook goes on to write
\* its dedup row, any other request has answered its caller.
EndTx(w, outcome) ==
    IF req[w].op \in WebhookOps THEN Goto(w, outcome) ELSE Finish(w)

\* The process dies after a request's last write: nobody sees the answer.
AnswerLost ==
    /\ crashes < MaxCrashes /\ crashes' = crashes + 1
    /\ UNCHANGED aborts

(***************************************************************************)
(* initiateCheckout: the reservation and the order are one transaction.    *)
(***************************************************************************)
Checkout(w, o, l) ==
    /\ order[o] = "absent"
    /\ listing[l] = "active"
    /\ Inv!ReserveStock(w, o, l, 1)
    /\ order' = [order EXCEPT ![o] = "created"]
    /\ UNCHANGED <<stripeVars, payment, record, outbox, req, faultVars>>

(***************************************************************************)
(* createPaymentIntent                                                     *)
(***************************************************************************)
StartIntent(w, o, i) ==
    /\ order[o] \notin {"absent", "paid"}
    /\ payment[o] = NoPayment
    /\ intent[i].order = o
    /\ Accept(w, "intent", o, i, "payment_pending")
    /\ UNCHANGED <<stockVars, orderVars, stripeVars, faultVars>>

\* A payment row exists: its intent's client_secret is fetched and returned.
ReturnExistingIntent(o) ==
    /\ order[o] \notin {"absent", "paid"}
    /\ payment[o] # NoPayment
    /\ ~intent[payment[o].intent].known
    /\ intent' = [intent EXCEPT ![payment[o].intent].known = TRUE]
    /\ UNCHANGED <<stockVars, orderVars, sent, acked, req, faultVars>>

CommitIntent(w) ==
    /\ At(w, "locked") /\ req[w].op = "intent"
    /\ order' = [order EXCEPT ![req[w].o] = "payment_pending"]
    /\ Goto(w, "moved")
    /\ UNCHANGED <<stockVars, stripeVars, payment, record, outbox, faultVars>>

\* Stripe answers a repeated idempotency key with the intent it made before.
CreateIntent(w) ==
    /\ At(w, "moved")
    /\ intent' = [intent EXCEPT ![req[w].i].status = IF @ = "none" THEN "open" ELSE @]
    /\ Goto(w, "created")
    /\ UNCHANGED <<stockVars, orderVars, sent, acked, faultVars>>

\* Insert the payment row; on the unique violation the other request's row is
\* returned together with this request's own client_secret.
SavePayment(w) ==
    LET o == req[w].o
        i == req[w].i
    IN
    /\ At(w, "created")
    /\ payment' = [payment EXCEPT ![o] =
                     IF @ = NoPayment THEN [status |-> "pending", intent |-> i] ELSE @]
    /\ \/ intent' = [intent EXCEPT ![i].known = TRUE] /\ UNCHANGED faultVars
       \/ AnswerLost /\ UNCHANGED intent
    /\ Finish(w)
    /\ UNCHANGED <<stockVars, order, record, outbox, sent, acked>>

(***************************************************************************)
(* Stripe and the buyer's card                                             *)
(***************************************************************************)
Payable(i) == intent[i].status = "open" /\ intent[i].known

Charge(i) ==
    /\ Payable(i)
    /\ intent' = [intent EXCEPT ![i].status = "succeeded"]
    /\ sent' = sent \union {[kind |-> "succeeded", intent |-> i]}
    /\ UNCHANGED <<stockVars, orderVars, acked, req, faultVars>>

\* A declined attempt leaves the intent open for another one.
Decline(i) ==
    /\ CardsMayFail
    /\ Payable(i)
    /\ [kind |-> "failed", intent |-> i] \notin sent
    /\ sent' = sent \union {[kind |-> "failed", intent |-> i]}
    /\ UNCHANGED <<stockVars, orderVars, intent, acked, req, faultVars>>

(***************************************************************************)
(* handleWebhook: dedup row, processing, outcome, 200                      *)
(***************************************************************************)
DeliverOnce(w, e) ==        \* mutant: any event seen before is dropped
    /\ e \in sent
    /\ record[e] = "none"
    /\ record' = [record EXCEPT ![e] = "unprocessed"]
    /\ Accept(w, e.kind, intent[e.intent].order, e.intent,
              IF e.kind = "succeeded" THEN "paid" ELSE "payment_failed")
    /\ UNCHANGED <<stockVars, order, payment, outbox, stripeVars, faultVars>>

Deliver(w, e) ==
    /\ e \in sent
    /\ record[e] # "processed"
    /\ record' = [record EXCEPT ![e] = IF @ = "none" THEN "unprocessed" ELSE @]
    /\ Accept(w, e.kind, intent[e.intent].order, e.intent,
              IF e.kind = "succeeded" THEN "paid" ELSE "payment_failed")
    /\ UNCHANGED <<stockVars, order, payment, outbox, stripeVars, faultVars>>

DeliverProcessed(e) ==
    /\ e \in sent \ acked
    /\ record[e] = "processed"
    /\ acked' = acked \union {e}
    /\ UNCHANGED <<stockVars, orderVars, intent, sent, req, faultVars>>

\* The handler never rethrows, so Stripe sees 200 whatever the outcome was.
RecordOutcome(w) ==
    LET e == [kind |-> req[w].op, intent |-> req[w].i] IN
    /\ At(w, "ok") \/ At(w, "error")
    /\ record' = [record EXCEPT ![e] = IF req[w].pc = "ok" THEN "processed" ELSE "error"]
    /\ \/ acked' = acked \union {e} /\ UNCHANGED faultVars
       \/ AnswerLost /\ UNCHANGED acked
    /\ Finish(w)
    /\ UNCHANGED <<stockVars, order, payment, outbox, intent, sent>>

(***************************************************************************)
(* The other entry points                                                  *)
(***************************************************************************)
\* verifyAndSyncPayment goes on only for a pending order whose intent, as
\* Stripe reports it, has succeeded.
StartVerifyTrusting(w, o) ==        \* mutant: Stripe is not asked
    /\ order[o] = "payment_pending"
    /\ payment[o] # NoPayment
    /\ Accept(w, "verify", o, payment[o].intent, "paid")
    /\ UNCHANGED <<stockVars, orderVars, stripeVars, faultVars>>

StartVerify(w, o) ==
    /\ order[o] = "payment_pending"
    /\ payment[o] # NoPayment
    /\ intent[payment[o].intent].status = "succeeded"
    /\ Accept(w, "verify", o, payment[o].intent, "paid")
    /\ UNCHANGED <<stockVars, orderVars, stripeVars, faultVars>>

StartCancel(w, o) ==
    /\ MayCancel
    /\ order[o] # "absent"
    /\ Accept(w, "cancel", o, NoIntent, "cancelled")
    /\ UNCHANGED <<stockVars, orderVars, stripeVars, faultVars>>

StartAdminUpdate(w, o, to) ==
    /\ order[o] # "absent"
    /\ Accept(w, "admin", o, NoIntent, to)
    /\ UNCHANGED <<stockVars, orderVars, stripeVars, faultVars>>

(***************************************************************************)
(* The order transaction all of them share                                 *)
(***************************************************************************)
MayEnterTx(w, locks) ==
    /\ At(w, "start")
    /\ locks \in UpdatesPayment(w)
    /\ locks => ~PaymentLocked(req[w].o)

\* The early returns: an unknown payment, an order that is already there.
NothingToDo(w) ==
    \/ req[w].op = "succeeded" /\ ~FindsPayment(w)
    \/ req[w].op \in PaidOps /\ order[req[w].o] = "paid"
    \/ req[w].op = "failed" /\ order[req[w].o] = "payment_failed"

ReadOrder(w, locks) ==
    /\ MayEnterTx(w, locks)
    /\ ~NothingToDo(w)
    /\ CanTransition(order[req[w].o], req[w].to)
    /\ req' = [req EXCEPT ![w].pc = "read", ![w].locks = locks]
    /\ UNCHANGED <<stockVars, orderVars, stripeVars, faultVars>>

\* The payment row as a webhook or verify transaction leaves it.
MarkPayment(w, locks, status) ==
    payment' = [payment EXCEPT ![req[w].o] = IF locks THEN [@ EXCEPT !.status = status] ELSE @]

\* Mutant of RejectTransition: the payment is saved outside the transaction.
RejectTransitionKeepsPayment(w, locks) ==
    /\ MayEnterTx(w, locks)
    /\ ~NothingToDo(w)
    /\ ~CanTransition(order[req[w].o], req[w].to)
    /\ MarkPayment(w, locks, IF req[w].op \in PaidOps THEN "captured" ELSE "failed")
    /\ EndTx(w, "error")
    /\ UNCHANGED <<stockVars, order, record, outbox, stripeVars, faultVars>>

\* The state machine throws and the transaction rolls back.
RejectTransition(w, locks) ==
    /\ MayEnterTx(w, locks)
    /\ ~NothingToDo(w)
    /\ ~CanTransition(order[req[w].o], req[w].to)
    /\ EndTx(w, "error")
    /\ UNCHANGED <<stockVars, orderVars, stripeVars, faultVars>>

ReturnEarly(w, locks) ==
    /\ MayEnterTx(w, locks)
    /\ NothingToDo(w)
    /\ MarkPayment(w, locks, IF req[w].op \in PaidOps THEN "captured" ELSE "failed")
    /\ EndTx(w, "ok")
    /\ UNCHANGED <<stockVars, order, record, outbox, stripeVars, faultVars>>

\* save(order) is an UPDATE by primary key: it waits for another transaction's
\* row lock, then writes the status this transaction decided on from its read.
UpdateOrderRow(w) ==
    /\ At(w, "read")
    /\ ~OrderLocked(req[w].o)
    /\ req' = [req EXCEPT ![w].pc = "locked", ![w].held = resv[req[w].o].status]
    /\ UNCHANGED <<stockVars, orderVars, stripeVars, faultVars>>

\* confirmReservationWithEm, releaseReservationWithEm: silent unless RESERVED.
SettleHeld(w, to) ==
    /\ IF req[w].held = "reserved" THEN Inv!SettleWrite(req[w].o, to)
                                   ELSE UNCHANGED <<item, listing, resv>>
    /\ UNCHANGED tx

AddToOutbox(o) == outbox' = [outbox EXCEPT ![o] = IF @ < 2 THEN @ + 1 ELSE @]

CommitPaid(w) ==
    LET o == req[w].o IN
    /\ At(w, "locked") /\ req[w].op \in PaidOps
    /\ order' = [order EXCEPT ![o] = "paid"]
    /\ MarkPayment(w, req[w].locks, "captured")
    /\ SettleHeld(w, "confirmed")
    /\ AddToOutbox(o)
    /\ EndTx(w, "ok")
    /\ UNCHANGED <<record, stripeVars, faultVars>>

CommitFailed(w) ==
    /\ At(w, "locked") /\ req[w].op = "failed"
    /\ order' = [order EXCEPT ![req[w].o] = "payment_failed"]
    /\ MarkPayment(w, req[w].locks, "failed")
    /\ SettleHeld(w, "released")
    /\ EndTx(w, "ok")
    /\ UNCHANGED <<record, outbox, stripeVars, faultVars>>

CommitCancelKeepsHold(w) ==     \* mutant: the reservation is not released
    /\ At(w, "locked") /\ req[w].op = "cancel"
    /\ order' = [order EXCEPT ![req[w].o] = "cancelled"]
    /\ Finish(w)
    /\ UNCHANGED <<stockVars, payment, record, outbox, stripeVars, faultVars>>

\* cancelOrder.  Its refund-and-clawback branch runs for a previous status paid
\* or completed, from which the table allows no cancellation: it is never taken.
CommitCancel(w) ==
    /\ At(w, "locked") /\ req[w].op = "cancel"
    /\ order' = [order EXCEPT ![req[w].o] = "cancelled"]
    /\ SettleHeld(w, "released")
    /\ Finish(w)
    /\ UNCHANGED <<payment, record, outbox, stripeVars, faultVars>>

\* adminUpdateOrderStatus: any legal status; cancelling also releases stock.
CommitAdmin(w) ==
    /\ At(w, "locked") /\ req[w].op = "admin"
    /\ order' = [order EXCEPT ![req[w].o] = req[w].to]
    /\ IF req[w].to = "cancelled" THEN SettleHeld(w, "released")
                                  ELSE UNCHANGED stockVars
    /\ Finish(w)
    /\ UNCHANGED <<payment, record, outbox, stripeVars, faultVars>>

(***************************************************************************)
(* Faults: the process dies (or the call to Stripe fails), or the database *)
(* aborts the transaction and the handler sees an exception.               *)
(***************************************************************************)
Crash(w) ==
    /\ ~Free(w)
    /\ crashes < MaxCrashes /\ crashes' = crashes + 1
    /\ Finish(w)
    /\ UNCHANGED <<stockVars, orderVars, stripeVars, aborts>>

AbortTx(w) ==
    /\ At(w, "read") \/ At(w, "locked")
    /\ aborts < MaxAborts /\ aborts' = aborts + 1
    /\ EndTx(w, "error")
    /\ UNCHANGED <<stockVars, orderVars, stripeVars, crashes>>

(***************************************************************************)
(* Reservation expiry                                                      *)
(***************************************************************************)
\* Mutant of Expiry: an order that awaits payment keeps its reservation.
ExpiryUnlessPending ==
    /\ \/ \E o \in Orders : Inv!TtlPasses(o)
       \/ \E j \in Jobs, o \in Orders :
             order[o] # "payment_pending" /\ Inv!BeginSettle(j, o, "expired")
       \/ \E j \in Jobs : Inv!CommitSettle(j)
    /\ UNCHANGED <<orderVars, stripeVars, req, faultVars>>

Expiry ==
    /\ \/ \E o \in Orders : Inv!TtlPasses(o)
       \/ \E j \in Jobs, o \in Orders : Inv!BeginSettle(j, o, "expired")
       \/ \E j \in Jobs : Inv!CommitSettle(j)
    /\ UNCHANGED <<orderVars, stripeVars, req, faultVars>>

OrderTransaction(w) ==
    \/ \E locks \in BOOLEAN :
          ReadOrder(w, locks) \/ RejectTransition(w, locks) \/ ReturnEarly(w, locks)
    \/ UpdateOrderRow(w)
    \/ CommitIntent(w) \/ CreateIntent(w) \/ SavePayment(w)
    \/ CommitPaid(w) \/ CommitFailed(w) \/ CommitCancel(w) \/ CommitAdmin(w)
    \/ RecordOutcome(w)

Next ==
    \/ \E w \in Workers, o \in Orders, l \in Listings : Checkout(w, o, l)
    \/ \E w \in IntentWorkers, o \in Orders, i \in Intents : StartIntent(w, o, i)
    \/ \E o \in Orders : ReturnExistingIntent(o)
    \/ \E i \in Intents : Charge(i) \/ Decline(i)
    \/ \E w \in Workers, e \in Event : Deliver(w, e)
    \/ \E e \in Event : DeliverProcessed(e)
    \/ \E w \in Workers, o \in Orders : StartVerify(w, o) \/ StartCancel(w, o)
    \/ \E w \in Workers, o \in Orders, to \in AdminTargets : StartAdminUpdate(w, o, to)
    \/ \E w \in Workers : OrderTransaction(w) \/ Crash(w) \/ AbortTx(w)
    \/ Expiry

Spec == Init /\ [][Next]_vars

(***************************************************************************)
(* Fairness.  A request in flight runs on, and row locks are granted in    *)
(* queue order, so that it is not overtaken for ever; Stripe delivers an   *)
(* event until it is answered; the expiry job is scheduled every 5         *)
(* minutes.  Nothing is assumed of buyers, cards or administrators.        *)
(***************************************************************************)
Fairness ==
    /\ \A w \in Workers : SF_vars(OrderTransaction(w))
    /\ \A e \in Event : SF_vars(e \notin acked /\ \E w \in Workers : Deliver(w, e))
    /\ WF_vars(Expiry)

FairSpec == Spec /\ Fairness

(***************************************************************************)
(* Properties                                                              *)
(***************************************************************************)
PaidStatuses ==
    {"paid", "packing", "shipped", "delivered", "completed", "refunded",
     "disputed", "chargeback"}

\* Goods are only owed for money received: an order is in a paid status, and a
\* commission event in the outbox, only if Stripe charged an intent of it.
PaidMeansCharged ==
    \A o \in Orders :
        (order[o] \in PaidStatuses \/ outbox[o] > 0) =>
            \E i \in Intents : intent[i].order = o /\ intent[i].status = "succeeded"

\* Commissions are calculated once per order: the webhook, its duplicates and
\* retries, and the verify endpoint together write one order.paid row for an
\* order that reached a paid status, and none for any other.
OnePaidEvent ==
    \A o \in Orders : outbox[o] = IF order[o] \in PaidStatuses THEN 1 ELSE 0

\* While an order is in status paid the payment row says captured.
PaidHasCapturedPayment ==
    \A o \in Orders : order[o] = "paid" => payment[o].status = "captured"

\* A cancelled or failed order holds no stock back.
NoHoldAfterEnd ==
    \A o \in Orders :
        order[o] \in {"cancelled", "payment_failed"} => resv[o].status # "reserved"

\* The buyer of an order is charged at most once.
SingleCharge ==
    \A o \in Orders :
        Cardinality({i \in Intents : intent[i].order = o /\ intent[i].status = "succeeded"}) <= 1

\* No more orders are paid than there are units in stock.
NoOversell == Cardinality({o \in Orders : order[o] = "paid"}) <= Units * Cardinality(Listings)

\* A cancelled order whose buyer was charged has been refunded.
CancelledIsRefunded ==
    \A o \in Orders :
        (order[o] = "cancelled" /\ payment[o].status # "none"
            /\ intent[payment[o].intent].status = "succeeded")
        => payment[o].status = "refunded"

\* The stored status moves along the state machine only: no transaction
\* overwrites a status it has not seen.
FollowsLifecycle == Lifecycle!Spec

\* A paid order is not cancelled: whether it may be is decided on what the cancelling
\* transaction has read, which its comments call consistent.
PaidIsNotCancelled ==
    [][\A o \in Orders : order[o] = "paid" => order'[o] # "cancelled"]_vars

\* A charge is never lost without a trace.  Once Stripe has charged the buyer
\* the order becomes paid, however often deliveries crash; only if the database
\* aborted a transaction, or an earlier attempt was declined, may it end as a
\* dedup row in error, which Stripe, having seen 200, does not deliver again.
ChargedBecomesPaid ==
    \A i \in Intents :
        intent[i].status = "succeeded" ~>
            \/ order[intent[i].order] \in PaidStatuses
            \/ /\ record[[kind |-> "succeeded", intent |-> i]] = "error"
               /\ aborts > 0 \/ [kind |-> "failed", intent |-> i] \in sent

\* No reservation holds stock for ever: it is confirmed, released or expired.
HoldEnds == \A o \in Orders : resv[o].status = "reserved" ~> resv[o].status # "reserved"
==============================================================================
