------------------------ MODULE OrderPayment_proofs --------------------------
(***************************************************************************)
(* What TLAPS proves of orders and payments, for every number of orders,   *)
(* intents and requests in flight, with cancellations, administrators,     *)
(* crashes and aborted transactions:                                       *)
(*                                                                         *)
(*   PaidOrdersCharged    Spec => []PaidMeansCharged                       *)
(*                        unless an administrator sets orders to paid      *)
(*   EndedOrdersHoldNothing   Spec => []NoHoldAfterEnd                     *)
(*                        unless one sets them to payment_failed           *)
(*                                                                         *)
(* and, where nobody cancels, administrators move no order and one payment *)
(* intent is requested at a time (WebhooksOnly):                           *)
(*                                                                         *)
(*   OnePaidRow           Spec => []OnePaidEvent                           *)
(*   PaidIsCaptured       Spec => []PaidHasCapturedPayment                 *)
(*   ImplementsLifecycle  Spec => FollowsLifecycle                         *)
(***************************************************************************)
EXTENDS OrderPayment, TLAPS

\* adminUpdateOrderStatus accepts paid like any status the table allows.
NoManualPayment == "paid" \notin AdminTargets

(***************************************************************************)
(* The inductive invariant                                                 *)
(***************************************************************************)
Busy(w) == req[w] # NoReq
Charged(o) == \E i \in Intents : intent[i].order = o /\ intent[i].status = "succeeded"
ChargedAfter(o) == \E i \in Intents : intent'[i].order = o /\ intent'[i].status = "succeeded"

RowTypes ==
    /\ resv \in [Orders -> Inv!Reservation]
    /\ order \in [Orders -> OrderStatus \union {"absent"}]
    /\ payment \in [Orders -> Payment]
    /\ intent \in [Intents -> Intent]
    /\ sent \subseteq Event
    /\ outbox \in [Orders -> 0..2]
    /\ req \in [Workers -> {NoReq} \union Request]

\* Stripe reports a success only of an intent that has succeeded.
SuccessReported ==
    \A e \in sent : e.kind = "succeeded" => intent[e.intent].status = "succeeded"

\* A payment row, and a request that is about to write one, names an intent of
\* its own order.
PaymentsBelong ==
    \A o \in Orders : payment[o] # NoPayment => intent[payment[o].intent].order = o

IntentsBelong ==
    \A w \in Workers :
        Busy(w) =>
            /\ req[w].op = "intent" =>
                  req[w].i \in Intents /\ intent[req[w].i].order = req[w].o
            /\ req[w].pc \in {"moved", "created"} => req[w].op = "intent"

\* A webhook names an intent; a verification, and a transaction that updates the
\* payment row first, have found that row.
PaymentsExist ==
    \A w \in Workers :
        Busy(w) =>
            /\ req[w].op \in WebhookOps => req[w].i \in Intents
            /\ \/ req[w].op = "verify"
               \/ req[w].pc \in {"read", "locked"} /\ req[w].locks
               => payment[req[w].o] # NoPayment

\* A webhook of success and a verification run on behalf of a charged order.
PaidOpsCharged ==
    \A w \in Workers : Busy(w) /\ req[w].op \in PaidOps => Charged(req[w].o)

\* An administrator's move into a paid status was decided on a paid status.
AdminCharged ==
    \A w \in Workers :
        Busy(w) /\ req[w].op = "admin" =>
            /\ req[w].to \in AdminTargets
            /\ req[w].pc \in {"read", "locked"} /\ req[w].to \in PaidStatuses
                  => Charged(req[w].o)

ChargeInv ==
    /\ RowTypes /\ SuccessReported /\ PaymentsBelong /\ IntentsBelong
    /\ PaymentsExist /\ PaidOpsCharged /\ AdminCharged
    /\ PaidMeansCharged

(***************************************************************************)
(* What any step does to a request and to the rows                         *)
(***************************************************************************)
\* A request keeps what it was accepted with while its pc moves on.
SameRequest(w) ==
    /\ Busy(w) /\ Busy(w)'
    /\ req'[w].op = req[w].op /\ req'[w].o = req[w].o
    /\ req'[w].i = req[w].i /\ req'[w].to = req[w].to

MovesOn(w) ==
    /\ SameRequest(w)
    /\ \/ req'[w].pc = req[w].pc /\ req'[w].locks = req[w].locks
       \/ /\ req'[w].pc = "read" /\ CanTransition(order[req[w].o], req[w].to)
          /\ req'[w].locks => payment[req[w].o] # NoPayment
       \/ req'[w].pc = "locked" /\ req[w].pc = "read" /\ req'[w].locks = req[w].locks
       \/ req'[w].pc = "moved" /\ req[w].op = "intent"
       \/ req'[w].pc = "created" /\ req[w].pc = "moved"
       \/ req'[w].pc \in {"ok", "error"}

Accepted(w) ==
    /\ req'[w].pc = "start"
    /\ \/ /\ req'[w].op = "intent"
          /\ req'[w].i \in Intents /\ intent[req'[w].i].order = req'[w].o
       \/ /\ req'[w].op \in WebhookOps
          /\ [kind |-> req'[w].op, intent |-> req'[w].i] \in sent
          /\ req'[w].i \in Intents /\ intent[req'[w].i].order = req'[w].o
       \/ /\ req'[w].op = "verify"
          /\ payment[req'[w].o] # NoPayment
          /\ intent[payment[req'[w].o].intent].status = "succeeded"
       \/ req'[w].op = "cancel"
       \/ req'[w].op = "admin" /\ req'[w].to \in AdminTargets

RequestStep(w) == req'[w] = NoReq \/ MovesOn(w) \/ Accepted(w)

IntentStep(i) ==
    /\ intent'[i].order = intent[i].order
    /\ intent[i].status = "succeeded" => intent'[i].status = "succeeded"

SentStep ==
    \A e \in sent' :
        e \in sent \/ e.kind = "failed" \/ intent'[e.intent].status = "succeeded"

PaymentStep(o) ==
    /\ payment[o] # NoPayment => payment'[o] # NoPayment
    /\ payment'[o] # NoPayment =>
          \/ payment[o] # NoPayment /\ payment'[o].intent = payment[o].intent
          \/ \E w \in Workers : /\ Busy(w) /\ req[w].pc = "created" /\ req[w].o = o
                                /\ payment'[o].intent = req[w].i

OrderStep(o) ==
    \/ order'[o] = order[o] /\ outbox'[o] = outbox[o]
    \/ order'[o] \notin PaidStatuses /\ outbox'[o] = outbox[o]
    \/ \E w \in Workers : Busy(w) /\ req[w].op \in PaidOps /\ req[w].o = o
    \/ \E w \in Workers : /\ Busy(w) /\ req[w].op = "admin" /\ req[w].pc = "locked"
                          /\ req[w].o = o /\ order'[o] = req[w].to
                          /\ outbox'[o] = outbox[o]

RowSteps ==
    /\ \A i \in Intents : IntentStep(i)
    /\ SentStep
    /\ \A o \in Orders : PaymentStep(o) /\ OrderStep(o)

Steps == RowTypes' /\ RowSteps /\ \A w \in Workers : RequestStep(w)

(***************************************************************************)
(* The steps preserve the invariant                                        *)
(***************************************************************************)
\* Every status that is paid for, except paid itself, is entered from a status
\* that is paid for.
LEMMA PaidOnlyFromPaid ==
    ASSUME NEW from, NEW to, CanTransition(from, to), to \in PaidStatuses, to # "paid"
    PROVE  from \in PaidStatuses
BY DEF CanTransition, Transitions, PaidStatuses, OrderStatus

\* A charge is never undone.
LEMMA ChargedStays ==
    ASSUME RowSteps, NEW o, Charged(o)
    PROVE  ChargedAfter(o)
BY DEF RowSteps, IntentStep, Charged, ChargedAfter

\* The requests stay well-formed, whoever may do what.
LEMMA IntentsBelongKept ==
    ASSUME IntentsBelong, Steps
    PROVE  IntentsBelong'
<1> SUFFICES ASSUME NEW w \in Workers, Busy(w)'
             PROVE  /\ req'[w].op = "intent" =>
                          req'[w].i \in Intents /\ intent'[req'[w].i].order = req'[w].o
                    /\ req'[w].pc \in {"moved", "created"} => req'[w].op = "intent"
  BY DEF IntentsBelong
<1>1. CASE MovesOn(w)
  BY <1>1 DEF MovesOn, SameRequest, IntentsBelong, Steps, RowSteps, IntentStep
<1>2. CASE Accepted(w)
  BY <1>2 DEF Accepted, Steps, RowSteps, IntentStep, WebhookOps
<1> QED
  BY <1>1, <1>2 DEF Steps, RequestStep, Busy, NoReq

LEMMA PaymentsExistKept ==
    ASSUME PaymentsExist, Steps
    PROVE  PaymentsExist'
<1> SUFFICES ASSUME NEW w \in Workers, Busy(w)'
             PROVE  /\ req'[w].op \in WebhookOps => req'[w].i \in Intents
                    /\ \/ req'[w].op = "verify"
                       \/ req'[w].pc \in {"read", "locked"} /\ req'[w].locks
                       => payment'[req'[w].o] # NoPayment
  BY DEF PaymentsExist, Busy, NoPayment
<1>1. req'[w].o \in Orders
  BY DEF Steps, RowTypes, Busy, Request
<1>2. payment[req'[w].o] # NoPayment => payment'[req'[w].o] # NoPayment
  BY <1>1 DEF Steps, RowSteps, PaymentStep
<1>3. CASE MovesOn(w)
  BY <1>2, <1>3 DEF MovesOn, SameRequest, PaymentsExist
<1>4. CASE Accepted(w)
  BY <1>2, <1>4 DEF Accepted, WebhookOps
<1> QED
  BY <1>3, <1>4 DEF Steps, RequestStep, Busy, NoReq

LEMMA InvariantKept ==
    ASSUME NoManualPayment, ChargeInv, Steps
    PROVE  ChargeInv'
<1>1. SuccessReported'
  <2> SUFFICES ASSUME NEW e \in sent', e.kind = "succeeded"
               PROVE  intent'[e.intent].status = "succeeded"
    BY DEF SuccessReported
  <2>1. CASE e \in sent
    <3>1. intent[e.intent].status = "succeeded"
      BY <2>1 DEF ChargeInv, SuccessReported
    <3>2. e.intent \in Intents
      BY <2>1 DEF ChargeInv, RowTypes, Event
    <3> QED
      BY <3>1, <3>2 DEF Steps, RowSteps, IntentStep
  <2> QED
    BY <2>1 DEF Steps, RowSteps, SentStep
<1>2. PaymentsBelong'
  <2> SUFFICES ASSUME NEW o \in Orders, payment'[o] # NoPayment
               PROVE  intent'[payment'[o].intent].order = o
    BY DEF PaymentsBelong, NoPayment
  <2>1. payment'[o].intent \in Intents
    BY DEF Steps, RowTypes, Payment
  <2>2. intent[payment'[o].intent].order = o
    BY DEF Steps, RowSteps, PaymentStep, ChargeInv, PaymentsBelong, IntentsBelong, Busy
  <2> QED
    BY <2>1, <2>2 DEF Steps, RowSteps, IntentStep
<1>3. IntentsBelong'
  BY IntentsBelongKept DEF ChargeInv
<1>4. PaidOpsCharged'
  <2> SUFFICES ASSUME NEW w \in Workers, Busy(w)', req'[w].op \in PaidOps
               PROVE  ChargedAfter(req'[w].o)
    BY DEF PaidOpsCharged, Busy, Charged, ChargedAfter
  <2>1. CASE MovesOn(w)
    BY <2>1, ChargedStays DEF MovesOn, SameRequest, ChargeInv, PaidOpsCharged, Steps
  <2>2. CASE Accepted(w)
    <3>1. Charged(req'[w].o)
      <4>1. CASE req'[w].op = "succeeded"
        BY <2>2, <4>1
        DEF Accepted, WebhookOps, ChargeInv, SuccessReported, Charged
      <4>2. CASE req'[w].op = "verify"
        <5>1. req'[w].o \in Orders
          BY DEF Steps, RowTypes, Busy, Request
        <5>2. payment[req'[w].o] # NoPayment
              /\ intent[payment[req'[w].o].intent].status = "succeeded"
          BY <2>2, <4>2 DEF Accepted, WebhookOps
        <5>3. payment[req'[w].o].intent \in Intents
          BY <5>1, <5>2 DEF ChargeInv, RowTypes, Payment
        <5> QED
          BY <5>1, <5>2, <5>3 DEF ChargeInv, PaymentsBelong, Charged
      <4> QED
        BY <4>1, <4>2 DEF PaidOps
    <3> QED
      BY <3>1, ChargedStays DEF Steps
  <2> QED
    BY <2>1, <2>2 DEF Steps, RequestStep, Busy, NoReq
<1>5. AdminCharged'
  <2> SUFFICES ASSUME NEW w \in Workers, Busy(w)', req'[w].op = "admin"
               PROVE  /\ req'[w].to \in AdminTargets
                      /\ req'[w].pc \in {"read", "locked"} /\ req'[w].to \in PaidStatuses
                            => ChargedAfter(req'[w].o)
    BY DEF AdminCharged, Busy, Charged, ChargedAfter
  <2>1. CASE MovesOn(w)
    <3>1. req[w].to \in AdminTargets
      BY <2>1 DEF MovesOn, SameRequest, ChargeInv, AdminCharged
    <3>2. ASSUME req'[w].pc \in {"read", "locked"}, req[w].to \in PaidStatuses
          PROVE  Charged(req[w].o)
      <4>1. CASE req[w].pc \in {"read", "locked"}
        BY <2>1, <3>2, <4>1 DEF MovesOn, SameRequest, ChargeInv, AdminCharged
      <4>2. CASE CanTransition(order[req[w].o], req[w].to)
        <5>1. order[req[w].o] \in PaidStatuses
          BY <3>1, <3>2, <4>2, PaidOnlyFromPaid DEF NoManualPayment
        <5>2. req[w].o \in Orders
          BY <2>1 DEF MovesOn, SameRequest, Busy, ChargeInv, RowTypes, Request
        <5> QED
          BY <5>1, <5>2 DEF ChargeInv, PaidMeansCharged, Charged
      <4> QED
        BY <2>1, <3>2, <4>1, <4>2 DEF MovesOn
    <3> QED
      BY <2>1, <3>1, <3>2, ChargedStays DEF MovesOn, SameRequest, Steps
  <2>2. CASE Accepted(w)
    BY <2>2 DEF Accepted, WebhookOps
  <2> QED
    BY <2>1, <2>2 DEF Steps, RequestStep, Busy, NoReq
<1>6. PaidMeansCharged'
  <2> SUFFICES ASSUME NEW o \in Orders, order'[o] \in PaidStatuses \/ outbox'[o] > 0
               PROVE  ChargedAfter(o)
    BY DEF PaidMeansCharged, ChargedAfter
  <2>1. Charged(o)
    <3>1. CASE order'[o] = order[o] /\ outbox'[o] = outbox[o]
      BY <3>1 DEF ChargeInv, PaidMeansCharged, Charged
    <3>2. CASE order'[o] \notin PaidStatuses /\ outbox'[o] = outbox[o]
      BY <3>2 DEF ChargeInv, PaidMeansCharged, Charged
    <3>3. CASE \E w \in Workers : Busy(w) /\ req[w].op \in PaidOps /\ req[w].o = o
      BY <3>3 DEF ChargeInv, PaidOpsCharged
    <3>4. CASE \E w \in Workers : /\ Busy(w) /\ req[w].op = "admin" /\ req[w].pc = "locked"
                                  /\ req[w].o = o /\ order'[o] = req[w].to
                                  /\ outbox'[o] = outbox[o]
      <4>1. CASE order'[o] \in PaidStatuses
        BY <3>4, <4>1 DEF ChargeInv, AdminCharged
      <4>2. CASE outbox[o] > 0
        BY <4>2 DEF ChargeInv, PaidMeansCharged, Charged
      <4> QED
        BY <3>4, <4>1, <4>2
    <3> QED
      BY <3>1, <3>2, <3>3, <3>4 DEF Steps, RowSteps, OrderStep
  <2> QED
    BY <2>1, ChargedStays DEF Steps
<1>7. PaymentsExist'
  BY PaymentsExistKept DEF ChargeInv
<1> QED
  BY <1>1, <1>2, <1>3, <1>4, <1>5, <1>6, <1>7 DEF ChargeInv, Steps

(***************************************************************************)
(* How the actions change the table of requests                            *)
(***************************************************************************)
Pcs == {"start", "read", "locked", "moved", "created", "ok", "error"}
ReqTypes == req \in [Workers -> {NoReq} \union Request]
OthersStay(w) == \A v \in Workers \ {w} : req'[v] = req[v]

\* A request that no action touches takes a (stuttering) request step.
LEMMA UntouchedRequest ==
    ASSUME NEW w \in Workers, req'[w] = req[w]
    PROVE  RequestStep(w)
BY DEF RequestStep, MovesOn, SameRequest, Busy

LEMMA RequestMembers ==
    ASSUME NEW r \in Request
    PROVE  /\ r.op \in Ops /\ r.pc \in Pcs /\ r.o \in Orders
           /\ r.i \in Intents \union {NoIntent} /\ r.to \in OrderStatus
           /\ r # NoReq
BY DEF Request, Pcs, NoReq, Ops, PaidOps, WebhookOps

\* The fields of a request that change while it runs.
LEMMA SetPc ==
    ASSUME NEW r \in Request, NEW pc \in Pcs
    PROVE  /\ [r EXCEPT !.pc = pc] \in Request
           /\ [r EXCEPT !.pc = pc].pc = pc
           /\ \A f \in {"op", "o", "i", "to", "locks"} : [r EXCEPT !.pc = pc][f] = r[f]
BY DEF Request, Pcs

LEMMA SetLocks ==
    ASSUME NEW r \in Request, NEW locks \in BOOLEAN
    PROVE  /\ [r EXCEPT !.locks = locks] \in Request
           /\ [r EXCEPT !.locks = locks].locks = locks
           /\ \A f \in {"op", "o", "i", "to", "pc"} : [r EXCEPT !.locks = locks][f] = r[f]
BY DEF Request

LEMMA SetHeld ==
    ASSUME NEW r \in Request, NEW held \in Inv!ReservationStatus
    PROVE  /\ [r EXCEPT !.held = held] \in Request
           /\ [r EXCEPT !.held = held].held = held
           /\ \A f \in {"op", "o", "i", "to", "pc", "locks"} : [r EXCEPT !.held = held][f] = r[f]
BY DEF Request

\* Goto moves the pc of one request and nothing else.
LEMMA Advances ==
    ASSUME ReqTypes, NEW w \in Workers, Busy(w), NEW pc \in Pcs, Goto(w, pc)
    PROVE  ReqTypes' /\ SameRequest(w) /\ req'[w].pc = pc /\ OthersStay(w)
<1>1. req[w] \in Request
  BY DEF ReqTypes, Busy
<1>2. req'[w] = [req[w] EXCEPT !.pc = pc] /\ OthersStay(w)
  BY DEF ReqTypes, Goto, OthersStay
<1>3. req'[w] \in Request
  BY <1>1, <1>2 DEF Request, Pcs
<1>4. ReqTypes'
  BY <1>3 DEF ReqTypes, Goto
<1>5. SameRequest(w) /\ req'[w].pc = pc
  BY <1>1, <1>2, <1>3, RequestMembers DEF SameRequest, Busy, Request
<1> QED
  BY <1>2, <1>4, <1>5

\* Finish empties one slot.
LEMMA Frees ==
    ASSUME ReqTypes, NEW w \in Workers, Finish(w)
    PROVE  ReqTypes' /\ req'[w] = NoReq /\ OthersStay(w)
BY DEF ReqTypes, Finish, OthersStay

\* Accept fills a free slot.
LEMMA Accepts ==
    ASSUME ReqTypes, NEW w \in Workers, NEW op \in Ops, NEW o \in Orders,
           NEW i \in Intents \union {NoIntent}, NEW to \in OrderStatus,
           Accept(w, op, o, i, to)
    PROVE  /\ ReqTypes' /\ OthersStay(w)
           /\ req'[w].op = op /\ req'[w].pc = "start" /\ req'[w].o = o
           /\ req'[w].i = i /\ req'[w].to = to
<1> DEFINE r == [op |-> op, pc |-> "start", o |-> o, i |-> i,
                 to |-> to, locks |-> FALSE, held |-> "absent"]
<1>1. r \in Request
  BY DEF Request, Inv!ReservationStatus
<1>2. req' = [req EXCEPT ![w] = r]
  BY DEF Accept
<1>3. r.op = op /\ r.pc = "start" /\ r.o = o /\ r.i = i /\ r.to = to
  OBVIOUS
<1> HIDE DEF r
<1> QED
  BY <1>1, <1>2, <1>3 DEF ReqTypes, OthersStay

\* A transaction that ends: the request is done, or a webhook records how.
LEMMA Ends ==
    ASSUME ReqTypes, NEW w \in Workers, Busy(w), NEW outcome \in {"ok", "error"},
           EndTx(w, outcome)
    PROVE  ReqTypes' /\ RequestStep(w) /\ OthersStay(w)
<1>1. CASE Goto(w, outcome)
  BY <1>1, Advances DEF Pcs, RequestStep, MovesOn
<1>2. CASE Finish(w)
  BY <1>2, Frees DEF RequestStep
<1> QED
  BY <1>1, <1>2 DEF EndTx

\* The two statements of the order transaction that note what they have read.
LEMMA Reads ==
    ASSUME ReqTypes, NEW w \in Workers, Busy(w), NEW locks \in BOOLEAN,
           req' = [req EXCEPT ![w].pc = "read", ![w].locks = locks]
    PROVE  /\ ReqTypes' /\ SameRequest(w) /\ OthersStay(w)
           /\ req'[w].pc = "read" /\ req'[w].locks = locks
<1>1. req[w] \in Request
  BY DEF ReqTypes, Busy
<1> DEFINE r == [req[w] EXCEPT !.pc = "read"]
<1>2. req'[w] = [r EXCEPT !.locks = locks] /\ OthersStay(w)
  BY DEF ReqTypes, OthersStay
<1>3. r \in Request /\ r.pc = "read" /\ \A g \in {"op", "o", "i", "to"} : r[g] = req[w][g]
  <2>1. /\ r \in Request /\ r.pc = "read"
        /\ \A g \in {"op", "o", "i", "to", "locks"} : r[g] = req[w][g]
    BY <1>1, SetPc DEF Pcs
  <2> QED
    BY <2>1
<1> HIDE DEF r
<1>6. /\ req'[w] \in Request /\ req'[w].locks = locks
      /\ \A g \in {"op", "o", "i", "to", "pc"} : req'[w][g] = r[g]
  <2>1. /\ [r EXCEPT !.locks = locks] \in Request /\ [r EXCEPT !.locks = locks].locks = locks
        /\ \A g \in {"op", "o", "i", "to", "pc"} : [r EXCEPT !.locks = locks][g] = r[g]
    BY <1>3, SetLocks
  <2> QED
    BY <1>2, <2>1
<1>4. ReqTypes'
  BY <1>6 DEF ReqTypes
<1>5. SameRequest(w) /\ req'[w].pc = "read"
  BY <1>3, <1>6, RequestMembers DEF SameRequest, Busy
<1> QED
  BY <1>2, <1>4, <1>5, <1>6

LEMMA Locks ==
    ASSUME ReqTypes, NEW w \in Workers, Busy(w), NEW held \in Inv!ReservationStatus,
           req' = [req EXCEPT ![w].pc = "locked", ![w].held = held]
    PROVE  /\ ReqTypes' /\ SameRequest(w) /\ OthersStay(w)
           /\ req'[w].pc = "locked" /\ req'[w].locks = req[w].locks
           /\ req'[w].held = held
<1>1. req[w] \in Request
  BY DEF ReqTypes, Busy
<1> DEFINE r == [req[w] EXCEPT !.pc = "locked"]
<1>2. req'[w] = [r EXCEPT !.held = held] /\ OthersStay(w)
  BY DEF ReqTypes, OthersStay
<1>3. r \in Request /\ r.pc = "locked" /\ \A g \in {"op", "o", "i", "to", "locks"} : r[g] = req[w][g]
  BY <1>1, SetPc DEF Pcs
<1> HIDE DEF r
<1>6. /\ req'[w] \in Request /\ req'[w].held = held
      /\ \A g \in {"op", "o", "i", "to", "pc", "locks"} : req'[w][g] = r[g]
  <2>1. /\ [r EXCEPT !.held = held] \in Request /\ [r EXCEPT !.held = held].held = held
        /\ \A g \in {"op", "o", "i", "to", "pc", "locks"} : [r EXCEPT !.held = held][g] = r[g]
    BY <1>3, SetHeld
  <2> QED
    BY <1>2, <2>1
<1>4. ReqTypes'
  BY <1>6 DEF ReqTypes
<1>5. SameRequest(w) /\ req'[w].pc = "locked"
  BY <1>3, <1>6, RequestMembers DEF SameRequest, Busy
<1> QED
  BY <1>2, <1>3, <1>4, <1>5, <1>6

(***************************************************************************)
(* Every action takes such steps                                           *)
(***************************************************************************)
\* The tables besides req and resv.
TableTypes ==
    /\ order \in [Orders -> OrderStatus \union {"absent"}]
    /\ payment \in [Orders -> Payment]
    /\ intent \in [Intents -> Intent]
    /\ sent \subseteq Event
    /\ outbox \in [Orders -> 0..2]

LEMMA UntouchedTables ==
    ASSUME TableTypes, UNCHANGED <<order, payment, intent, sent, outbox>>
    PROVE  TableTypes' /\ RowSteps
BY DEF TableTypes, RowSteps, IntentStep, SentStep, PaymentStep, OrderStep

\* The inventory engine keeps the reservations well-formed, whatever settles one.
ResvTypes == resv \in [Orders -> Inv!Reservation]

LEMMA SettledResv ==
    ASSUME ResvTypes, NEW o, NEW to \in Inv!Settled, Inv!SettleWrite(o, to)
    PROVE  ResvTypes'
BY DEF ResvTypes, Inv!SettleWrite, Inv!Reservation, Inv!ReservationStatus, Inv!Settled

LEMMA HeldResv ==
    ASSUME ResvTypes, NEW w \in Workers, NEW to \in Inv!Settled, SettleHeld(w, to)
    PROVE  ResvTypes'
BY SettledResv DEF SettleHeld, ResvTypes

LEMMA ExpiryResv ==
    ASSUME ResvTypes, Expiry
    PROVE  ResvTypes'
<1>1. CASE \E o \in Orders : Inv!TtlPasses(o)
  BY <1>1 DEF ResvTypes, Inv!TtlPasses, Inv!Reservation
<1>2. CASE \E j \in Jobs, o \in Orders : Inv!BeginSettle(j, o, "expired")
  BY <1>2 DEF ResvTypes, Inv!BeginSettle
<1>3. CASE \E j \in Jobs : Inv!CommitSettle(j)
  BY <1>3, SettledResv DEF Inv!CommitSettle
<1> QED
  BY <1>1, <1>2, <1>3 DEF Expiry

\* An update of the payment row keeps its intent.
LEMMA MarkedPayment ==
    ASSUME TableTypes, NEW w \in Workers, req[w].o \in Orders, NEW locks \in BOOLEAN,
           locks => payment[req[w].o] # NoPayment,
           NEW status \in {"captured", "failed"}, MarkPayment(w, locks, status)
    PROVE  /\ payment' \in [Orders -> Payment]
           /\ \A o \in Orders : PaymentStep(o)
<1> DEFINE o == req[w].o
<1>1. CASE ~locks
  BY <1>1 DEF TableTypes, MarkPayment, PaymentStep
<1>2. CASE locks
  <2>1. payment' = [payment EXCEPT ![o] = [payment[o] EXCEPT !.status = status]]
    BY <1>2 DEF MarkPayment
  <2>2. payment[o] \in [status: {"pending", "captured", "failed", "refunded"}, intent: Intents]
    BY <1>2 DEF TableTypes, Payment
  <2>3. /\ [payment[o] EXCEPT !.status = status] \in Payment
        /\ [payment[o] EXCEPT !.status = status].intent = payment[o].intent
        /\ [payment[o] EXCEPT !.status = status] # NoPayment
    BY <2>2 DEF Payment, NoPayment
  <2> HIDE DEF o
  <2> QED
    BY <1>2, <2>1, <2>3 DEF TableTypes, PaymentStep, o
<1> QED
  BY <1>1, <1>2

\* Handlers that only move a request on.
LEMMA RequestOnly ==
    ASSUME RowTypes, NEW w \in Workers, ReqTypes', RequestStep(w), OthersStay(w),
           UNCHANGED <<resv, order, payment, intent, sent, outbox>>
    PROVE  Steps
<1>1. \A v \in Workers : RequestStep(v)
  BY UntouchedRequest DEF OthersStay
<1>2. TableTypes' /\ RowSteps
  BY UntouchedTables DEF RowTypes, TableTypes
<1> QED
  BY <1>1, <1>2 DEF Steps, RowTypes, TableTypes, ReqTypes

\* The handlers that accept a request.
LEMMA AcceptingSteps ==
    ASSUME RowTypes, NEW w \in Workers,
           \/ \E o \in Orders, i \in Intents : StartIntent(w, o, i)
           \/ \E e \in Event : Deliver(w, e)
           \/ \E o \in Orders : StartVerify(w, o) \/ StartCancel(w, o)
           \/ \E o \in Orders, to \in AdminTargets : StartAdminUpdate(w, o, to)
    PROVE  Steps
<1> USE DEF RowTypes, ReqTypes
<1>1. ASSUME NEW o \in Orders, NEW i \in Intents, StartIntent(w, o, i)
      PROVE  Steps
  <2>1. Accept(w, "intent", o, i, "payment_pending") /\ intent[i].order = o
    BY <1>1 DEF StartIntent
  <2>2. "intent" \in Ops /\ "payment_pending" \in OrderStatus
    BY DEF Ops, OrderStatus
  <2>3. ReqTypes' /\ OthersStay(w) /\ Accepted(w)
    BY <2>1, <2>2, Accepts DEF Accepted
  <2> QED
    BY <1>1, <2>3, RequestOnly
    DEF StartIntent, stockVars, orderVars, stripeVars, RequestStep
<1>2. ASSUME NEW e \in Event, Deliver(w, e)
      PROVE  Steps
  <2> DEFINE to == IF e.kind = "succeeded" THEN "paid" ELSE "payment_failed"
  <2>1. /\ Accept(w, e.kind, intent[e.intent].order, e.intent, to)
        /\ e \in sent
    BY <1>2 DEF Deliver
  <2>2. /\ e.kind \in WebhookOps /\ e.kind \in Ops /\ to \in OrderStatus
        /\ e.intent \in Intents /\ intent[e.intent].order \in Orders
        /\ e = [kind |-> e.kind, intent |-> e.intent]
    BY DEF Event, Ops, WebhookOps, OrderStatus, Intent
  <2> HIDE DEF to
  <2>3. ReqTypes' /\ OthersStay(w) /\ Accepted(w)
    BY <2>1, <2>2, Accepts DEF Accepted
  <2> QED
    BY <1>2, <2>3, RequestOnly
    DEF Deliver, stockVars, stripeVars, RequestStep
<1>3. ASSUME NEW o \in Orders, StartVerify(w, o)
      PROVE  Steps
  <2>1. /\ Accept(w, "verify", o, payment[o].intent, "paid")
        /\ payment[o] # NoPayment /\ intent[payment[o].intent].status = "succeeded"
    BY <1>3 DEF StartVerify
  <2>2. "verify" \in Ops /\ "paid" \in OrderStatus /\ payment[o].intent \in Intents
    BY <2>1 DEF Ops, PaidOps, OrderStatus, Payment
  <2>3. ReqTypes' /\ OthersStay(w) /\ Accepted(w)
    BY <2>1, <2>2, Accepts DEF Accepted
  <2> QED
    BY <1>3, <2>3, RequestOnly
    DEF StartVerify, stockVars, orderVars, stripeVars, RequestStep
<1>4. ASSUME NEW o \in Orders, StartCancel(w, o)
      PROVE  Steps
  <2>1. Accept(w, "cancel", o, NoIntent, "cancelled")
    BY <1>4 DEF StartCancel
  <2>2. "cancel" \in Ops /\ "cancelled" \in OrderStatus
    BY DEF Ops, OrderStatus
  <2>3. ReqTypes' /\ OthersStay(w) /\ Accepted(w)
    BY <2>1, <2>2, Accepts DEF Accepted
  <2> QED
    BY <1>4, <2>3, RequestOnly
    DEF StartCancel, stockVars, orderVars, stripeVars, RequestStep
<1>5. ASSUME NEW o \in Orders, NEW to \in AdminTargets, StartAdminUpdate(w, o, to)
      PROVE  Steps
  <2>1. Accept(w, "admin", o, NoIntent, to)
    BY <1>5 DEF StartAdminUpdate
  <2>2. "admin" \in Ops /\ to \in OrderStatus
    BY ConstantsAssumption DEF Ops
  <2>3. /\ ReqTypes' /\ OthersStay(w)
        /\ req'[w].op = "admin" /\ req'[w].pc = "start" /\ req'[w].to = to
    BY <2>1, <2>2, Accepts
  <2>4. Accepted(w)
    BY <2>3 DEF Accepted
  <2> QED
    BY <1>5, <2>3, <2>4, RequestOnly
    DEF StartAdminUpdate, stockVars, orderVars, stripeVars, RequestStep
<1> QED
  BY <1>1, <1>2, <1>3, <1>4, <1>5

\* A transaction that updates the payment row has found it.
LEMMA LocksExisting ==
    ASSUME RowTypes, PaymentsExist, NEW w \in Workers, NEW locks \in BOOLEAN,
           MayEnterTx(w, locks)
    PROVE  /\ Busy(w) /\ req[w].o \in Orders
           /\ locks => payment[req[w].o] # NoPayment
<1>1. Busy(w) /\ req[w] \in Request
  BY DEF RowTypes, MayEnterTx, At, Free, Busy
<1>2. ASSUME locks PROVE payment[req[w].o] # NoPayment
  <2>1. CASE req[w].op \in WebhookOps
    <3>1. payment[req[w].o].intent = req[w].i /\ req[w].i \in Intents
      BY <1>1, <1>2, <2>1
      DEF MayEnterTx, UpdatesPayment, FindsPayment, PaymentsExist, WebhookOps
    <3> QED
      BY <3>1, ConstantsAssumption DEF NoPayment
  <2>2. CASE req[w].op = "verify"
    BY <1>1, <2>2 DEF PaymentsExist
  <2>3. CASE req[w].op \notin WebhookOps /\ req[w].op # "verify"
    BY <1>2, <2>3 DEF MayEnterTx, UpdatesPayment
  <2> QED
    BY <2>1, <2>2, <2>3
<1> QED
  BY <1>1, <1>2, RequestMembers

\* The read of the order, its early returns and the write of the order row.
LEMMA ReadingSteps ==
    ASSUME RowTypes, PaymentsExist, NEW w \in Workers,
           \/ \E locks \in BOOLEAN :
                 ReadOrder(w, locks) \/ RejectTransition(w, locks) \/ ReturnEarly(w, locks)
           \/ UpdateOrderRow(w)
    PROVE  Steps
<1>0. ReqTypes /\ TableTypes
  BY DEF RowTypes, ReqTypes, TableTypes
<1>1. ASSUME NEW locks \in BOOLEAN, ReadOrder(w, locks)
      PROVE  Steps
  <2>1. Busy(w) /\ (locks => payment[req[w].o] # NoPayment)
    BY <1>1, LocksExisting DEF ReadOrder
  <2>2. req' = [req EXCEPT ![w].pc = "read", ![w].locks = locks]
    BY <1>1 DEF ReadOrder
  <2>3. /\ ReqTypes' /\ SameRequest(w) /\ OthersStay(w)
        /\ req'[w].pc = "read" /\ req'[w].locks = locks
    BY <1>0, <2>1, <2>2, Reads
  <2>4. RequestStep(w)
    BY <1>1, <2>1, <2>3 DEF ReadOrder, RequestStep, MovesOn
  <2> QED
    BY <1>1, <2>3, <2>4, RequestOnly DEF ReadOrder, stockVars, orderVars, stripeVars
<1>2. ASSUME NEW locks \in BOOLEAN, RejectTransition(w, locks)
      PROVE  Steps
  <2>1. Busy(w)
    BY <1>2, LocksExisting DEF RejectTransition
  <2>2. ReqTypes' /\ RequestStep(w) /\ OthersStay(w)
    BY <1>0, <1>2, <2>1, Ends DEF RejectTransition
  <2> QED
    BY <1>2, <2>2, RequestOnly DEF RejectTransition, stockVars, orderVars, stripeVars
<1>3. ASSUME NEW locks \in BOOLEAN, ReturnEarly(w, locks)
      PROVE  Steps
  <2>1. Busy(w) /\ req[w].o \in Orders /\ (locks => payment[req[w].o] # NoPayment)
    BY <1>3, LocksExisting DEF ReturnEarly
  <2>2. ReqTypes' /\ RequestStep(w) /\ OthersStay(w)
    BY <1>0, <1>3, <2>1, Ends DEF ReturnEarly
  <2>3. payment' \in [Orders -> Payment] /\ \A o \in Orders : PaymentStep(o)
    <3>1. MarkPayment(w, locks, "captured") \/ MarkPayment(w, locks, "failed")
      BY <1>3 DEF ReturnEarly
    <3> QED
      BY <1>0, <2>1, <3>1, MarkedPayment
  <2>4. UNCHANGED <<resv, order, intent, sent, outbox>>
    BY <1>3 DEF ReturnEarly, stockVars, stripeVars
  <2>5. RowSteps
    BY <2>3, <2>4 DEF RowSteps, IntentStep, SentStep, OrderStep
  <2>6. \A v \in Workers : RequestStep(v)
    BY <2>2, UntouchedRequest DEF OthersStay
  <2> QED
    BY <2>2, <2>3, <2>4, <2>5, <2>6 DEF Steps, RowTypes, ReqTypes
<1>4. ASSUME UpdateOrderRow(w)
      PROVE  Steps
  <2>1. Busy(w) /\ req[w].pc = "read" /\ req[w] \in Request
    BY <1>4 DEF UpdateOrderRow, At, Free, Busy, RowTypes
  <2>2. resv[req[w].o].status \in Inv!ReservationStatus
    BY <2>1, RequestMembers DEF RowTypes, Inv!Reservation
  <2>3. /\ ReqTypes' /\ SameRequest(w) /\ OthersStay(w)
        /\ req'[w].pc = "locked" /\ req'[w].locks = req[w].locks
    BY <1>0, <1>4, <2>1, <2>2, Locks DEF UpdateOrderRow
  <2>4. RequestStep(w)
    BY <2>1, <2>3 DEF RequestStep, MovesOn
  <2> QED
    BY <1>4, <2>3, <2>4, RequestOnly
    DEF UpdateOrderRow, stockVars, orderVars, stripeVars
<1> QED
  BY <1>1, <1>2, <1>3, <1>4

\* A handler that writes rows and moves its request on.
LEMMA RowsAndRequest ==
    ASSUME NEW w \in Workers, ReqTypes', RequestStep(w), OthersStay(w),
           ResvTypes', TableTypes', RowSteps
    PROVE  Steps
BY UntouchedRequest DEF Steps, RowTypes, TableTypes, ReqTypes, ResvTypes, OthersStay

LEMMA BusyAt ==
    ASSUME RowTypes, NEW w \in Workers, NEW pc, At(w, pc)
    PROVE  /\ Busy(w) /\ req[w] \in Request /\ req[w].pc = pc
           /\ req[w].o \in Orders /\ req[w].to \in OrderStatus
BY RequestMembers DEF RowTypes, At, Free, Busy

\* The client learns an intent's secret; Stripe charges an intent.
LEMMA IntentUpdates ==
    ASSUME TableTypes, NEW i \in Intents,
           \/ intent' = [intent EXCEPT ![i].known = TRUE]
           \/ intent' = [intent EXCEPT ![i].status = "succeeded"]
           \/ UNCHANGED intent
    PROVE  intent' \in [Intents -> Intent] /\ \A k \in Intents : IntentStep(k)
<1>1. CASE intent' = [intent EXCEPT ![i].known = TRUE]
  BY <1>1 DEF TableTypes, Intent, IntentStep
<1>2. CASE intent' = [intent EXCEPT ![i].status = "succeeded"]
  BY <1>2 DEF TableTypes, Intent, IntentStep
<1>3. CASE UNCHANGED intent
  BY <1>3 DEF TableTypes, IntentStep
<1> QED
  BY <1>1, <1>2, <1>3

\* createPaymentIntent.
LEMMA IntentSteps ==
    ASSUME RowTypes, IntentsBelong, NEW w \in Workers,
           CommitIntent(w) \/ CreateIntent(w) \/ SavePayment(w)
    PROVE  Steps
<1>0. ReqTypes /\ TableTypes /\ ResvTypes
  BY DEF RowTypes, ReqTypes, TableTypes, ResvTypes
<1>1. ASSUME CommitIntent(w) PROVE Steps
  <2>1. Busy(w) /\ req[w].o \in Orders /\ req[w].op = "intent"
    BY <1>1, BusyAt DEF CommitIntent
  <2>2. ReqTypes' /\ SameRequest(w) /\ req'[w].pc = "moved" /\ OthersStay(w)
    BY <1>0, <1>1, <2>1, Advances DEF CommitIntent, Pcs
  <2>3. RequestStep(w)
    BY <2>1, <2>2 DEF RequestStep, MovesOn
  <2>4. /\ order' = [order EXCEPT ![req[w].o] = "payment_pending"]
        /\ UNCHANGED <<resv, payment, intent, sent, outbox>>
    BY <1>1 DEF CommitIntent, stockVars, stripeVars
  <2>5. TableTypes' /\ ResvTypes'
    BY <1>0, <2>1, <2>4 DEF TableTypes, ResvTypes, OrderStatus
  <2>6. RowSteps
    BY <1>0, <2>1, <2>4
    DEF TableTypes, RowSteps, IntentStep, SentStep, PaymentStep, OrderStep, PaidStatuses
  <2> QED
    BY <2>2, <2>3, <2>5, <2>6, RowsAndRequest
<1>2. ASSUME CreateIntent(w) PROVE Steps
  <2>1. Busy(w) /\ req[w].pc = "moved" /\ req[w].op = "intent" /\ req[w].i \in Intents
    BY <1>2, BusyAt DEF CreateIntent, IntentsBelong
  <2>2. ReqTypes' /\ SameRequest(w) /\ req'[w].pc = "created" /\ OthersStay(w)
    BY <1>0, <1>2, <2>1, Advances DEF CreateIntent, Pcs
  <2>3. RequestStep(w)
    BY <2>1, <2>2 DEF RequestStep, MovesOn
  <2>4. /\ intent' = [intent EXCEPT ![req[w].i].status = IF @ = "none" THEN "open" ELSE @]
        /\ UNCHANGED <<resv, order, payment, sent, outbox>>
    BY <1>2 DEF CreateIntent, stockVars, orderVars
  <2>5. intent' \in [Intents -> Intent] /\ \A i \in Intents : IntentStep(i)
    BY <1>0, <2>1, <2>4 DEF TableTypes, Intent, IntentStep
  <2>6. TableTypes' /\ ResvTypes'
    BY <1>0, <2>4, <2>5 DEF TableTypes, ResvTypes
  <2>7. RowSteps
    BY <2>4, <2>5 DEF RowSteps, SentStep, PaymentStep, OrderStep
  <2> QED
    BY <2>2, <2>3, <2>6, <2>7, RowsAndRequest
<1>3. ASSUME SavePayment(w) PROVE Steps
  <2> DEFINE o == req[w].o
             i == req[w].i
  <2>1. Busy(w) /\ req[w].pc = "created" /\ o \in Orders /\ i \in Intents
    BY <1>3, BusyAt DEF SavePayment, IntentsBelong
  <2>2. ReqTypes' /\ req'[w] = NoReq /\ OthersStay(w)
    BY <1>0, <1>3, Frees DEF SavePayment
  <2>3. /\ payment' = [payment EXCEPT ![o] =
                         IF payment[o] = NoPayment THEN [status |-> "pending", intent |-> i]
                                                   ELSE payment[o]]
        /\ intent' = [intent EXCEPT ![i].known = TRUE] \/ UNCHANGED intent
        /\ UNCHANGED <<resv, order, sent, outbox>>
    BY <1>3 DEF SavePayment, stockVars
  <2>4. intent' \in [Intents -> Intent] /\ \A k \in Intents : IntentStep(k)
    BY <1>0, <2>1, <2>3, IntentUpdates
  <2>5. /\ [status |-> "pending", intent |-> i] \in Payment
        /\ [status |-> "pending", intent |-> i] # NoPayment
        /\ [status |-> "pending", intent |-> i].intent = i
    BY <2>1 DEF Payment, NoPayment
  <2>6. payment' \in [Orders -> Payment]
    BY <1>0, <2>1, <2>3, <2>5 DEF TableTypes
  <2>7. ASSUME NEW p \in Orders PROVE PaymentStep(p)
    <3>1. CASE p = o /\ payment[o] = NoPayment
      BY <1>0, <2>1, <2>3, <2>5, <3>1 DEF TableTypes, PaymentStep
    <3>2. CASE p # o \/ payment[o] # NoPayment
      BY <1>0, <2>3, <3>2 DEF TableTypes, PaymentStep
    <3> QED
      BY <3>1, <3>2
  <2>8. TableTypes' /\ ResvTypes'
    BY <1>0, <2>3, <2>4, <2>6 DEF TableTypes, ResvTypes
  <2>9. RowSteps
    BY <2>3, <2>4, <2>7 DEF RowSteps, SentStep, OrderStep
  <2> QED
    BY <2>2, <2>8, <2>9, RowsAndRequest DEF RequestStep
<1> QED
  BY <1>1, <1>2, <1>3

\* The commits of the other order transactions.
LEMMA CommitSteps ==
    ASSUME RowTypes, PaymentsExist, NEW w \in Workers,
           CommitPaid(w) \/ CommitFailed(w) \/ CommitCancel(w) \/ CommitAdmin(w)
    PROVE  Steps
<1> DEFINE o == req[w].o
<1>0. ReqTypes /\ TableTypes /\ ResvTypes
  BY DEF RowTypes, ReqTypes, TableTypes, ResvTypes
<1>1. /\ Busy(w) /\ req[w].pc = "locked" /\ o \in Orders
      /\ req[w].to \in OrderStatus /\ req[w].locks \in BOOLEAN
      /\ req[w].locks => payment[o] # NoPayment
  <2>1. At(w, "locked")
    BY DEF CommitPaid, CommitFailed, CommitCancel, CommitAdmin
  <2>2. /\ Busy(w) /\ req[w] \in Request /\ req[w].pc = "locked" /\ o \in Orders
        /\ req[w].to \in OrderStatus
    BY <2>1, BusyAt
  <2> QED
    BY <2>2 DEF PaymentsExist, Request
<1>2. ReqTypes' /\ RequestStep(w) /\ OthersStay(w)
  <2>1. EndTx(w, "ok") \/ Finish(w)
    BY DEF CommitPaid, CommitFailed, CommitCancel, CommitAdmin
  <2> QED
    BY <1>0, <1>1, <2>1, Ends, Frees DEF RequestStep
<1>3. ResvTypes'
  <2>1. SettleHeld(w, "confirmed") \/ SettleHeld(w, "released") \/ UNCHANGED resv
    BY DEF CommitPaid, CommitFailed, CommitCancel, CommitAdmin, stockVars
  <2> QED
    BY <1>0, <2>1, HeldResv DEF Inv!Settled, ResvTypes
<1>4. payment' \in [Orders -> Payment] /\ \A p \in Orders : PaymentStep(p)
  <2>1. \/ MarkPayment(w, req[w].locks, "captured")
        \/ MarkPayment(w, req[w].locks, "failed")
        \/ UNCHANGED payment
    BY DEF CommitPaid, CommitFailed, CommitCancel, CommitAdmin
  <2>2. CASE UNCHANGED payment
    BY <1>0, <2>2 DEF TableTypes, PaymentStep
  <2> QED
    BY <1>0, <1>1, <2>1, <2>2, MarkedPayment
<1>5. UNCHANGED <<intent, sent>>
  BY DEF CommitPaid, CommitFailed, CommitCancel, CommitAdmin, stripeVars
<1>6. /\ order' \in [Orders -> OrderStatus \union {"absent"}]
      /\ outbox' \in [Orders -> 0..2]
      /\ \A p \in Orders : OrderStep(p)
  <2>1. ASSUME CommitPaid(w)
        PROVE  <1>6!:
    <3>1. /\ order' = [order EXCEPT ![o] = "paid"]
          /\ outbox' = [outbox EXCEPT ![o] = IF @ < 2 THEN @ + 1 ELSE @]
          /\ req[w].op \in PaidOps
      BY <2>1 DEF CommitPaid, AddToOutbox
    <3> QED
      BY <1>0, <1>1, <3>1 DEF TableTypes, OrderStatus, OrderStep
  <2>2. ASSUME CommitFailed(w) \/ CommitCancel(w)
        PROVE  <1>6!:
    <3>1. /\ \/ order' = [order EXCEPT ![o] = "payment_failed"]
             \/ order' = [order EXCEPT ![o] = "cancelled"]
          /\ UNCHANGED outbox
      BY <2>2 DEF CommitFailed, CommitCancel
    <3> QED
      BY <1>0, <1>1, <3>1 DEF TableTypes, OrderStatus, OrderStep, PaidStatuses
  <2>3. ASSUME CommitAdmin(w)
        PROVE  <1>6!:
    <3>1. /\ order' = [order EXCEPT ![o] = req[w].to] /\ UNCHANGED outbox
          /\ req[w].op = "admin"
      BY <2>3 DEF CommitAdmin
    <3> QED
      BY <1>0, <1>1, <3>1 DEF TableTypes, OrderStep
  <2> QED
    BY <2>1, <2>2, <2>3
<1>7. TableTypes' /\ RowSteps
  BY <1>0, <1>4, <1>5, <1>6 DEF TableTypes, RowSteps, IntentStep, SentStep
<1> QED
  BY <1>2, <1>3, <1>7, RowsAndRequest

\* The rest of a request's life: the webhook's answer, a crash, an abort.
LEMMA EndingSteps ==
    ASSUME RowTypes, NEW w \in Workers, RecordOutcome(w) \/ Crash(w) \/ AbortTx(w)
    PROVE  Steps
<1>0. ReqTypes
  BY DEF RowTypes, ReqTypes
<1>1. CASE RecordOutcome(w) \/ Crash(w)
  <2>1. ReqTypes' /\ RequestStep(w) /\ OthersStay(w)
    BY <1>0, <1>1, Frees DEF RecordOutcome, Crash, RequestStep
  <2>2. UNCHANGED <<resv, order, payment, intent, sent, outbox>>
    BY <1>1 DEF RecordOutcome, Crash, stockVars, orderVars, stripeVars
  <2> QED
    BY <2>1, <2>2, RequestOnly
<1>2. CASE AbortTx(w)
  <2>1. Busy(w) /\ EndTx(w, "error")
    BY <1>2, BusyAt DEF AbortTx
  <2>2. ReqTypes' /\ RequestStep(w) /\ OthersStay(w)
    BY <1>0, <2>1, Ends
  <2>3. UNCHANGED <<resv, order, payment, intent, sent, outbox>>
    BY <1>2 DEF AbortTx, stockVars, orderVars, stripeVars
  <2> QED
    BY <2>2, <2>3, RequestOnly
<1> QED
  BY <1>1, <1>2

\* The actions that touch no request.
LEMMA OutsideSteps ==
    ASSUME RowTypes,
           \/ \E w \in Workers, o \in Orders, l \in Listings : Checkout(w, o, l)
           \/ \E o \in Orders : ReturnExistingIntent(o)
           \/ \E i \in Intents : Charge(i) \/ Decline(i)
           \/ \E e \in Event : DeliverProcessed(e)
           \/ Expiry
           \/ UNCHANGED vars
    PROVE  Steps
<1>0. ReqTypes /\ TableTypes /\ ResvTypes
  BY DEF RowTypes, ReqTypes, TableTypes, ResvTypes
<1>1. UNCHANGED req
  BY DEF Checkout, ReturnExistingIntent, Charge, Decline, DeliverProcessed, Expiry, vars
<1>2. ReqTypes' /\ \A w \in Workers : RequestStep(w)
  BY <1>0, <1>1, UntouchedRequest DEF ReqTypes
<1>3. ASSUME NEW w \in Workers, NEW o \in Orders, NEW l \in Listings, Checkout(w, o, l)
      PROVE  ResvTypes' /\ TableTypes' /\ RowSteps
  <2>1. ResvTypes'
    BY <1>0, <1>3
    DEF Checkout, Inv!ReserveStock, ResvTypes, Inv!Reservation, Inv!ReservationStatus
  <2>2. /\ order' = [order EXCEPT ![o] = "created"]
        /\ UNCHANGED <<payment, intent, sent, outbox>>
    BY <1>3 DEF Checkout, stripeVars
  <2>3. TableTypes'
    BY <1>0, <2>2 DEF TableTypes, OrderStatus
  <2>4. RowSteps
    BY <1>0, <2>2
    DEF TableTypes, RowSteps, IntentStep, SentStep, PaymentStep, OrderStep, PaidStatuses
  <2> QED
    BY <2>1, <2>3, <2>4
<1>4. ASSUME NEW o \in Orders, ReturnExistingIntent(o)
      PROVE  ResvTypes' /\ TableTypes' /\ RowSteps
  <2>1. /\ intent' = [intent EXCEPT ![payment[o].intent].known = TRUE]
        /\ UNCHANGED <<resv, order, payment, sent, outbox>>
        /\ payment[o].intent \in Intents
    BY <1>0, <1>4 DEF ReturnExistingIntent, stockVars, orderVars, TableTypes, Payment
  <2>2. intent' \in [Intents -> Intent] /\ \A k \in Intents : IntentStep(k)
    BY <1>0, <2>1, IntentUpdates
  <2> QED
    BY <1>0, <2>1, <2>2
    DEF ResvTypes, TableTypes, RowSteps, SentStep, PaymentStep, OrderStep
<1>5. ASSUME NEW i \in Intents, Charge(i)
      PROVE  ResvTypes' /\ TableTypes' /\ RowSteps
  <2> DEFINE e == [kind |-> "succeeded", intent |-> i]
  <2>1. /\ intent' = [intent EXCEPT ![i].status = "succeeded"]
        /\ sent' = sent \union {e}
        /\ UNCHANGED <<resv, order, payment, outbox>>
    BY <1>5 DEF Charge, stockVars, orderVars
  <2>2. intent' \in [Intents -> Intent] /\ \A k \in Intents : IntentStep(k)
    BY <1>0, <2>1, IntentUpdates
  <2>3. e \in Event /\ e.intent = i
    BY DEF Event
  <2>4. intent'[i].status = "succeeded"
    BY <1>0, <2>1 DEF TableTypes, Intent
  <2> HIDE DEF e
  <2>5. SentStep
    BY <2>1, <2>3, <2>4 DEF SentStep
  <2> QED
    BY <1>0, <2>1, <2>2, <2>3, <2>5
    DEF ResvTypes, TableTypes, RowSteps, PaymentStep, OrderStep
<1>6. ASSUME NEW i \in Intents, Decline(i)
      PROVE  ResvTypes' /\ TableTypes' /\ RowSteps
  <2>1. /\ sent' = sent \union {[kind |-> "failed", intent |-> i]}
        /\ UNCHANGED <<resv, order, payment, intent, outbox>>
    BY <1>6 DEF Decline, stockVars, orderVars
  <2>2. [kind |-> "failed", intent |-> i] \in Event
    BY DEF Event
  <2>3. SentStep
    BY <2>1 DEF SentStep
  <2> QED
    BY <1>0, <2>1, <2>2, <2>3
    DEF ResvTypes, TableTypes, RowSteps, IntentStep, PaymentStep, OrderStep
<1>7. ASSUME (\E e \in Event : DeliverProcessed(e)) \/ UNCHANGED vars
      PROVE  ResvTypes' /\ TableTypes' /\ RowSteps
  <2>1. UNCHANGED <<resv, order, payment, intent, sent, outbox>>
    BY <1>7 DEF DeliverProcessed, stockVars, orderVars, vars
  <2> QED
    BY <1>0, <2>1, UntouchedTables DEF ResvTypes
<1>8. ASSUME Expiry
      PROVE  ResvTypes' /\ TableTypes' /\ RowSteps
  BY <1>0, <1>8, ExpiryResv, UntouchedTables DEF Expiry, orderVars, stripeVars
<1>9. ResvTypes' /\ TableTypes' /\ RowSteps
  BY <1>3, <1>4, <1>5, <1>6, <1>7, <1>8
<1> QED
  BY <1>2, <1>9 DEF Steps, RowTypes, ReqTypes, TableTypes, ResvTypes

(***************************************************************************)
(* The theorem                                                             *)
(***************************************************************************)
LEMMA StepsTaken ==
    ASSUME RowTypes, IntentsBelong, PaymentsExist, [Next]_vars
    PROVE  Steps
<1>1. ASSUME NEW w \in Workers, OrderTransaction(w)
      PROVE  Steps
  BY <1>1, ReadingSteps, IntentSteps, CommitSteps, EndingSteps DEF OrderTransaction
<1>2. ASSUME NEW w \in IntentWorkers, NEW o \in Orders, NEW i \in Intents, StartIntent(w, o, i)
      PROVE  Steps
  BY <1>2, AcceptingSteps, ConstantsAssumption
<1>3. ASSUME NEW w \in Workers,
             \/ \E e \in Event : Deliver(w, e)
             \/ \E o \in Orders : StartVerify(w, o) \/ StartCancel(w, o)
             \/ \E o \in Orders, to \in AdminTargets : StartAdminUpdate(w, o, to)
      PROVE  Steps
  BY <1>3, AcceptingSteps
<1>4. ASSUME NEW w \in Workers, Crash(w) \/ AbortTx(w)
      PROVE  Steps
  BY <1>4, EndingSteps
<1> QED
  BY <1>1, <1>2, <1>3, <1>4, OutsideSteps DEF Next

LEMMA InvariantHolds ==
    ASSUME Init
    PROVE  ChargeInv
<1>1. RowTypes
  <2>1. resv \in [Orders -> Inv!Reservation]
    <3> DEFINE Absent == {[listing |-> l, qty |-> 0, status |-> "absent", due |-> FALSE] :
                             l \in Listings}
    <3>1. resv \in [Orders -> Absent]
      BY DEF Init, Inv!Init
    <3>2. \A l \in Listings :
             [listing |-> l, qty |-> 0, status |-> "absent", due |-> FALSE] \in Inv!Reservation
      BY DEF Inv!Reservation, Inv!ReservationStatus
    <3>3. \A r \in Absent : r \in Inv!Reservation
      BY <3>2
    <3> HIDE DEF Absent
    <3> QED
      BY <3>1, <3>3
  <2>2. intent \in [Intents -> Intent]
    BY DEF Init, Intent
  <2> QED
    BY <2>1, <2>2 DEF Init, RowTypes, Payment
<1> QED
  BY <1>1
  DEF ChargeInv, Init, SuccessReported, PaymentsBelong, IntentsBelong, PaymentsExist,
      PaidOpsCharged, AdminCharged, PaidMeansCharged, Busy, PaidStatuses

\* Unless an administrator sets an order to paid by hand, no interleaving of
\* webhooks, verifications, cancellations and administrators, with crashes and
\* aborted transactions, moves an order into a paid status, or writes an
\* order.paid event, before Stripe has charged one of its intents.
THEOREM PaidOrdersCharged ==
    ASSUME NoManualPayment
    PROVE  Spec => []PaidMeansCharged
<1>1. Init => ChargeInv
  BY InvariantHolds
<1>2. ChargeInv /\ [Next]_vars => ChargeInv'
  <2> SUFFICES ASSUME ChargeInv, [Next]_vars PROVE ChargeInv'
    OBVIOUS
  <2>1. Steps
    BY StepsTaken DEF ChargeInv
  <2> QED
    BY <2>1, InvariantKept
<1>3. ChargeInv => PaidMeansCharged
  BY DEF ChargeInv
<1> QED
  BY <1>1, <1>2, <1>3, PTL DEF Spec

(***************************************************************************)
(* Webhooks and verifications without other writers: the lock on the       *)
(* payment row leaves one order transaction at a time                      *)
(***************************************************************************)
\* Nobody cancels, administrators move no order, and one payment intent is
\* requested at a time: each of these overwrites an order it has read unlocked.
WebhooksOnly ==
    /\ ~MayCancel /\ AdminTargets = {}
    /\ \A v, w \in IntentWorkers : v = w

InTx(w) == Busy(w) /\ req[w].pc \in {"read", "locked"}

\* The intent a webhook names is the one the order's payment row names.
Finds(w) ==
    /\ req[w].i \in Intents /\ intent[req[w].i].known
    /\ intent[req[w].i].order = req[w].o

ServedOp(w) ==
    \/ /\ req[w].op = "intent" /\ req[w].to = "payment_pending"
       /\ w \in IntentWorkers /\ payment[req[w].o] = NoPayment
    \/ req[w].op = "verify" /\ req[w].to = "paid"
    \/ req[w].op = "succeeded" /\ req[w].to = "paid" /\ Finds(w)
    \/ req[w].op = "failed" /\ req[w].to = "payment_failed" /\ Finds(w)

\* A decision still stands when it is written.
DecidedRight(w) ==
    /\ req[w].op # "intent" => req[w].locks
    /\ CanTransition(order[req[w].o], req[w].to)

Served(w) == Busy(w) => ServedOp(w) /\ (InTx(w) => DecidedRight(w))

OneInTx ==
    \A v, w \in Workers : InTx(v) /\ InTx(w) /\ req[v].o = req[w].o => v = w

\* The client pays only an intent that the payment row names.
KnownAreSaved ==
    /\ \A i \in Intents : intent[i].known => payment[intent[i].order].intent = i
    /\ \A e \in sent : intent[e.intent].known

AgreesAt(o) ==
    /\ order[o] \in {"absent", "created", "payment_pending", "paid", "payment_failed"}
    /\ order[o] = "paid" <=> payment[o].status = "captured"
    /\ order[o] = "payment_failed" <=> payment[o].status = "failed"
    /\ outbox[o] = IF order[o] = "paid" THEN 1 ELSE 0

SerialInv ==
    /\ OneInTx /\ KnownAreSaved
    /\ \A o \in Orders : AgreesAt(o)
    /\ \A w \in Workers : Served(w)

\* Steps that leave everything alone that SerialInv says of the rows.
Quiet ==
    /\ UNCHANGED <<order, payment, outbox, sent>>
    /\ \A i \in Intents :
          intent'[i].order = intent[i].order /\ intent'[i].known = intent[i].known

Alone(w) == \A v \in Workers \ {w} : InTx(v) => req[v].o # req[w].o

LEMMA QuietRows ==
    ASSUME RowTypes, SerialInv, Quiet
    PROVE  KnownAreSaved' /\ \A o \in Orders : AgreesAt(o)'
<1>1. KnownAreSaved'
  <2>1. ASSUME NEW i \in Intents, intent'[i].known
        PROVE  payment'[intent'[i].order].intent = i
    BY <2>1 DEF SerialInv, KnownAreSaved, Quiet
  <2>2. ASSUME NEW e \in sent'
        PROVE  intent'[e.intent].known
    <3>1. e \in sent /\ e.intent \in Intents
      BY DEF Quiet, RowTypes, Event
    <3> QED
      BY <3>1 DEF SerialInv, KnownAreSaved, Quiet
  <2> QED
    BY <2>1, <2>2 DEF KnownAreSaved
<1>2. \A o \in Orders : AgreesAt(o)'
  BY DEF SerialInv, AgreesAt, Quiet
<1> QED
  BY <1>1, <1>2

LEMMA QuietServed ==
    ASSUME SerialInv, Quiet, NEW w \in Workers, SameRequest(w),
           InTx(w)' => InTx(w) /\ req'[w].locks = req[w].locks
    PROVE  Served(w)'
<1>1. ServedOp(w) /\ (InTx(w) => DecidedRight(w))
  BY DEF SerialInv, Served, SameRequest
<1>2. ServedOp(w)'
  BY <1>1 DEF ServedOp, Finds, SameRequest, Quiet
<1>3. InTx(w)' => DecidedRight(w)'
  BY <1>1 DEF DecidedRight, SameRequest, Quiet
<1> QED
  BY <1>2, <1>3 DEF Served

LEMMA QuietStays ==
    ASSUME SerialInv, Quiet, NEW w \in Workers, req'[w] = req[w]
    PROVE  Served(w)'
<1>1. CASE Busy(w)
  BY <1>1, QuietServed DEF SameRequest, Busy, InTx
<1>2. CASE ~Busy(w)
  BY <1>2 DEF Served, Busy
<1> QED
  BY <1>1, <1>2

\* One request moves on and no row changes.
LEMMA OneMoves ==
    ASSUME RowTypes, SerialInv, Quiet, NEW w \in Workers, OthersStay(w), Served(w)',
           InTx(w)' => req'[w].o = req[w].o /\ (InTx(w) \/ Alone(w))
    PROVE  SerialInv'
<1>1. \A v \in Workers : Served(v)'
  BY QuietStays DEF OthersStay
<1>2. \A v \in Workers \ {w} : InTx(v)' => InTx(v) /\ req'[v].o = req[v].o
  BY DEF OthersStay, InTx, Busy
<1>3. ASSUME NEW v \in Workers \ {w}, InTx(v)', InTx(w)', req'[v].o = req'[w].o
      PROVE  FALSE
  BY <1>2, <1>3 DEF SerialInv, OneInTx, Alone
<1>4. ASSUME NEW u \in Workers \ {w}, NEW v \in Workers \ {w},
             InTx(u)', InTx(v)', req'[u].o = req'[v].o
      PROVE  u = v
  BY <1>2, <1>4 DEF SerialInv, OneInTx
<1>5. OneInTx'
  <2> SUFFICES ASSUME NEW u \in Workers, NEW v \in Workers,
                      InTx(u)', InTx(v)', req'[u].o = req'[v].o
               PROVE  u = v
    BY DEF OneInTx
  <2> QED
    BY <1>3, <1>4
<1> QED
  BY <1>1, <1>5, QuietRows DEF SerialInv

\* A request leaves its transaction, or ends.
LEMMA Leaves ==
    ASSUME RowTypes, SerialInv, Quiet, NEW w \in Workers, OthersStay(w),
           req'[w] = NoReq \/ (SameRequest(w) /\ ~InTx(w)')
    PROVE  SerialInv'
<1>1. Served(w)' /\ ~InTx(w)'
  <2>1. CASE req'[w] = NoReq
    BY <2>1 DEF Served, InTx, Busy
  <2>2. CASE SameRequest(w) /\ ~InTx(w)'
    BY <2>2, QuietServed
  <2> QED
    BY <2>1, <2>2
<1> QED
  BY <1>1, OneMoves

LEMMA EndTxLeaves ==
    ASSUME RowTypes, NEW w \in Workers, Busy(w), NEW outcome \in {"ok", "error"},
           EndTx(w, outcome)
    PROVE  /\ OthersStay(w)
           /\ req'[w] = NoReq \/ (SameRequest(w) /\ ~InTx(w)')
<1>0. ReqTypes
  BY DEF RowTypes, ReqTypes
<1>1. CASE Goto(w, outcome)
  <2>1. SameRequest(w) /\ req'[w].pc = outcome /\ OthersStay(w)
    BY <1>0, <1>1, Advances DEF Pcs
  <2> QED
    BY <2>1 DEF InTx
<1>2. CASE Finish(w)
  BY <1>0, <1>2, Frees
<1> QED
  BY <1>1, <1>2 DEF EndTx

LEMMA QuietTables ==
    ASSUME UNCHANGED <<order, payment, outbox, sent, intent>>
    PROVE  Quiet
BY DEF Quiet

\* A webhook finds its payment row, and whoever is to decide an order that is
\* still open locks that row.
LEMMA OpenIsLocked ==
    ASSUME RowTypes, SerialInv, NEW w \in Workers, NEW locks \in BOOLEAN,
           MayEnterTx(w, locks)
    PROVE  /\ Busy(w) /\ req[w].o \in Orders /\ ~InTx(w)
           /\ req[w].op \in WebhookOps => FindsPayment(w)
           /\ req[w].op # "intent" /\ order[req[w].o] # "paid" => locks
<1>1. /\ Busy(w) /\ req[w].pc = "start" /\ req[w].o \in Orders
      /\ locks \in UpdatesPayment(w)
  BY BusyAt DEF MayEnterTx
<1>2. ServedOp(w)
  BY <1>1 DEF SerialInv, Served
<1>3. ASSUME req[w].op \in WebhookOps PROVE FindsPayment(w)
  <2>1. Finds(w)
    BY <1>2, <1>3 DEF ServedOp, WebhookOps
  <2> QED
    BY <2>1 DEF Finds, SerialInv, KnownAreSaved, FindsPayment
<1>4. ASSUME req[w].op # "intent", order[req[w].o] # "paid" PROVE locks
  <2>1. CASE req[w].op \in WebhookOps
    <3>1. locks \in {FindsPayment(w)}
      BY <1>1, <2>1 DEF UpdatesPayment, WebhookOps, FindsPayment
    <3> QED
      BY <1>3, <2>1, <3>1 DEF FindsPayment
  <2>2. CASE req[w].op = "verify"
    <3>1. payment[req[w].o].status # "captured"
      BY <1>1, <1>4 DEF SerialInv, AgreesAt
    <3> QED
      BY <1>1, <2>2, <3>1 DEF UpdatesPayment, WebhookOps
  <2> QED
    BY <1>2, <1>4, <2>1, <2>2 DEF ServedOp, WebhookOps
<1> QED
  BY <1>1, <1>3, <1>4 DEF InTx

LEMMA EntersAlone ==
    ASSUME WebhooksOnly, RowTypes, PaymentsExist, SerialInv,
           NEW w \in Workers, NEW locks \in BOOLEAN, ReadOrder(w, locks)
    PROVE  Alone(w)
<1>0. MayEnterTx(w, locks)
  BY DEF ReadOrder
<1>1. /\ Busy(w) /\ req[w].o \in Orders
      /\ req[w].op # "intent" => locks
  <2>1. req[w].op \in PaidOps => order[req[w].o] # "paid"
    BY DEF ReadOrder, NothingToDo
  <2>2. Busy(w) /\ req[w].o \in Orders
        /\ (req[w].op # "intent" /\ order[req[w].o] # "paid" => locks)
    BY <1>0, OpenIsLocked
  <2>3. req[w].op = "failed" => order[req[w].o] # "paid"
    <3>1. ServedOp(w) /\ CanTransition(order[req[w].o], req[w].to)
      BY <2>2 DEF SerialInv, Served, ReadOrder
    <3> QED
      BY <3>1 DEF ServedOp, CanTransition, Transitions, OrderStatus
  <2>4. req[w].op \in PaidOps \union {"failed", "intent"}
    BY <2>2 DEF SerialInv, Served, ServedOp, PaidOps
  <2> QED
    BY <2>1, <2>2, <2>3, <2>4
<1>2. ServedOp(w)
  BY <1>1 DEF SerialInv, Served
<1>3. SUFFICES ASSUME NEW v \in Workers \ {w}, InTx(v), req[v].o = req[w].o
               PROVE  FALSE
  BY DEF Alone
<1>4. ServedOp(v) /\ DecidedRight(v) /\ Busy(v)
  BY <1>3 DEF SerialInv, Served, InTx
<1>5. req[v].op # "intent" => req[v].locks /\ payment[req[w].o] # NoPayment
  BY <1>3, <1>4 DEF DecidedRight, PaymentsExist, InTx
<1>6. req[w].op # "intent" => payment[req[w].o] # NoPayment /\ ~PaymentLocked(req[w].o)
  BY <1>0, <1>1, LocksExisting DEF MayEnterTx
<1>7. req[v].op # "intent" => PaymentLocked(req[w].o)
  BY <1>3, <1>4, <1>5 DEF PaymentLocked, InTx, At, Free, Busy
<1>8. req[v].op = "intent" => v \in IntentWorkers /\ payment[req[w].o] = NoPayment
  BY <1>3, <1>4 DEF ServedOp
<1>9. req[w].op = "intent" => w \in IntentWorkers /\ payment[req[w].o] = NoPayment
  BY <1>2 DEF ServedOp
<1> QED
  BY <1>3, <1>5, <1>6, <1>7, <1>8, <1>9 DEF WebhooksOnly

(***************************************************************************)
(* Every action keeps SerialInv                                            *)
(***************************************************************************)
SerialFacts == WebhooksOnly /\ RowTypes /\ PaymentsBelong /\ PaymentsExist /\ SerialInv

LEMMA SerialReading ==
    ASSUME SerialFacts, NEW w \in Workers,
           \/ \E locks \in BOOLEAN :
                 ReadOrder(w, locks) \/ RejectTransition(w, locks) \/ ReturnEarly(w, locks)
           \/ UpdateOrderRow(w)
    PROVE  SerialInv' /\ order' = order
<1> USE DEF SerialFacts
<1>0. ReqTypes
  BY DEF RowTypes, ReqTypes
<1>1. ASSUME NEW locks \in BOOLEAN, ReadOrder(w, locks)
      PROVE  SerialInv'
  <2>1. MayEnterTx(w, locks)
    BY <1>1 DEF ReadOrder
  <2>2. /\ Busy(w) /\ req[w].o \in Orders /\ ~InTx(w)
        /\ req[w].op # "intent" /\ order[req[w].o] # "paid" => locks
    BY <2>1, OpenIsLocked
  <2>3. req' = [req EXCEPT ![w].pc = "read", ![w].locks = locks]
    BY <1>1 DEF ReadOrder
  <2>4. /\ SameRequest(w) /\ OthersStay(w)
        /\ req'[w].pc = "read" /\ req'[w].locks = locks
    BY <1>0, <2>2, <2>3, Reads
  <2>5. UNCHANGED <<order, payment, outbox, sent, intent>>
    BY <1>1 DEF ReadOrder, orderVars, stripeVars
  <2>6. Quiet
    BY <2>5, QuietTables
  <2>7. ServedOp(w) /\ CanTransition(order[req[w].o], req[w].to)
    BY <1>1, <2>2 DEF SerialInv, Served, ReadOrder
  <2>8. ServedOp(w)'
    BY <2>4, <2>6, <2>7 DEF ServedOp, Finds, SameRequest, Quiet
  <2>9. order[req[w].o] # "paid"
    BY <2>7 DEF ServedOp, CanTransition, Transitions, OrderStatus
  <2>10. DecidedRight(w)'
    BY <2>2, <2>4, <2>5, <2>7, <2>9 DEF DecidedRight, SameRequest
  <2>11. Served(w)'
    BY <2>8, <2>10 DEF Served
  <2>12. Alone(w)
    BY <1>1, EntersAlone
  <2> QED
    BY <2>4, <2>6, <2>11, <2>12, OneMoves DEF SameRequest
<1>2. ASSUME NEW locks \in BOOLEAN, RejectTransition(w, locks)
      PROVE  SerialInv'
  <2>1. Busy(w)
    BY <1>2, LocksExisting DEF RejectTransition
  <2>2. OthersStay(w) /\ (req'[w] = NoReq \/ (SameRequest(w) /\ ~InTx(w)'))
    BY <1>2, <2>1, EndTxLeaves DEF RejectTransition
  <2>3. UNCHANGED <<order, payment, outbox, sent, intent>>
    BY <1>2 DEF RejectTransition, orderVars, stripeVars
  <2> QED
    BY <2>2, <2>3, QuietTables, Leaves
<1>3. ASSUME NEW locks \in BOOLEAN, ReturnEarly(w, locks)
      PROVE  SerialInv'
  <2>1. MayEnterTx(w, locks) /\ NothingToDo(w)
    BY <1>3 DEF ReturnEarly
  <2>2. /\ Busy(w) /\ req[w].o \in Orders
        /\ req[w].op \in WebhookOps => FindsPayment(w)
    BY <2>1, OpenIsLocked
  <2>3. OthersStay(w) /\ (req'[w] = NoReq \/ (SameRequest(w) /\ ~InTx(w)'))
    BY <1>3, <2>2, EndTxLeaves DEF ReturnEarly
  <2> DEFINE status == IF req[w].op \in PaidOps THEN "captured" ELSE "failed"
  <2>4. payment[req[w].o].status = status
    BY <2>1, <2>2 DEF NothingToDo, SerialInv, AgreesAt, PaidOps, WebhookOps
  <2>5. payment[req[w].o] \in Payment
    BY <2>2 DEF RowTypes
  <2>6. [payment[req[w].o] EXCEPT !.status = status] = payment[req[w].o]
    BY <2>4, <2>5 DEF Payment, NoPayment
  <2>7. payment' = [payment EXCEPT ![req[w].o] =
                       IF locks THEN [payment[req[w].o] EXCEPT !.status = status]
                                ELSE payment[req[w].o]]
    BY <1>3 DEF ReturnEarly, MarkPayment
  <2> HIDE DEF status
  <2>8. payment' = payment
    BY <2>2, <2>6, <2>7 DEF RowTypes
  <2>9. UNCHANGED <<order, payment, outbox, sent, intent>>
    BY <1>3, <2>8 DEF ReturnEarly, stripeVars
  <2> QED
    BY <2>3, <2>9, QuietTables, Leaves
<1>4. ASSUME UpdateOrderRow(w)
      PROVE  SerialInv'
  <2>1. Busy(w) /\ req[w].pc = "read" /\ req[w] \in Request
    BY <1>4, BusyAt DEF UpdateOrderRow
  <2>2. resv[req[w].o].status \in Inv!ReservationStatus
    BY <2>1, RequestMembers DEF RowTypes, Inv!Reservation
  <2>3. /\ SameRequest(w) /\ OthersStay(w)
        /\ req'[w].pc = "locked" /\ req'[w].locks = req[w].locks
    BY <1>0, <1>4, <2>1, <2>2, Locks DEF UpdateOrderRow
  <2>4. UNCHANGED <<order, payment, outbox, sent, intent>>
    BY <1>4 DEF UpdateOrderRow, orderVars, stripeVars
  <2>5. InTx(w)
    BY <2>1 DEF InTx
  <2>6. Quiet
    BY <2>4, QuietTables
  <2>7. Served(w)'
    BY <2>3, <2>5, <2>6, QuietServed
  <2> QED
    BY <2>3, <2>5, <2>6, <2>7, OneMoves DEF SameRequest
<1>5. order' = order
  BY DEF ReadOrder, RejectTransition, ReturnEarly, UpdateOrderRow, orderVars
<1> QED
  BY <1>1, <1>2, <1>3, <1>4, <1>5

LEMMA SerialEnding ==
    ASSUME SerialFacts, NEW w \in Workers, RecordOutcome(w) \/ Crash(w) \/ AbortTx(w)
    PROVE  SerialInv' /\ order' = order
<1> USE DEF SerialFacts
<1>1. UNCHANGED <<order, payment, outbox, sent, intent>>
  BY DEF RecordOutcome, Crash, AbortTx, orderVars, stripeVars
<1>2. OthersStay(w) /\ (req'[w] = NoReq \/ (SameRequest(w) /\ ~InTx(w)'))
  <2>1. CASE RecordOutcome(w) \/ Crash(w)
    BY <2>1, Frees DEF RecordOutcome, Crash, RowTypes, ReqTypes
  <2>2. CASE AbortTx(w)
    BY <2>2, BusyAt, EndTxLeaves DEF AbortTx
  <2> QED
    BY <2>1, <2>2
<1> QED
  BY <1>1, <1>2, QuietTables, Leaves

\* A transaction that is decided writes its order and its payment row.
Commits(w, to) ==
    /\ order' = [order EXCEPT ![req[w].o] = to]
    /\ UNCHANGED <<intent, sent>>
    /\ \A p \in Orders \ {req[w].o} : payment'[p] = payment[p] /\ outbox'[p] = outbox[p]
    /\ payment'[req[w].o] = NoPayment <=> payment[req[w].o] = NoPayment
    /\ payment'[req[w].o].intent = payment[req[w].o].intent

LEMMA SerialCommit ==
    ASSUME SerialFacts, NEW w \in Workers, InTx(w), OthersStay(w),
           req'[w] = NoReq \/ (SameRequest(w) /\ ~InTx(w)'),
           NEW to \in OrderStatus, Commits(w, to),
           NEW o \in Orders, o = req[w].o, AgreesAt(o)'
    PROVE  SerialInv'
<1> USE DEF SerialFacts
<1>1. Busy(w)
  BY DEF InTx
<1>2. \A p \in Orders \ {o} : order'[p] = order[p] /\ payment'[p] = payment[p] /\ outbox'[p] = outbox[p]
  BY <1>1 DEF Commits, RowTypes
<1>3. \A p \in Orders : /\ payment'[p] = NoPayment <=> payment[p] = NoPayment
                        /\ payment'[p].intent = payment[p].intent
  BY <1>2 DEF Commits
<1>4. UNCHANGED <<intent, sent>>
  BY DEF Commits
<1>5. KnownAreSaved'
  <2>1. \A i \in Intents : intent[i].order \in Orders
    BY DEF RowTypes, Intent
  <2> QED
    BY <1>3, <1>4, <2>1 DEF SerialInv, KnownAreSaved
<1>6. \A p \in Orders : AgreesAt(p)'
  <2>1. ASSUME NEW p \in Orders \ {o} PROVE AgreesAt(p)'
    BY <1>2 DEF SerialInv, AgreesAt
  <2> QED
    BY <2>1
<1>7. ASSUME NEW v \in Workers, Busy(v)', req'[v].o = req[v].o,
             ServedOp(v), req'[v].op = req[v].op, req'[v].to = req[v].to, req'[v].i = req[v].i,
             req[v].o \in Orders
      PROVE  ServedOp(v)'
  <2>1. payment'[req[v].o] = NoPayment <=> payment[req[v].o] = NoPayment
    BY <1>3, <1>7
  <2> QED
    BY <1>4, <1>7, <2>1 DEF ServedOp, Finds
<1>8. Served(w)' /\ ~InTx(w)'
  <2>1. CASE req'[w] = NoReq
    BY <2>1 DEF Served, InTx, Busy
  <2>2. CASE SameRequest(w) /\ ~InTx(w)'
    <3>1. ServedOp(w)
      BY <1>1 DEF SerialInv, Served
    <3> QED
      BY <1>1, <1>7, <2>2, <3>1 DEF SameRequest, Served
  <2> QED
    BY <2>1, <2>2
<1>9. ASSUME NEW v \in Workers \ {w} PROVE Served(v)'
  <2>1. req'[v] = req[v]
    BY DEF OthersStay
  <2>2. ASSUME Busy(v)' PROVE ServedOp(v)' /\ (InTx(v)' => DecidedRight(v)')
    <3>1. Busy(v) /\ ServedOp(v) /\ (InTx(v) => DecidedRight(v)) /\ req[v].o \in Orders
      BY <2>1, <2>2, RequestMembers DEF Busy, SerialInv, Served, RowTypes
    <3>2. ServedOp(v)'
      BY <1>7, <2>1, <2>2, <3>1
    <3>3. ASSUME InTx(v)' PROVE DecidedRight(v)'
      <4>1. InTx(v)
        BY <2>1, <3>3 DEF InTx, Busy
      <4>2. req[v].o # o
        BY <4>1 DEF SerialInv, OneInTx
      <4>3. order'[req[v].o] = order[req[v].o]
        BY <1>2, <3>1, <4>2
      <4> QED
        BY <2>1, <3>1, <4>1, <4>3 DEF DecidedRight
    <3> QED
      BY <3>2, <3>3
  <2> QED
    BY <2>2 DEF Served
<1>10. OneInTx'
  <2> SUFFICES ASSUME NEW u \in Workers, NEW v \in Workers,
                      InTx(u)', InTx(v)', req'[u].o = req'[v].o
               PROVE  u = v
    BY DEF OneInTx
  <2>1. u # w /\ v # w
    BY <1>8
  <2>2. req'[u] = req[u] /\ req'[v] = req[v]
    BY <2>1 DEF OthersStay
  <2>3. InTx(u) /\ InTx(v)
    BY <2>2 DEF InTx, Busy
  <2> QED
    BY <2>2, <2>3 DEF SerialInv, OneInTx
<1> QED
  BY <1>5, <1>6, <1>8, <1>9, <1>10 DEF SerialInv

LEMMA LegalMove ==
    ASSUME order \in [Orders -> OrderStatus \union {"absent"}], NEW o \in Orders,
           NEW to, CanTransition(order[o], to), order' = [order EXCEPT ![o] = to]
    PROVE  Lifecycle!Next
<1>1. to \in Lifecycle!OrderStatus /\ Lifecycle!CanTransition(order[o], to)
  BY DEF CanTransition, Transitions, OrderStatus,
         Lifecycle!CanTransition, Lifecycle!Transitions, Lifecycle!OrderStatus
<1> QED
  BY <1>1 DEF Lifecycle!Next, Lifecycle!Move

\* The payment row as the commit of a webhook or a verification leaves it.
LEMMA MarkedStatus ==
    ASSUME RowTypes, NEW w \in Workers, req[w].o \in Orders, payment[req[w].o] # NoPayment,
           NEW status \in {"captured", "failed"}, MarkPayment(w, TRUE, status)
    PROVE  /\ \A p \in Orders \ {req[w].o} : payment'[p] = payment[p]
           /\ payment'[req[w].o] # NoPayment
           /\ payment'[req[w].o].intent = payment[req[w].o].intent
           /\ payment'[req[w].o].status = status
<1>1. payment' = [payment EXCEPT ![req[w].o] = [payment[req[w].o] EXCEPT !.status = status]]
  BY DEF MarkPayment
<1>2. payment[req[w].o] \in [status: {"pending", "captured", "failed", "refunded"}, intent: Intents]
  BY DEF RowTypes, Payment
<1>3. payment'[req[w].o] = [payment[req[w].o] EXCEPT !.status = status]
  BY <1>1 DEF RowTypes
<1>4. \A p \in Orders \ {req[w].o} : payment'[p] = payment[p]
  BY <1>1 DEF RowTypes
<1> QED
  BY <1>2, <1>3, <1>4 DEF NoPayment

LEMMA SerialCommits ==
    ASSUME SerialFacts, NEW w \in Workers,
           CommitIntent(w) \/ CommitPaid(w) \/ CommitFailed(w)
    PROVE  SerialInv' /\ Lifecycle!Next
<1> USE DEF SerialFacts
<1>0. /\ Busy(w) /\ req[w].pc = "locked" /\ req[w].o \in Orders
      /\ req[w] \in Request /\ req[w].to \in OrderStatus
  BY BusyAt DEF CommitIntent, CommitPaid, CommitFailed
<1> PICK o \in Orders : o = req[w].o
  BY <1>0
<1>1. /\ Busy(w) /\ req[w].pc = "locked" /\ o = req[w].o
      /\ req[w] \in Request /\ req[w].to \in OrderStatus
  BY <1>0
<1>2. InTx(w) /\ ServedOp(w) /\ DecidedRight(w) /\ AgreesAt(o)
  BY <1>1 DEF InTx, SerialInv, Served
<1>3. CanTransition(order[o], req[w].to)
  BY <1>2 DEF DecidedRight
<1>4. ASSUME CommitIntent(w)
      PROVE  SerialInv' /\ Lifecycle!Next
  <2>1. req[w].to = "payment_pending" /\ payment[o] = NoPayment /\ req[w].op = "intent"
    BY <1>2, <1>4 DEF ServedOp, CommitIntent
  <2>2. /\ order' = [order EXCEPT ![o] = "payment_pending"]
        /\ UNCHANGED <<payment, outbox, intent, sent>>
    BY <1>4 DEF CommitIntent, stripeVars
  <2>3. Commits(w, "payment_pending")
    BY <2>2 DEF Commits
  <2>4. order[o] # "paid" /\ order'[o] = "payment_pending"
    BY <1>1, <1>3, <2>1, <2>2 DEF CanTransition, Transitions, OrderStatus, RowTypes
  <2>5. AgreesAt(o)'
    BY <1>2, <2>1, <2>2, <2>4 DEF AgreesAt, NoPayment
  <2>6. SameRequest(w) /\ req'[w].pc = "moved" /\ OthersStay(w)
    BY <1>1, <1>4, Advances DEF CommitIntent, Pcs, RowTypes, ReqTypes
  <2>7. SerialInv'
    BY <1>1, <1>2, <2>1, <2>3, <2>5, <2>6, SerialCommit DEF InTx
  <2>8. Lifecycle!Next
    BY <1>1, <1>3, <2>1, <2>2, LegalMove DEF RowTypes
  <2> QED
    BY <2>7, <2>8
<1>5. ASSUME NEW status \in {"captured", "failed"}, EndTx(w, "ok"),
             req[w].op # "intent", MarkPayment(w, req[w].locks, status),
             order' = [order EXCEPT ![o] = req[w].to], UNCHANGED <<intent, sent>>,
             \A p \in Orders \ {o} : outbox'[p] = outbox[p],
             order'[o] \in {"paid", "payment_failed"},
             order'[o] = "paid" <=> status = "captured",
             outbox'[o] = IF order'[o] = "paid" THEN 1 ELSE 0
      PROVE  SerialInv' /\ Lifecycle!Next
  <2>1. req[w].locks = TRUE
    <3>1. req[w].locks \in BOOLEAN
      BY <1>1 DEF Request
    <3>2. req[w].locks
      BY <1>2, <1>5 DEF DecidedRight
    <3> QED
      BY <3>1, <3>2
  <2>2. payment[o] # NoPayment
    BY <1>1, <2>1 DEF PaymentsExist
  <2>3. MarkPayment(w, TRUE, status)
    BY <1>5, <2>1
  <2>4. /\ \A p \in Orders \ {o} : payment'[p] = payment[p]
        /\ payment'[o] # NoPayment /\ payment'[o].intent = payment[o].intent
        /\ payment'[o].status = status
    BY <1>1, <2>2, <2>3, MarkedStatus
  <2>5. Commits(w, req[w].to)
    BY <1>5, <2>2, <2>4 DEF Commits
  <2>6. AgreesAt(o)'
    BY <1>5, <2>4 DEF AgreesAt
  <2>7. OthersStay(w) /\ (req'[w] = NoReq \/ (SameRequest(w) /\ ~InTx(w)'))
    BY <1>1, <1>5, EndTxLeaves
  <2>8. SerialInv'
    BY <1>1, <1>2, <2>5, <2>6, <2>7, SerialCommit
  <2>9. Lifecycle!Next
    BY <1>1, <1>3, <1>5, LegalMove DEF RowTypes
  <2> QED
    BY <2>8, <2>9
<1>6. ASSUME CommitPaid(w)
      PROVE  SerialInv' /\ Lifecycle!Next
  <2>1. req[w].op \in PaidOps /\ req[w].op # "intent" /\ req[w].to = "paid"
    BY <1>2, <1>6 DEF CommitPaid, PaidOps, ServedOp
  <2>2. order[o] # "paid"
    BY <1>3, <2>1 DEF CanTransition, Transitions, OrderStatus
  <2>3. outbox[o] = 0
    BY <1>2, <2>2 DEF AgreesAt
  <2>4. outbox' = [outbox EXCEPT ![o] = IF outbox[o] < 2 THEN outbox[o] + 1 ELSE outbox[o]]
    BY <1>6 DEF CommitPaid, AddToOutbox
  <2>5. outbox'[o] = 1 /\ \A p \in Orders \ {o} : outbox'[p] = outbox[p]
    BY <1>1, <2>3, <2>4 DEF RowTypes
  <2>6. order' = [order EXCEPT ![o] = req[w].to]
    BY <1>6, <2>1 DEF CommitPaid
  <2>7. order'[o] = "paid"
    BY <1>1, <2>1, <2>6 DEF RowTypes
  <2>8. /\ EndTx(w, "ok") /\ MarkPayment(w, req[w].locks, "captured")
        /\ UNCHANGED <<intent, sent>>
    BY <1>6 DEF CommitPaid, stripeVars
  <2> QED
    BY <1>5, <2>1, <2>5, <2>6, <2>7, <2>8
<1>7. ASSUME CommitFailed(w)
      PROVE  SerialInv' /\ Lifecycle!Next
  <2>1. req[w].op # "intent" /\ req[w].to = "payment_failed"
    BY <1>2, <1>7 DEF CommitFailed, ServedOp
  <2>2. order[o] # "paid"
    BY <1>3, <2>1 DEF CanTransition, Transitions, OrderStatus
  <2>3. outbox[o] = 0 /\ outbox' = outbox
    BY <1>2, <1>7, <2>2 DEF AgreesAt, CommitFailed
  <2>4. order' = [order EXCEPT ![o] = req[w].to]
    BY <1>7, <2>1 DEF CommitFailed
  <2>5. order'[o] = "payment_failed"
    BY <1>1, <2>1, <2>4 DEF RowTypes
  <2>6. /\ EndTx(w, "ok") /\ MarkPayment(w, req[w].locks, "failed")
        /\ UNCHANGED <<intent, sent>>
    BY <1>7 DEF CommitFailed, stripeVars
  <2> QED
    BY <1>5, <2>1, <2>3, <2>4, <2>5, <2>6
<1> QED
  BY <1>4, <1>6, <1>7

\* Handlers that accept a request.
LEMMA SerialAccepting ==
    ASSUME SerialFacts, NEW w \in Workers,
           \/ w \in IntentWorkers /\ \E o \in Orders, i \in Intents : StartIntent(w, o, i)
           \/ \E e \in Event : Deliver(w, e)
           \/ \E o \in Orders : StartVerify(w, o)
    PROVE  SerialInv' /\ order' = order
<1> USE DEF SerialFacts
<1>0. ReqTypes
  BY DEF RowTypes, ReqTypes
<1>1. UNCHANGED <<order, payment, outbox, sent, intent>>
  BY DEF StartIntent, Deliver, StartVerify, orderVars, stripeVars
<1>2. Quiet
  BY <1>1, QuietTables
<1>3. OthersStay(w) /\ ServedOp(w)' /\ ~InTx(w)'
  <2>1. ASSUME w \in IntentWorkers, NEW o \in Orders, NEW i \in Intents, StartIntent(w, o, i)
        PROVE  <1>3!:
    <3>1. Accept(w, "intent", o, i, "payment_pending") /\ payment[o] = NoPayment
      BY <2>1 DEF StartIntent
    <3>2. "intent" \in Ops /\ "payment_pending" \in OrderStatus
      BY DEF Ops, OrderStatus
    <3>3. /\ OthersStay(w) /\ req'[w].op = "intent" /\ req'[w].pc = "start"
          /\ req'[w].o = o /\ req'[w].to = "payment_pending"
      BY <1>0, <3>1, <3>2, Accepts
    <3> QED
      BY <1>1, <2>1, <3>1, <3>3 DEF ServedOp, InTx
  <2>2. ASSUME NEW e \in Event, Deliver(w, e)
        PROVE  <1>3!:
    <3> DEFINE to == IF e.kind = "succeeded" THEN "paid" ELSE "payment_failed"
    <3>1. Accept(w, e.kind, intent[e.intent].order, e.intent, to) /\ e \in sent
      BY <2>2 DEF Deliver
    <3>2. /\ e.kind \in WebhookOps /\ e.kind \in Ops /\ to \in OrderStatus
          /\ e.intent \in Intents /\ intent[e.intent].order \in Orders
      BY DEF Event, Ops, WebhookOps, OrderStatus, Intent, RowTypes
    <3>3. \/ e.kind = "succeeded" /\ to = "paid"
          \/ e.kind = "failed" /\ to = "payment_failed"
      BY <3>2 DEF WebhookOps
    <3>4. intent[e.intent].known
      BY <3>1 DEF SerialInv, KnownAreSaved
    <3> HIDE DEF to
    <3>5. /\ OthersStay(w) /\ req'[w].op = e.kind /\ req'[w].pc = "start"
          /\ req'[w].o = intent[e.intent].order /\ req'[w].i = e.intent /\ req'[w].to = to
      BY <1>0, <3>1, <3>2, Accepts
    <3>6. Finds(w)'
      BY <1>1, <3>2, <3>4, <3>5 DEF Finds
    <3> QED
      BY <3>3, <3>5, <3>6 DEF ServedOp, InTx
  <2>3. ASSUME NEW o \in Orders, StartVerify(w, o)
        PROVE  <1>3!:
    <3>1. Accept(w, "verify", o, payment[o].intent, "paid") /\ payment[o] # NoPayment
      BY <2>3 DEF StartVerify
    <3>2. "verify" \in Ops /\ "paid" \in OrderStatus /\ payment[o].intent \in Intents
      BY <3>1 DEF Ops, PaidOps, OrderStatus, Payment, RowTypes
    <3>3. /\ OthersStay(w) /\ req'[w].op = "verify" /\ req'[w].pc = "start"
          /\ req'[w].o = o /\ req'[w].to = "paid"
      BY <1>0, <3>1, <3>2, Accepts
    <3> QED
      BY <3>3 DEF ServedOp, InTx
  <2> QED
    BY <2>1, <2>2, <2>3
<1>4. Served(w)'
  BY <1>3 DEF Served
<1> QED
  BY <1>1, <1>2, <1>3, <1>4, OneMoves

\* createPaymentIntent outside its transaction.
LEMMA SerialIntent ==
    ASSUME SerialFacts, IntentsBelong, NEW w \in Workers, CreateIntent(w) \/ SavePayment(w)
    PROVE  SerialInv' /\ order' = order
<1> USE DEF SerialFacts
<1>0. ReqTypes
  BY DEF RowTypes, ReqTypes
<1>1. ASSUME CreateIntent(w) PROVE SerialInv'
  <2>1. Busy(w) /\ req[w].i \in Intents
    BY <1>1, BusyAt DEF CreateIntent, IntentsBelong
  <2>2. SameRequest(w) /\ req'[w].pc = "created" /\ OthersStay(w)
    BY <1>0, <1>1, <2>1, Advances DEF CreateIntent, Pcs
  <2>3. /\ intent' = [intent EXCEPT ![req[w].i].status = IF @ = "none" THEN "open" ELSE @]
        /\ UNCHANGED <<order, payment, outbox, sent>>
    BY <1>1 DEF CreateIntent, orderVars
  <2>4. Quiet
    BY <2>1, <2>3 DEF Quiet, RowTypes, Intent
  <2> QED
    BY <2>2, <2>4, Leaves DEF InTx
<1>2. ASSUME SavePayment(w) PROVE SerialInv'
  <2>1. /\ Busy(w) /\ req[w].pc = "created" /\ req[w].o \in Orders /\ req[w].op = "intent"
        /\ req[w].i \in Intents /\ intent[req[w].i].order = req[w].o
    BY <1>2, BusyAt DEF SavePayment, IntentsBelong
  <2>2. w \in IntentWorkers /\ payment[req[w].o] = NoPayment
    BY <2>1 DEF SerialInv, Served, ServedOp
  <2> PICK o \in Orders, i \in Intents : o = req[w].o /\ i = req[w].i
    BY <2>1
  <2>3. /\ payment' = [payment EXCEPT ![o] = [status |-> "pending", intent |-> i]]
        /\ intent' = [intent EXCEPT ![i].known = TRUE] \/ UNCHANGED intent
        /\ UNCHANGED <<order, outbox, sent>>
    BY <1>2, <2>2 DEF SavePayment
  <2>4. req'[w] = NoReq /\ OthersStay(w)
    BY <1>0, <1>2, Frees DEF SavePayment
  <2>5. \A k \in Intents : /\ intent'[k].order = intent[k].order
                           /\ intent[k].known => intent'[k].known
                           /\ intent'[k].known => intent[k].known \/ k = i
    BY <2>3 DEF RowTypes, Intent
  <2>6. /\ payment'[o].intent = i /\ payment'[o].status = "pending"
        /\ \A p \in Orders \ {o} : payment'[p] = payment[p]
    BY <2>3 DEF RowTypes
  <2>7. KnownAreSaved'
    <3>1. ASSUME NEW k \in Intents, intent'[k].known
          PROVE  payment'[intent'[k].order].intent = k
      <4>1. CASE k = i
        BY <2>1, <2>5, <2>6, <4>1
      <4>2. CASE k # i
        <5>1. payment[intent[k].order].intent = k
          BY <2>5, <3>1, <4>2 DEF SerialInv, KnownAreSaved
        <5>2. intent[k].order # o
          BY <2>2, <5>1, ConstantsAssumption DEF NoPayment
        <5>3. intent[k].order \in Orders
          BY DEF RowTypes, Intent
        <5> QED
          BY <2>5, <2>6, <5>1, <5>2, <5>3
      <4> QED
        BY <4>1, <4>2
    <3>2. ASSUME NEW e \in sent' PROVE intent'[e.intent].known
      BY <2>3, <2>5 DEF SerialInv, KnownAreSaved, RowTypes, Event
    <3> QED
      BY <3>1, <3>2 DEF KnownAreSaved
  <2>8. \A p \in Orders : AgreesAt(p)'
    <3>1. ASSUME NEW p \in Orders \ {o} PROVE AgreesAt(p)'
      BY <2>3, <2>6 DEF SerialInv, AgreesAt
    <3>2. AgreesAt(o)'
      <4>1. AgreesAt(o) /\ payment[o].status = "none"
        BY <2>2 DEF SerialInv, NoPayment
      <4> QED
        BY <2>3, <2>6, <4>1 DEF AgreesAt
    <3> QED
      BY <3>1, <3>2
  <2>9. ASSUME NEW v \in Workers PROVE Served(v)'
    <3>1. CASE v = w
      BY <2>4, <3>1 DEF Served, Busy
    <3>2. CASE v # w
      <4>1. req'[v] = req[v]
        BY <2>4, <3>2 DEF OthersStay
      <4>2. ASSUME Busy(v)' PROVE ServedOp(v)' /\ (InTx(v)' => DecidedRight(v)')
        <5>1. Busy(v) /\ ServedOp(v) /\ (InTx(v) => DecidedRight(v))
          BY <4>1, <4>2 DEF Busy, SerialInv, Served
        <5>2. req[v].op # "intent"
          BY <2>2, <3>2, <5>1 DEF ServedOp, WebhooksOnly
        <5>3. Finds(v) => Finds(v)'
          BY <2>5, <4>1 DEF Finds
        <5>4. ServedOp(v)'
          BY <4>1, <5>1, <5>2, <5>3 DEF ServedOp
        <5>5. InTx(v)' => DecidedRight(v)'
          BY <2>3, <4>1, <5>1 DEF InTx, Busy, DecidedRight
        <5> QED
          BY <5>4, <5>5
      <4> QED
        BY <4>2 DEF Served
    <3> QED
      BY <3>1, <3>2
  <2>10. OneInTx'
    <3>1. \A v \in Workers : InTx(v)' => InTx(v) /\ req'[v] = req[v]
      BY <2>4 DEF OthersStay, InTx, Busy
    <3> QED
      BY <3>1 DEF SerialInv, OneInTx
  <2> QED
    BY <2>7, <2>8, <2>9, <2>10 DEF SerialInv
<1>3. order' = order
  BY DEF CreateIntent, SavePayment, orderVars
<1> QED
  BY <1>1, <1>2, <1>3

\* The client and Stripe: no request moves.
LEMMA SerialStripe ==
    ASSUME SerialFacts, UNCHANGED <<order, payment, outbox, req>>,
           \A i \in Intents : /\ intent'[i].order = intent[i].order
                              /\ intent[i].known => intent'[i].known,
           KnownAreSaved'
    PROVE  SerialInv'
<1> USE DEF SerialFacts
<1>1. \A o \in Orders : AgreesAt(o)'
  BY DEF SerialInv, AgreesAt
<1>2. OneInTx'
  BY DEF SerialInv, OneInTx, InTx, Busy
<1>3. ASSUME NEW v \in Workers PROVE Served(v)'
  <2>1. ASSUME Busy(v)' PROVE ServedOp(v)' /\ (InTx(v)' => DecidedRight(v)')
    <3>1. ServedOp(v) /\ (InTx(v) => DecidedRight(v))
      BY <2>1 DEF Busy, SerialInv, Served
    <3>2. Finds(v) => Finds(v)'
      BY DEF Finds
    <3>3. ServedOp(v)'
      BY <3>1, <3>2 DEF ServedOp
    <3>4. InTx(v)' => DecidedRight(v)'
      BY <3>1 DEF InTx, Busy, DecidedRight
    <3> QED
      BY <3>3, <3>4
  <2> QED
    BY <2>1 DEF Served
<1> QED
  BY <1>1, <1>2, <1>3 DEF SerialInv

LEMMA SerialCheckout ==
    ASSUME SerialFacts, NEW u \in Workers, NEW o \in Orders, NEW l \in Listings,
           Checkout(u, o, l)
    PROVE  SerialInv' /\ Lifecycle!Next
<1> USE DEF SerialFacts
<1>1. /\ order[o] = "absent" /\ order' = [order EXCEPT ![o] = "created"]
      /\ UNCHANGED <<payment, outbox, req, intent, sent>>
  BY DEF Checkout, stripeVars
<1>2. order'[o] = "created" /\ \A p \in Orders \ {o} : order'[p] = order[p]
  BY <1>1 DEF RowTypes
<1>3. KnownAreSaved'
  BY <1>1 DEF SerialInv, KnownAreSaved
<1>4. OneInTx'
  BY <1>1 DEF SerialInv, OneInTx, InTx, Busy
<1>5. ASSUME NEW p \in Orders PROVE AgreesAt(p)'
  <2>1. AgreesAt(p)
    BY DEF SerialInv
  <2>2. CASE p = o
    BY <1>1, <1>2, <2>1, <2>2 DEF AgreesAt
  <2>3. CASE p # o
    BY <1>1, <1>2, <2>1, <2>3 DEF AgreesAt
  <2> QED
    BY <2>2, <2>3
<1>6. ASSUME NEW v \in Workers PROVE Served(v)'
  <2>1. ASSUME Busy(v)' PROVE ServedOp(v)' /\ (InTx(v)' => DecidedRight(v)')
    <3>1. Busy(v) /\ ServedOp(v) /\ (InTx(v) => DecidedRight(v)) /\ req[v] \in Request
      BY <1>1, <2>1 DEF Busy, SerialInv, Served, RowTypes
    <3>2. ServedOp(v)'
      BY <1>1, <3>1 DEF ServedOp, Finds
    <3>3. ASSUME InTx(v)' PROVE DecidedRight(v)'
      <4>1. InTx(v) /\ DecidedRight(v)
        BY <1>1, <3>1, <3>3 DEF InTx, Busy
      <4>2. order[req[v].o] # "absent"
        BY <4>1 DEF DecidedRight, CanTransition, OrderStatus
      <4>3. req[v].o \in Orders /\ req[v].o # o
        BY <1>1, <3>1, <4>2 DEF Request
      <4>4. order'[req[v].o] = order[req[v].o]
        BY <1>2, <4>3
      <4> QED
        BY <1>1, <4>1, <4>4 DEF DecidedRight
    <3> QED
      BY <3>2, <3>3
  <2> QED
    BY <2>1 DEF Served
<1>7. Lifecycle!Next
  BY <1>1 DEF Lifecycle!Next, Lifecycle!Create
<1> QED
  BY <1>3, <1>4, <1>5, <1>6, <1>7 DEF SerialInv

\* The actions of the client, Stripe and the expiry job, and stuttering.
LEMMA SerialOutside ==
    ASSUME SerialFacts,
           \/ \E o \in Orders : ReturnExistingIntent(o)
           \/ \E i \in Intents : Charge(i) \/ Decline(i)
           \/ \E e \in Event : DeliverProcessed(e)
           \/ Expiry
           \/ UNCHANGED vars
    PROVE  SerialInv' /\ order' = order
<1> USE DEF SerialFacts
<1>1. UNCHANGED <<order, payment, outbox, req>>
  BY DEF ReturnExistingIntent, Charge, Decline, DeliverProcessed, Expiry, orderVars, vars
<1>2. ASSUME NEW o \in Orders, ReturnExistingIntent(o) PROVE SerialInv'
  <2>1. /\ intent' = [intent EXCEPT ![payment[o].intent].known = TRUE]
        /\ payment[o] # NoPayment /\ UNCHANGED sent
    BY <1>2 DEF ReturnExistingIntent
  <2> PICK i \in Intents : i = payment[o].intent
    BY <2>1 DEF RowTypes, Payment
  <2>2. intent[i].order = o
    BY <2>1 DEF PaymentsBelong
  <2>3. \A k \in Intents : /\ intent'[k].order = intent[k].order
                           /\ intent[k].known => intent'[k].known
                           /\ intent'[k].known => intent[k].known \/ k = i
    BY <2>1 DEF RowTypes, Intent
  <2>4. ASSUME NEW k \in Intents, intent'[k].known
        PROVE  payment'[intent'[k].order].intent = k
    BY <1>1, <2>2, <2>3, <2>4 DEF SerialInv, KnownAreSaved
  <2>5. \A e \in sent' : intent'[e.intent].known
    BY <2>1, <2>3 DEF SerialInv, KnownAreSaved, RowTypes, Event
  <2>6. KnownAreSaved'
    BY <2>4, <2>5 DEF KnownAreSaved
  <2> QED
    BY <1>1, <2>3, <2>6, SerialStripe
<1>3. ASSUME NEW i \in Intents, Charge(i) \/ Decline(i) PROVE SerialInv'
  <2>1. \A k \in Intents : intent'[k].order = intent[k].order /\ intent'[k].known = intent[k].known
    BY <1>3 DEF Charge, Decline, RowTypes, Intent
  <2>2. intent[i].known /\ \A e \in sent' : e \in sent \/ e.intent = i
    BY <1>3 DEF Charge, Decline, Payable
  <2>3. \A k \in Intents : intent'[k].known => payment'[intent'[k].order].intent = k
    BY <1>1, <2>1 DEF SerialInv, KnownAreSaved
  <2>4. \A e \in sent' : intent'[e.intent].known
    BY <2>1, <2>2 DEF SerialInv, KnownAreSaved, RowTypes, Event
  <2>5. KnownAreSaved'
    BY <2>3, <2>4 DEF KnownAreSaved
  <2> QED
    BY <1>1, <2>1, <2>5, SerialStripe
<1>4. ASSUME (\E e \in Event : DeliverProcessed(e)) \/ Expiry \/ UNCHANGED vars
      PROVE  SerialInv'
  <2>1. UNCHANGED <<intent, sent>>
    BY <1>4 DEF DeliverProcessed, Expiry, stripeVars, vars
  <2>2. KnownAreSaved'
    BY <1>1, <2>1 DEF SerialInv, KnownAreSaved
  <2> QED
    BY <1>1, <2>1, <2>2, SerialStripe
<1> QED
  BY <1>1, <1>2, <1>3, <1>4

(***************************************************************************)
(* The theorems about webhooks and verifications                           *)
(***************************************************************************)
LEMMA SerialStart ==
    ASSUME Init
    PROVE  SerialInv /\ Lifecycle!Init
<1>1. \A w \in Workers : ~Busy(w)
  BY DEF Init, Busy
<1>2. OneInTx /\ \A w \in Workers : Served(w)
  BY <1>1 DEF OneInTx, InTx, Served
<1>3. KnownAreSaved
  BY DEF Init, KnownAreSaved
<1>4. \A o \in Orders : AgreesAt(o)
  BY DEF Init, AgreesAt, NoPayment
<1> QED
  BY <1>2, <1>3, <1>4 DEF SerialInv, Init, Lifecycle!Init

LEMMA SerialKept ==
    ASSUME SerialFacts, IntentsBelong, [Next]_vars
    PROVE  SerialInv' /\ (Lifecycle!Next \/ order' = order)
<1> USE DEF SerialFacts
<1>1. ASSUME NEW w \in Workers, OrderTransaction(w)
      PROVE  SerialInv' /\ (Lifecycle!Next \/ order' = order)
  <2>1. CASE CommitCancel(w) \/ CommitAdmin(w)
    <3>1. Busy(w) /\ req[w].op \in {"cancel", "admin"}
      BY <2>1 DEF CommitCancel, CommitAdmin, At, Free, Busy
    <3> QED
      BY <3>1 DEF SerialInv, Served, ServedOp
  <2>2. CASE CommitIntent(w) \/ CommitPaid(w) \/ CommitFailed(w)
    BY <2>2, SerialCommits
  <2>3. CASE CreateIntent(w) \/ SavePayment(w)
    BY <2>3, SerialIntent
  <2>4. CASE RecordOutcome(w)
    BY <2>4, SerialEnding
  <2>5. CASE \/ \E locks \in BOOLEAN :
                   ReadOrder(w, locks) \/ RejectTransition(w, locks) \/ ReturnEarly(w, locks)
             \/ UpdateOrderRow(w)
    BY <2>5, SerialReading
  <2> QED
    BY <1>1, <2>1, <2>2, <2>3, <2>4, <2>5 DEF OrderTransaction
<1>2. ASSUME NEW w \in IntentWorkers, NEW o \in Orders, NEW i \in Intents, StartIntent(w, o, i)
      PROVE  SerialInv' /\ order' = order
  BY <1>2, SerialAccepting, ConstantsAssumption
<1>3. ASSUME NEW w \in Workers,
             (\E e \in Event : Deliver(w, e)) \/ \E o \in Orders : StartVerify(w, o)
      PROVE  SerialInv' /\ order' = order
  BY <1>3, SerialAccepting
<1>4. ASSUME NEW w \in Workers, Crash(w) \/ AbortTx(w)
      PROVE  SerialInv' /\ order' = order
  BY <1>4, SerialEnding
<1>5. ASSUME NEW w \in Workers, NEW o \in Orders
      PROVE  ~StartCancel(w, o) /\ \A to \in AdminTargets : ~StartAdminUpdate(w, o, to)
  BY DEF StartCancel, WebhooksOnly
<1> QED
  BY <1>1, <1>2, <1>3, <1>4, <1>5, SerialCheckout, SerialOutside DEF Next

LEMMA SerialRuns ==
    ASSUME WebhooksOnly
    PROVE  /\ Spec => [](ChargeInv /\ SerialInv)
           /\ Spec => Lifecycle!Init /\ [][Lifecycle!Next]_order
<1>1. Init => ChargeInv /\ SerialInv /\ Lifecycle!Init
  BY InvariantHolds, SerialStart
<1>2. ASSUME ChargeInv, SerialInv, [Next]_vars
      PROVE  ChargeInv' /\ SerialInv' /\ [Lifecycle!Next]_order
  <2>1. SerialFacts /\ IntentsBelong /\ NoManualPayment
    BY <1>2 DEF SerialFacts, ChargeInv, WebhooksOnly, NoManualPayment
  <2>2. Steps
    BY <1>2, StepsTaken DEF ChargeInv
  <2> QED
    BY <1>2, <2>1, <2>2, InvariantKept, SerialKept
<1> QED
  BY <1>1, <1>2, PTL DEF Spec

\* Where only webhooks and verifications decide an order, however often an event
\* is delivered and wherever requests crash or transactions abort, an order has
\* one order.paid row if it is paid and none otherwise.
THEOREM OnePaidRow ==
    ASSUME WebhooksOnly
    PROVE  Spec => []OnePaidEvent
<1>1. SerialInv => OnePaidEvent
  BY DEF SerialInv, AgreesAt, OnePaidEvent, PaidStatuses
<1> QED
  BY <1>1, SerialRuns, PTL

\* Under the same assumption an order in status paid has a captured payment row.
THEOREM PaidIsCaptured ==
    ASSUME WebhooksOnly
    PROVE  Spec => []PaidHasCapturedPayment
<1>1. SerialInv => PaidHasCapturedPayment
  BY DEF SerialInv, AgreesAt, PaidHasCapturedPayment
<1> QED
  BY <1>1, SerialRuns, PTL

\* Under the same assumption the stored status moves along the state machine's
\* table only: this specification implements OrderLifecycle.
THEOREM ImplementsLifecycle ==
    ASSUME WebhooksOnly
    PROVE  Spec => FollowsLifecycle
BY SerialRuns, PTL DEF FollowsLifecycle, Lifecycle!Spec

(***************************************************************************)
(* Orders that ended hold no stock                                         *)
(***************************************************************************)
\* adminUpdateOrderStatus releases stock for cancelled only.
NoManualFailure == "payment_failed" \notin AdminTargets

Ended == {"cancelled", "payment_failed"}

\* A transaction is about an order that exists, and one that holds the order's row
\* knows its reservation as reserved if it is: only the job can settle it meanwhile.
HeldKnown(w) ==
    /\ InTx(w) => order[req[w].o] # "absent"
    /\ Busy(w) /\ req[w].pc = "locked" /\ resv[req[w].o].status = "reserved"
          => req[w].held = "reserved"

AdminNamed == \A w \in Workers : Busy(w) /\ req[w].op = "admin" => req[w].to \in AdminTargets

HoldInv ==
    /\ RowTypes /\ IntentsBelong /\ PaymentsExist /\ AdminNamed
    /\ \A w \in Workers : HeldKnown(w)
    /\ NoHoldAfterEnd

\* What any step does: an order comes into being once, with its reservation, which is
\* never reserved again; an order ends with its reservation settled, by this step or,
\* as its transaction has read, before.
HoldStep(o) ==
    /\ order[o] # "absent" => order'[o] # "absent"
    /\ resv'[o].status = "reserved" => resv[o].status = "reserved" \/ order[o] = "absent"
    /\ \/ order'[o] \notin Ended
       \/ order'[o] = order[o]
       \/ resv'[o].status # "reserved"
       \/ \E w \in Workers : /\ Busy(w) /\ req[w].pc = "locked" /\ req[w].o = o
                             /\ req[w].held # "reserved"

\* A request that holds the order's row has read its reservation under the lock.
HeldStep(w) ==
    Busy(w)' /\ req'[w].pc = "locked" =>
        \/ Busy(w) /\ req[w].pc = "locked" /\ req'[w].held = req[w].held
        \/ req'[w].held = resv'[req'[w].o].status

HoldSteps == (\A o \in Orders : HoldStep(o)) /\ \A w \in Workers : HeldStep(w)

LEMMA HoldKept ==
    ASSUME HoldInv, Steps, HoldSteps
    PROVE  HoldInv'
<1>1. RowTypes' /\ IntentsBelong' /\ PaymentsExist'
  BY IntentsBelongKept, PaymentsExistKept DEF HoldInv, Steps
<1>2. AdminNamed'
  BY DEF HoldInv, AdminNamed, Steps, RequestStep, MovesOn, SameRequest, Accepted, Busy, WebhookOps
<1>3. ASSUME NEW w \in Workers PROVE HeldKnown(w)'
  <2>1. CASE ~InTx(w)'
    BY <2>1 DEF HeldKnown, InTx
  <2>2. CASE InTx(w)'
    <3>1. MovesOn(w) /\ Busy(w)' /\ req'[w].pc \in {"read", "locked"} /\ req'[w].o = req[w].o
      BY <2>2 DEF InTx, Steps, RequestStep, Accepted, Busy, MovesOn, SameRequest
    <3>2. Busy(w) /\ req[w].o \in Orders
      BY <3>1 DEF MovesOn, SameRequest, Busy, HoldInv, RowTypes, Request
    <3>3. order[req[w].o] # "absent"
      <4>1. \/ req[w].pc \in {"read", "locked"}
            \/ CanTransition(order[req[w].o], req[w].to)
        BY <3>1 DEF MovesOn
      <4>2. CASE req[w].pc \in {"read", "locked"}
        BY <3>2, <4>2 DEF HoldInv, HeldKnown, InTx
      <4>3. CASE CanTransition(order[req[w].o], req[w].to)
        BY <4>3 DEF CanTransition, OrderStatus
      <4>4. QED
        BY <4>1, <4>2, <4>3
    <3>4. order'[req'[w].o] # "absent"
      BY <3>1, <3>2, <3>3 DEF HoldSteps, HoldStep
    <3>5. ASSUME req'[w].pc = "locked", resv'[req'[w].o].status = "reserved"
          PROVE  req'[w].held = "reserved"
      <4>1. resv[req[w].o].status = "reserved"
        BY <3>1, <3>2, <3>3, <3>5 DEF HoldSteps, HoldStep
      <4>2. \/ req[w].pc = "locked" /\ req'[w].held = req[w].held
            \/ req'[w].held = resv'[req'[w].o].status
        BY <3>1, <3>5 DEF HoldSteps, HeldStep
      <4>3. QED
        BY <3>2, <3>5, <4>1, <4>2 DEF HoldInv, HeldKnown
    <3>6. QED
      BY <3>4, <3>5 DEF HeldKnown
  <2>3. QED
    BY <2>1, <2>2
<1>4. NoHoldAfterEnd'
  <2> SUFFICES ASSUME NEW o \in Orders, order'[o] \in Ended, resv'[o].status = "reserved"
               PROVE  FALSE
    BY DEF NoHoldAfterEnd, Ended
  <2>1. /\ order[o] # "absent" => resv[o].status = "reserved"
        /\ \/ order'[o] = order[o]
           \/ \E w \in Workers : /\ Busy(w) /\ req[w].pc = "locked" /\ req[w].o = o
                                 /\ req[w].held # "reserved"
    BY DEF HoldSteps, HoldStep
  <2>2. CASE order'[o] = order[o]
    BY <2>1, <2>2 DEF HoldInv, NoHoldAfterEnd, Ended
  <2>3. ASSUME NEW w \in Workers, Busy(w), req[w].pc = "locked", req[w].o = o,
               req[w].held # "reserved"
        PROVE  FALSE
    BY <2>1, <2>3 DEF HoldInv, HeldKnown, InTx
  <2>4. QED
    BY <2>1, <2>2, <2>3
<1>5. QED
  BY <1>1, <1>2, <1>3, <1>4 DEF HoldInv

\* Steps that leave orders and reservations alone, or the request's row lock.
LEMMA HoldQuiet ==
    ASSUME UNCHANGED <<order, resv>>
    PROVE  \A o \in Orders : HoldStep(o)
BY DEF HoldStep

LEMMA HeldQuiet ==
    ASSUME NEW w \in Workers, OthersStay(w), req'[w] = NoReq \/ req'[w].pc # "locked"
    PROVE  \A v \in Workers : HeldStep(v)
BY DEF OthersStay, HeldStep, Busy

LEMMA HeldOutside ==
    ASSUME UNCHANGED req
    PROVE  \A v \in Workers : HeldStep(v)
BY DEF HeldStep, Busy

\* A transaction that ends moves its request out of the row lock.
LEMMA EndTxUnlocks ==
    ASSUME RowTypes, NEW w \in Workers, Busy(w), NEW outcome \in {"ok", "error"},
           EndTx(w, outcome)
    PROVE  \A v \in Workers : HeldStep(v)
<1>1. OthersStay(w) /\ (req'[w] = NoReq \/ (SameRequest(w) /\ ~InTx(w)'))
  BY EndTxLeaves
<1>2. req'[w] = NoReq \/ req'[w].pc # "locked"
  BY <1>1 DEF SameRequest, InTx
<1>3. QED
  BY <1>1, <1>2, HeldQuiet

\* What the inventory engine does to the reservations when one is settled.
LEMMA SettledStatus ==
    ASSUME ResvTypes, NEW o \in Orders, NEW to \in Inv!Settled, Inv!SettleWrite(o, to)
    PROVE  /\ resv'[o].status = to /\ to # "reserved"
           /\ \A p \in Orders \ {o} : resv'[p] = resv[p]
<1>1. resv' = [resv EXCEPT ![o].status = to]
  BY DEF Inv!SettleWrite
<1>2. resv[o] \in Inv!Reservation
  BY DEF ResvTypes
<1>3. resv'[o].status = to
  BY <1>1, <1>2 DEF ResvTypes, Inv!Reservation
<1>4. QED
  BY <1>1, <1>3 DEF ResvTypes, Inv!Settled

LEMMA HeldStatus ==
    ASSUME ResvTypes, NEW w \in Workers, req[w].o \in Orders, NEW to \in Inv!Settled,
           SettleHeld(w, to)
    PROVE  /\ \A p \in Orders : resv'[p].status = "reserved" => resv[p].status = "reserved"
           /\ req[w].held = "reserved" => resv'[req[w].o].status # "reserved"
<1>1. CASE req[w].held = "reserved"
  <2>1. Inv!SettleWrite(req[w].o, to)
    BY <1>1 DEF SettleHeld
  <2>2. QED
    BY <2>1, SettledStatus
<1>2. CASE req[w].held # "reserved"
  BY <1>2 DEF SettleHeld
<1>3. QED
  BY <1>1, <1>2

\* The commits of the order transaction.
LEMMA HoldCommits ==
    ASSUME NoManualFailure, HoldInv, NEW w \in Workers,
           \/ CommitIntent(w) \/ CommitPaid(w) \/ CommitFailed(w)
           \/ CommitCancel(w) \/ CommitAdmin(w)
    PROVE  HoldSteps
<1>0. RowTypes /\ ReqTypes /\ ResvTypes /\ order \in [Orders -> OrderStatus \union {"absent"}]
  BY DEF HoldInv, RowTypes, ReqTypes, ResvTypes
<1>1. At(w, "locked")
  BY DEF CommitIntent, CommitPaid, CommitFailed, CommitCancel, CommitAdmin
<1>2. PICK o, to : o = req[w].o /\ to = req[w].to
  OBVIOUS
<1>3. Busy(w) /\ req[w].pc = "locked" /\ o \in Orders /\ to \in OrderStatus
  BY <1>0, <1>1, <1>2, BusyAt
<1>4. \A v \in Workers : HeldStep(v)
  <2>1. CASE CommitIntent(w)
    <3>1. Goto(w, "moved")
      BY <2>1 DEF CommitIntent
    <3>2. req'[w].pc = "moved" /\ OthersStay(w)
      BY <1>0, <1>3, <3>1, Advances DEF Pcs
    <3>3. QED
      BY <3>2, HeldQuiet
  <2>2. CASE CommitPaid(w) \/ CommitFailed(w)
    <3>1. EndTx(w, "ok")
      BY <2>2 DEF CommitPaid, CommitFailed
    <3>2. QED
      BY <1>0, <1>3, <3>1, EndTxUnlocks
  <2>3. CASE CommitCancel(w) \/ CommitAdmin(w)
    <3>1. Finish(w)
      BY <2>3 DEF CommitCancel, CommitAdmin
    <3>2. QED
      BY <1>0, <3>1, Frees, HeldQuiet
  <2>4. QED
    BY <2>1, <2>2, <2>3
<1>5. PICK s : /\ s \in OrderStatus /\ order' = [order EXCEPT ![o] = s]
               /\ \/ s \notin Ended /\ UNCHANGED resv
                  \/ s \notin Ended /\ SettleHeld(w, "confirmed")
                  \/ SettleHeld(w, "released")
  <2>1. CASE CommitIntent(w)
    <3>1. "payment_pending" \in OrderStatus /\ "payment_pending" \notin Ended
      BY DEF OrderStatus, Ended
    <3>2. QED
      BY <1>2, <2>1, <3>1 DEF CommitIntent, stockVars
  <2>2. CASE CommitPaid(w)
    <3>1. "paid" \in OrderStatus /\ "paid" \notin Ended
      BY DEF OrderStatus, Ended
    <3>2. QED
      BY <1>2, <2>2, <3>1 DEF CommitPaid
  <2>3. CASE CommitFailed(w)
    <3>1. "payment_failed" \in OrderStatus
      BY DEF OrderStatus
    <3>2. QED
      BY <1>2, <2>3, <3>1 DEF CommitFailed
  <2>4. CASE CommitCancel(w)
    <3>1. "cancelled" \in OrderStatus
      BY DEF OrderStatus
    <3>2. QED
      BY <1>2, <2>4, <3>1 DEF CommitCancel
  <2>5. CASE CommitAdmin(w)
    <3>1. to # "payment_failed"
      BY <1>2, <1>3, <2>5 DEF CommitAdmin, HoldInv, AdminNamed, NoManualFailure
    <3>2. order' = [order EXCEPT ![o] = to]
      BY <1>2, <2>5 DEF CommitAdmin
    <3>3. CASE to = "cancelled"
      BY <1>2, <1>3, <2>5, <3>2, <3>3 DEF CommitAdmin
    <3>4. CASE to # "cancelled"
      BY <1>2, <1>3, <2>5, <3>1, <3>2, <3>4 DEF CommitAdmin, stockVars, Ended
    <3>5. QED
      BY <3>3, <3>4
  <2>6. QED
    BY <2>1, <2>2, <2>3, <2>4, <2>5
<1>6. /\ order'[o] = s /\ s # "absent"
      /\ \A p \in Orders \ {o} : order'[p] = order[p]
  BY <1>0, <1>3, <1>5 DEF OrderStatus
<1>7. /\ \A p \in Orders : resv'[p].status = "reserved" => resv[p].status = "reserved"
      /\ s \in Ended /\ req[w].held = "reserved" => resv'[o].status # "reserved"
  <2>1. "confirmed" \in Inv!Settled /\ "released" \in Inv!Settled
    BY DEF Inv!Settled
  <2>2. QED
    BY <1>0, <1>2, <1>3, <1>5, <2>1, HeldStatus
<1>8. ASSUME NEW p \in Orders PROVE HoldStep(p)
  <2>1. CASE p = o
    BY <1>2, <1>3, <1>6, <1>7, <2>1 DEF HoldStep
  <2>2. CASE p # o
    BY <1>6, <1>7, <2>2 DEF HoldStep
  <2>3. QED
    BY <2>1, <2>2
<1>9. QED
  BY <1>4, <1>8 DEF HoldSteps

\* The rest of the order transaction, and the faults, leave orders and reservations
\* alone.
LEMMA HoldRequests ==
    ASSUME HoldInv, NEW w \in Workers,
           \/ \E locks \in BOOLEAN :
                 ReadOrder(w, locks) \/ RejectTransition(w, locks) \/ ReturnEarly(w, locks)
           \/ UpdateOrderRow(w) \/ CreateIntent(w) \/ SavePayment(w) \/ RecordOutcome(w)
           \/ Crash(w) \/ AbortTx(w)
    PROVE  HoldSteps
<1>0. RowTypes /\ ReqTypes /\ ResvTypes
  BY DEF HoldInv, RowTypes, ReqTypes, ResvTypes
<1>1. UNCHANGED <<order, resv>>
  BY DEF ReadOrder, RejectTransition, ReturnEarly, UpdateOrderRow, CreateIntent, SavePayment,
         RecordOutcome, Crash, AbortTx, orderVars, stockVars
<1>2. \A v \in Workers : HeldStep(v)
  <2>1. ASSUME NEW locks \in BOOLEAN, ReadOrder(w, locks) PROVE <1>2!:
    <3>1. Busy(w) /\ req' = [req EXCEPT ![w].pc = "read", ![w].locks = locks]
      BY <1>0, <2>1, BusyAt DEF ReadOrder, MayEnterTx
    <3>2. OthersStay(w) /\ req'[w].pc = "read"
      BY <1>0, <3>1, Reads
    <3>3. QED
      BY <3>2, HeldQuiet
  <2>2. ASSUME NEW locks \in BOOLEAN, RejectTransition(w, locks) \/ ReturnEarly(w, locks)
        PROVE  <1>2!:
    <3>1. Busy(w) /\ (EndTx(w, "ok") \/ EndTx(w, "error"))
      BY <1>0, <2>2, BusyAt DEF RejectTransition, ReturnEarly, MayEnterTx
    <3>2. QED
      BY <1>0, <3>1, EndTxUnlocks
  <2>3. CASE UpdateOrderRow(w)
    <3>1. PICK held : held = resv[req[w].o].status
      OBVIOUS
    <3>2. /\ Busy(w) /\ req[w].o \in Orders
          /\ req' = [req EXCEPT ![w].pc = "locked", ![w].held = held]
      BY <1>0, <2>3, <3>1, BusyAt DEF UpdateOrderRow
    <3>3. held \in Inv!ReservationStatus
      BY <1>0, <3>1, <3>2 DEF ResvTypes, Inv!Reservation
    <3>4. SameRequest(w) /\ OthersStay(w) /\ req'[w].held = held
      BY <1>0, <3>2, <3>3, Locks
    <3>5. HeldStep(w)
      BY <1>1, <3>1, <3>4 DEF HeldStep, SameRequest
    <3>6. QED
      BY <3>4, <3>5 DEF OthersStay, HeldStep, Busy
  <2>4. CASE CreateIntent(w)
    <3>1. Busy(w) /\ Goto(w, "created")
      BY <1>0, <2>4, BusyAt DEF CreateIntent
    <3>2. req'[w].pc = "created" /\ OthersStay(w)
      BY <1>0, <3>1, Advances DEF Pcs
    <3>3. QED
      BY <3>2, HeldQuiet
  <2>5. CASE SavePayment(w) \/ RecordOutcome(w) \/ Crash(w)
    <3>1. Finish(w)
      BY <2>5 DEF SavePayment, RecordOutcome, Crash
    <3>2. QED
      BY <1>0, <3>1, Frees, HeldQuiet
  <2>6. CASE AbortTx(w)
    <3>1. Busy(w) /\ EndTx(w, "error")
      BY <1>0, <2>6, BusyAt DEF AbortTx
    <3>2. QED
      BY <1>0, <3>1, EndTxUnlocks
  <2>7. QED
    BY <2>1, <2>2, <2>3, <2>4, <2>5, <2>6
<1>3. QED
  BY <1>1, <1>2, HoldQuiet DEF HoldSteps

\* A request is accepted.
LEMMA HoldAccepting ==
    ASSUME HoldInv, NEW w \in Workers,
           \/ \E o \in Orders, i \in Intents : StartIntent(w, o, i)
           \/ \E e \in Event : Deliver(w, e)
           \/ \E o \in Orders : StartVerify(w, o) \/ StartCancel(w, o)
           \/ \E o \in Orders, to \in AdminTargets : StartAdminUpdate(w, o, to)
    PROVE  HoldSteps
<1>1. UNCHANGED <<order, resv>>
  BY DEF StartIntent, Deliver, StartVerify, StartCancel, StartAdminUpdate, orderVars, stockVars
<1>2. PICK op, o, i, to : Accept(w, op, o, i, to)
  BY DEF StartIntent, Deliver, StartVerify, StartCancel, StartAdminUpdate
<1>3. PICK r : /\ r.pc = "start" /\ req' = [req EXCEPT ![w] = r]
  BY <1>2 DEF Accept
<1>4. OthersStay(w) /\ req'[w].pc # "locked"
  BY <1>3 DEF HoldInv, RowTypes, OthersStay
<1>5. QED
  BY <1>1, <1>4, HoldQuiet, HeldQuiet DEF HoldSteps

\* The actions that touch no request.
LEMMA HoldOutside ==
    ASSUME HoldInv,
           \/ \E w \in Workers, o \in Orders, l \in Listings : Checkout(w, o, l)
           \/ \E o \in Orders : ReturnExistingIntent(o)
           \/ \E i \in Intents : Charge(i) \/ Decline(i)
           \/ \E e \in Event : DeliverProcessed(e)
           \/ Expiry
           \/ UNCHANGED vars
    PROVE  HoldSteps
<1>0. ResvTypes /\ order \in [Orders -> OrderStatus \union {"absent"}]
  BY DEF HoldInv, RowTypes, ResvTypes
<1>1. \A v \in Workers : HeldStep(v)
  <2>1. UNCHANGED req
    BY DEF Checkout, ReturnExistingIntent, Charge, Decline, DeliverProcessed, Expiry, vars
  <2>2. QED
    BY <2>1, HeldOutside
<1>2. ASSUME NEW w \in Workers, NEW o \in Orders, NEW l \in Listings, Checkout(w, o, l)
      PROVE  \A p \in Orders : HoldStep(p)
  <2>1. order[o] = "absent" /\ order' = [order EXCEPT ![o] = "created"]
    BY <1>2 DEF Checkout
  <2>2. \A p \in Orders \ {o} : resv'[p] = resv[p] /\ order'[p] = order[p]
    BY <1>0, <1>2, <2>1 DEF Checkout, Inv!ReserveStock, ResvTypes
  <2>3. order'[o] = "created"
    BY <1>0, <2>1
  <2>4. HoldStep(o)
    BY <2>1, <2>3 DEF HoldStep, Ended
  <2>5. QED
    BY <2>2, <2>4 DEF HoldStep
<1>3. ASSUME Expiry PROVE \A p \in Orders : HoldStep(p)
  <2>1. order' = order
    BY <1>3 DEF Expiry, orderVars
  <2>2. \A p \in Orders : resv'[p].status = "reserved" => resv[p].status = "reserved"
    <3>1. ASSUME NEW o \in Orders, Inv!TtlPasses(o) PROVE <2>2!:
      BY <1>0, <3>1 DEF Inv!TtlPasses, ResvTypes, Inv!Reservation
    <3>2. ASSUME NEW j \in Jobs, NEW o \in Orders, Inv!BeginSettle(j, o, "expired") PROVE <2>2!:
      BY <3>2 DEF Inv!BeginSettle
    <3>3. ASSUME NEW j \in Jobs, Inv!CommitSettle(j) PROVE <2>2!:
      <4>1. PICK r, to : r = tx[j].r /\ to = tx[j].op
        OBVIOUS
      <4>2. to \in Inv!Settled /\ resv' = [resv EXCEPT ![r].status = to]
        BY <3>3, <4>1 DEF Inv!CommitSettle, Inv!SettleWrite
      <4>3. to # "reserved"
        BY <4>2 DEF Inv!Settled
      <4>4. QED
        BY <1>0, <4>2, <4>3 DEF ResvTypes, Inv!Reservation
    <3>4. QED
      BY <1>3, <3>1, <3>2, <3>3 DEF Expiry
  <2>3. QED
    BY <2>1, <2>2 DEF HoldStep
<1>4. ASSUME \/ \E o \in Orders : ReturnExistingIntent(o)
             \/ \E i \in Intents : Charge(i) \/ Decline(i)
             \/ \E e \in Event : DeliverProcessed(e)
             \/ UNCHANGED vars
      PROVE  \A p \in Orders : HoldStep(p)
  <2>1. UNCHANGED <<order, resv>>
    BY <1>4 DEF ReturnExistingIntent, Charge, Decline, DeliverProcessed, orderVars, stockVars, vars
  <2>2. QED
    BY <2>1, HoldQuiet
<1>5. QED
  BY <1>1, <1>2, <1>3, <1>4 DEF HoldSteps

LEMMA HoldStepsTaken ==
    ASSUME NoManualFailure, HoldInv, [Next]_vars
    PROVE  HoldSteps
<1>1. ASSUME NEW w \in Workers, OrderTransaction(w) PROVE HoldSteps
  BY <1>1, HoldCommits, HoldRequests DEF OrderTransaction
<1>2. ASSUME NEW w \in IntentWorkers, NEW o \in Orders, NEW i \in Intents, StartIntent(w, o, i)
      PROVE  HoldSteps
  BY <1>2, HoldAccepting, ConstantsAssumption
<1>3. ASSUME NEW w \in Workers,
             \/ \E e \in Event : Deliver(w, e)
             \/ \E o \in Orders : StartVerify(w, o) \/ StartCancel(w, o)
             \/ \E o \in Orders, to \in AdminTargets : StartAdminUpdate(w, o, to)
      PROVE  HoldSteps
  BY <1>3, HoldAccepting
<1>4. ASSUME NEW w \in Workers, Crash(w) \/ AbortTx(w) PROVE HoldSteps
  BY <1>4, HoldRequests
<1>5. QED
  BY <1>1, <1>2, <1>3, <1>4, HoldOutside DEF Next

\* Whatever requests, webhooks, administrators and the expiry job do at the same time,
\* wherever they crash or abort: an order that is cancelled or whose payment failed
\* keeps no stock reserved, as long as no administrator sets payment_failed by hand
\* (OrderService.cancelOrder, adminUpdateOrderStatus, PaymentService.handleWebhook).
THEOREM EndedOrdersHoldNothing ==
    ASSUME NoManualFailure
    PROVE  Spec => []NoHoldAfterEnd
<1>1. Init => HoldInv
  <2> SUFFICES ASSUME Init PROVE HoldInv
    OBVIOUS
  <2>1. RowTypes /\ IntentsBelong /\ PaymentsExist
    BY InvariantHolds DEF ChargeInv
  <2>2. \A w \in Workers : ~Busy(w)
    BY DEF Init, Busy
  <2>3. \A o \in Orders : order[o] = "absent"
    BY DEF Init
  <2>4. QED
    BY <2>1, <2>2, <2>3 DEF HoldInv, AdminNamed, HeldKnown, InTx, NoHoldAfterEnd
<1>2. HoldInv /\ [Next]_vars => HoldInv'
  <2> SUFFICES ASSUME HoldInv, [Next]_vars PROVE HoldInv'
    OBVIOUS
  <2>1. Steps
    BY StepsTaken DEF HoldInv
  <2>2. HoldSteps
    BY HoldStepsTaken
  <2>3. QED
    BY <2>1, <2>2, HoldKept
<1>3. HoldInv => NoHoldAfterEnd
  BY DEF HoldInv
<1>4. QED
  BY <1>1, <1>2, <1>3, PTL DEF Spec
==============================================================================
