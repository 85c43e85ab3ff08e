# Formal models of the Hadi Perfumes back end

TLA+ modules, TLC configurations and machine-checked proofs for
`src/hadi-perfumes-api`: a NestJS, TypeORM and PostgreSQL monolith that sells the
perfumes of one vendor and pays multi-level commissions on the sales.
`A/` below stands for `src/hadi-perfumes-api/src/`.

## 1. The system

| Component | State | Operations | What must be right |
|---|---|---|---|
| Inventory engine (`A/modules/inventory`) | counters per listing, reservations, listing status `active`/`sold_out` | addStock, adjustStock, reserveStock, confirm, release, expiry job | no unit is created, lost, sold twice or stranded; a reservation is settled once |
| Order lifecycle and payment (`A/modules/order`) | `orders`, `payments`, `payment_webhook_events`, `money_event_outbox` | createPaymentIntent, verifyAndSyncPayment, handleWebhook, cancelOrder, adminUpdateOrderStatus | nothing is paid that was not charged, nothing is charged that is not paid; one `order.paid` event per order; statuses follow the table |
| Checkout (`checkout.service.ts`) | `checkout_sessions`, orders, items, reservations, row locks | initiateCheckout | one order per idempotency key, and the right one; checkouts do not deadlock one another |
| Listing catalogue (`A/modules/listing`) | listings and their status | create, update, moderate, delete | a removed listing stays removed |
| Cart (`A/modules/cart`) | `cart_items` | add, update, remove, clear, mergeGuestCart | concurrent additions lose nothing |
| Commission engine (`A/modules/commission`, `A/jobs`) | outbox rows, `commission_events` | outbox processor (1 min), release job (10 min), clawback | one commission per order and level; released once, taken back once |
| Compensation policy (`admin-policy.service.ts`) | policy versions: draft, active, archived | createDraft, validateDraft, activateDraft, version in force | one version in force, and always one |
| Ledger and wallet (`A/modules/ledger`) | append-only `ledger_entries` | writeEntry; balances are sums | idempotency keys; balances agree with what was booked |
| Payouts (`A/modules/payout`) | `payout_requests`, `payout_batches` | create, approve, reject, executeBatch | nobody is paid more than was released, or paid and credited |
| Disputes, returns, holds (`A/modules/trust`) | disputes, return requests, payout holds, resolution events | open, escalate, resolve, close; create, approve, reject, complete; propagation, escalation and eligibility jobs | holds follow disputes; clawbacks happen, and only when justified |
| Authentication (`A/modules/auth`) | one-time passwords, onboarding attempts, signup sessions, refresh tokens | sendOtp, verifyOtp, signup, login, refresh, logout | guesses are limited, codes and tokens are used once, logout is final |
| Referral and sponsorship (`A/modules/referral`, signup) | referral codes, `sponsorship_links`, `users.sponsor_id` | signup with a code, correctSponsor, updateProfile | limits of a code, no cycle, copies agree |
| Network graph (`A/modules/network`) | `network_nodes` with paths and counters | applyGraphCorrection, rebuild | nodes agree with the links they are computed from |
| Qualification | `qualification_states` | recalculation by cron and by request, suspend, restore | everybody is evaluated under the version in force |
| Schedulers, queues, dead letters (`A/queue`, `A/modules/ops`) | Bull jobs, job runs, `dead_letter_events` | crons, processors with retries, dead letters, replay | a job ends, or its failure is found |
| Fraud and moderation, rank assignment | fraud signals, ranks | aggregation job; assignRank | not modelled, see section 5 |
| Audit, media, homepage, schema, migrations | logs, content, tables | | not modelled, see section 5 |

The parts call each other inside one database transaction (checkout → inventory,
payment → inventory, commission and payout → ledger) or through rows another job
reads later (payment → `money_event_outbox` → commission; disputes and returns →
resolution events → clawback; disputes → payout holds → batches; sponsorship links →
network nodes → commission). What is hard is always the same: PostgreSQL runs READ
COMMITTED, `findOne` takes no lock, and `save` of an entity is an
`UPDATE ... WHERE id = ...` that does not look at what the row has become. A check
and the write it guards are therefore two steps unless the check is in the `WHERE`
clause, a row lock is held or a unique key decides. On top come Stripe's redelivered
and reordered webhooks, a buyer's card racing a reservation's TTL, crashes between
two transactions, retries, and jobs that also have an administrator's trigger.
`PROJECT.json` lists the places where this bites as hazards, each at its line.

## 2. How the code is modelled

* A method that decides from an unlocked read is two actions, `Begin...` (read and
  check) and `Commit...` (all its writes and the commit). A method whose decision
  is inside one statement is one action. Between two actions anything may happen.
* Where `save` writes back a whole entity that was read before an `await`, the copy
  is part of the request (`req[c]`), and the write restores every column of it.
* A guarantee the code gives only to calls that do not overlap is stated with a
  history variable that says which rows were touched by overlapping calls
  (`disturbed`, `contested`, `overlapped`, `raced`). The property then says that
  overlap is the only way to lose the guarantee.
* A transaction that fails changes nothing but the request's own position.
  A unique violation inside a PostgreSQL transaction aborts it: the `catch` blocks
  that go on inside the transaction are modelled as the rollback they cause.
* Row locks appear where the order of waiting matters: the payment row and the
  order row in `OrderPayment` (`PaymentLocked`, `OrderLocked`), the inventory rows of
  an order in `Market` (`lock`), the referral code in `Sponsorship`. A row lock ends
  with its transaction; `FOR UPDATE SKIP LOCKED` issued outside a transaction holds
  nothing.
* Names, amounts, texts, addresses, audit rows and notifications are left out; an
  amount is a small number, an id a model value.

| Module | Models | Correspondence |
|---|---|---|
| `Inventory` | `inventory.service.ts`, the expiry job | `item`, `listing`, `resv` are the rows; `tx` is what an open transaction has read. `BeginAdjust`/`CommitAdjust` = adjustStock; `BeginSettle`/`CommitSettle` = confirm, release and expire; `ReserveStock`, `AddStock` are one action each because their guards are `WHERE` clauses |
| `InventoryAudit` | `Inventory` with an account of it | adds only watching variables: how often each reservation was settled, which were being settled twice at once, which listings lost stock under an open adjustment |
| `OrderStateMachine` | `order-state-machine.ts` | `Transitions` is the table |
| `OrderLifecycle` | abstract specification | a status appears as `created` and then only moves along the table |
| `OrderPayment` | `payment.service.ts`, `order.service.ts`, one-line checkout, Stripe (external) | composes `Inventory` by `INSTANCE`; a request in flight is a record in `req` whose `pc` says which transaction it is in; `Charge`/`Decline` are Stripe |
| `Ledger` | `ledger.service.ts` | entries with unique keys; `AvailableBalance`, `PendingBalance` are the sums of the code |
| `Commission` | `commission-calculation.service.ts`, `commission-release.job.ts`, `clawback.job.ts` | `work` is what a run has read; both branches of `NODE_ENV` (`nodeEnv` is chosen initially) |
| `Payout` | `payout.service.ts`, payout holds | `task` is what a call has read; `processing` is the batch row the unique index protects |
| `Earnings` | composition of `Commission` and `Payout` over one `ledger` | their steps interleave |
| `Accounts` | `otp.service.ts`, `signup-flow.service.ts`, `auth.controller.ts` | `otp`, `attempt`, `token` are the rows, `session` the attempts a session token was issued for; `req[c]` is what call `c` has read between two awaits |
| `Sponsorship` | `referral-validation.service.ts`, the sponsorship part of signup, `admin-referral.controller.ts`, `network-graph.service.ts`, the rebuild job | `link` is the source of truth; `sponsorOf` (`users.sponsor_id`) and `node` are its copies, `req[c].copy` the sponsor's node a signup has read (`ReadSponsorNode`); locks: `FOR SHARE` on the code, the row lock its update takes |
| `Trust` | `dispute.service.ts`, `return.service.ts`, `hold.service.ts`, `clawback.job.ts`, the propagation, escalation and eligibility jobs | `inflight` is the bag of requests between read and write; `prop` is where the propagation job stands, event by event |
| `Market` | `listing.service.ts`, `checkout.service.ts` with its inventory locks, the locks of the transactions that settle an order, `cart.service.ts` | a checkout, and a settlement (confirm or release), locks one inventory row per action; `order[k]` is the order under an idempotency key |
| `Policy` | `admin-policy.service.ts`, the lookup of the version in force | an activation is validation, the read of the active version and the transaction |
| `Operations` | crons and processors in `A/queue`, `qualification-engine.service.ts`, replay in `ops.service.ts` | extends `Policy`; `job` is the job in each Bull queue, `dead` the dead letters, `qual` the qualification rows, written one user at a time |
| `MC...` (one per checked module) | instances for TLC | symmetry sets, amounts, item lists, drafts |
| `..._proofs` (eight) | theorems | section 4 |

Left out on purpose: a commission hold (the release job looks for one, but no code
ever places one); `expires_at` and the other clocks, which are flags (`due`, `age`)
that may be raised at any time; Stripe refunds, whose branch in `cancelOrder` is not
reachable; statuses no code writes (`BATCHED` and `CANCELLED` of a payout,
`under_review` of a dispute, `escalated` of a return). In `Commission` the database is
PostgreSQL in both branches of `NODE_ENV`.

## 3. Runs

Passing runs (bounds are the constants of the `.cfg` files):

| Run | Question | Bounds and why they suffice |
|---|---|---|
| `inventory_races` | What survives every interleaving? Where a guarantee does not: which overlap exactly takes it away (`SettledOnce`, `StockAccounted`)? | 1 listing (the rows of different listings never meet), 2 reservations, quantities up to 2, 3 units: enough to sell out, return and sell again. 2 settlers, 1 customer, 1 admin: two settlements of one reservation, and each of them, and a reservation, beside an adjustment |
| `order_webhook_races` | Do webhook, its duplicate, verify and payment intents keep order, payment and outbox consistent; does the order implement `OrderLifecycle`; does a charge lead to a paid order and every hold end? | 2 workers (a lock has one holder and one waiter), 2 intents (an earlier failed attempt), 1 crash, 1 abort |
| `order_all_races` | What survives cancellations and admin moves as well? | 2 workers of any kind, interchangeable, 1 intent; administrators start packing or cancel; cards may fail |
| `earnings_commissions` | Is every commission booked once, released whole and clawed back exactly? | 2 users, paths of up to 2 levels (all of them, `upline` is chosen initially), 2 outbox runs, 1 release run, 1 clawback run, 1 abort; policy and qualifications change at any time |
| `earnings_payouts` | Is nobody paid more than was released; does the ledger hold of a request what its status says, also when a payout fails after its commit; is nothing sent that was given back; is the due released? | 1 commission of 2, amounts 1 and 2 (the half that can be approved and the whole that cannot), 2 requests, 2 request calls, 1 reviewer, 2 batch runs; the network graph is corrected at any time |
| `accounts_races` | What do the limits on one-time passwords and the rotation of refresh tokens guarantee when calls overlap or are cut short? | 1 phone (rows of different phones never meet), 2 calls, 2 wrong codes per attempt, 1 failed attempt per hour, 3 attempts (2 once calls have overlapped, which keeps the run small and leaves the whole signup after an overlap), 4 tokens: two logins with a rotation each |
| `sponsorship_corrections` | Is a code redeemed within its limit, do paths agree with links, does the computed graph converge? | 3 users (a chain with a middle to correct), 1 founder, 2 requests, limits of 1, 2 corrections, updates or crashes of the rebuild |
| `trust_decisions` | Do holds follow disputes; are clawback events justified, and processed? | 1 dispute and 1 return of one order (different complaints meet only in the commission, which both reach), 2 requests in flight beside the jobs, 1 failure |
| `market_checkouts` | Which deadlocks on inventory rows are possible (`CyclesNeedSettlement`); is a repeated key answered with its own order; do listings stay removed and carts keep their lines? | 2 listings with 2 units, orders that name them in either order, 2 keys, 2 requests, 3 edits: a cycle needs two requests and two rows |
| `operations` | Is there always a version in force and is everybody evaluated under it; does every job end where somebody finds it; is a replay marked only when queued? | 2 administrators, 2 versions, the recalculation queue and one other, 2 users (a run may fail between them), 2 attempts, 1 stall, 3 requests, failures or crashes |

Runs that refute what the repository says of itself, with the findings in
`PROJECT.json`:

| Run | Refutes | What happens |
|---|---|---|
| `order_cancel_race` | `PaidIsNotCancelled` | `cancelOrder` reads `payment_pending`, the webhook commits `paid`, and the save of the cancellation overwrites it with `cancelled` |
| `market_lock_cycle` | `NoLockCycle` | sorting the lines of a checkout does not order the locks of a settlement, which takes an order's items as the database returns them: a checkout and a settlement of the same two listings deadlock |

`order_webhook_races` has no cancellation because of the first. What only the calculation of a
commission reads (order status, upline, policy, qualification) changes as long as a
calculation is ahead (`CalculationAhead`): later changes are seen by no action. A crash
may also come after the last write of a request, which then loses only its answer
(`AnswerLost`).

Other limits. Some properties are stated in the modules and are in no run, because the
code does not have them; others fail when a constant of a passing run is changed. They
delimit what the passing runs and the theorems claim:

* `NoOversell` (`OrderPayment`, `Jobs = {j1}`): the hold expires while the buyer pays, the
  unit is sold again, and confirming an expired hold is a silent no-op.
* `SingleCharge` (two intents, two workers serving them): the request that loses the
  payment row still returns its own client secret, so the buyer can pay twice.
* `FollowsLifecycle` (with `MayCancel = TRUE`): besides `paid`, a cancellation and
  `createPaymentIntent` overwrite each other: a `cancelled` order is written back to
  `payment_pending` by a request that had read `created`.
* `CancelledIsRefunded` (`AdminTargets = {"packing"}`, `MayCancel = TRUE`): a paid
  order that is being packed is cancelled without refund or clawback.
* `ChargedBecomesPaid` allows a charge whose webhook ended in an error or that followed a
  declined first attempt, which makes the later success rejected; a webhook transaction
  the database aborts is answered with 200 and never delivered again.
* Two settlements of one reservation that overlap both pass the status check and both move
  the counters; a reservation between the read and the write of `adjustStock` makes
  `available_qty` negative. `SettledOnce` and `StockAccounted` name these overlaps as the
  only causes. Two admins: an addition between the read and the write of `adjustStock` is
  lost from `total_qty` (`Conservation`).
* `PublishedHasCommission` (`Earnings`): the raw query of the production branch returns
  `payload` undecoded, and no commission is ever created. An order that moves on before
  the outbox run reads it earns no commission either.
* `OneBeneficiaryPerLevel` (two outbox runs, `Corrections = TRUE`): they claim one outbox
  row around a correction of the buyer's upline and credit different users.
* `SentDebitsOnce`: a sent payout is debited by its hold and by its `payout_sent` entry.
* `ClawbackIsFinal`: a release that read `pending` overwrites `clawed_back` with
  `available`; the ledger stays right (`CommissionBookedOnce`). A commission booked after
  its order's clawback stays.
* `SentOrCredited` (`Earnings`): the recovery of a failed payout credits the amount back
  whatever the row says. A request whose `COMMIT` went through but was not acknowledged, or
  one that another batch has sent since it was listed and whose re-read fails, is both sent
  and credited, and its row reads `failed`. Nobody gains by it (`PaidFromEarnings`), since
  a sent payout was debited twice.
* Two reviewers in `Earnings_payouts.cfg`: approve and reject of one request both commit,
  and it is sent after it was given back (`GivenBackStaysUnsent`); with three reviewers and
  three requests even more than was released is paid out (`PaidFromEarnings`).
* `NoLockCycle` (`Market`) holds only while every order has one line; each deadlock needs the
  settlement of an order of several (`CyclesNeedSettlement`). PostgreSQL ends one of the two
  transactions (`GiveUp`); the `.catch` around the release of a line does not save it.
* A crash inside a payout batch leaves its row in `processing`, and the unique index then
  refuses every later batch: no liveness of payouts holds.
* `NoSponsorCycle` (`Sponsorship`): `correctSponsor` looks for the user in the path of the
  new sponsor's link, which an earlier correction above it has left out of date, so two
  users can end up above each other. Accounts per device are counted without a lock.
* A signup saves the sponsor's `network_nodes` row as it has read it, counters raised: what
  the rebuild wrote in between is lost until the next rebuild (`GraphConverges`).
* A clawback event is marked processed whatever became of its clawback: `ProcessedMeansClawed`
  names the three ways in which the commission is left: its debit failed, it was booked only
  afterwards, or its window was closed when the job looked at it.
* In `Trust` an escalated dispute that is closed keeps its hold; this is why
  `HoldFollowsDispute` says nothing of closed disputes.
* A replay of dead letters of `commission-outbox` and of `qualification-recalc` is refused:
  `getQueueByName` does not know these queues. No dead letter is left
  by a job that stalled too often, nor by one whose dead letter the database refuses (the
  listener's rejection is logged and the process lives on, `main.ts:55`) or whose process
  dies before it: `JobsEnd` names these three cases as the only ones.
* A suspended user who meets the rules is reactivated by the next recalculation, every half
  hour, and a restored one who does not is deactivated: `EvaluatedUnderPolicy` says of the
  status as well that it ends up as the version in force decides.

Deadlock checking is off (`CHECK_DEADLOCK FALSE`) where the system really may stop: an
order that is finished, or a commission past its window, has nothing left to do.

### Fairness

* `OrderPayment`: a request in flight runs on and PostgreSQL grants row locks in queue
  order, so strong fairness of a worker's `OrderTransaction`; Stripe redelivers an
  event until it sees 200, so strong fairness of its delivery; the expiry job is
  scheduled every 5 minutes, so weak fairness of `Expiry`.
* `Earnings`: outbox and release job are scheduled every 1 and 10 minutes and take an
  eligible row in every run: weak fairness of taking it, strong fairness of the commit,
  that is, a run does not crash or lose its race every single time.
* `Sponsorship`: a request runs to its end and PostgreSQL grants its locks; the rebuild
  is part of the recalculation scheduled every 30 minutes: weak fairness of each request's step and of the
  rebuild's.
* `Trust`: the propagation job is scheduled every 30 minutes: weak fairness of its step.
* `Operations`: crons fire and processors take jobs as long as the process runs or is
  restarted: weak fairness of each queue's step.
* Nothing is assumed of buyers, cards, reviewers, administrators or batch runs;
  `Inventory`, `Accounts` and `Market` assume no fairness.

## 4. Proofs

All theorems hold for every set of rows and of requests and for every bound. TLAPS checks
them from the named assumptions on constants alone (bounds are naturals, calls in flight
are finitely many where they are counted, sets are
included or disjoint), plus the hypotheses named here.

| Module | Theorem | States | Hypothesis |
|---|---|---|---|
| `Inventory_proofs` | `TypeCorrect` | `Spec => []TypeOK` | |
| | `SoldOutListings` | `Spec => NoStockStranded` | |
| | `StockConserved` | `Spec => []Conservation` | `OneAdmin`: at most one admin request in flight |
| | `ReservationSettled` | `AuditSpec => []SettledOnce` | |
| | `StockIsAccounted` | `AuditSpec => []StockAccounted` | |
| `OrderPayment_proofs` | `PaidOrdersCharged` | `Spec => []PaidMeansCharged` | `NoManualPayment`: administrators do not set orders to `paid` |
| | `EndedOrdersHoldNothing` | `Spec => []NoHoldAfterEnd` | `NoManualFailure`: administrators do not set orders to `payment_failed` |
| | `OnePaidRow` | `Spec => []OnePaidEvent` | `WebhooksOnly`: nobody cancels, administrators move no order, one payment intent is requested at a time |
| | `PaidIsCaptured` | `Spec => []PaidHasCapturedPayment` | `WebhooksOnly` |
| | `ImplementsLifecycle` | `Spec => FollowsLifecycle` | `WebhooksOnly` |
| `Earnings_proofs` | `BookedOnce` | `Spec => []CommissionBookedOnce` | |
| | `ReleasedWhole` | `Spec => []ReleaseIsWhole` | |
| | `GivenBackIsFinal` | `Spec => GivenBackStaysUnsent` | `OneReviewer`: at most one review in flight |
| | `RequestsHoldTheirAmount` | `Spec => []RequestsBooked` | `OneReviewer` |
| | `NobodyIsOverpaid` | `Spec => []PaidFromEarnings` | `OneReviewer` |
| `Accounts_proofs` | `LinearRotation` | `Spec => []RotationIsLinear` | |
| | `LogoutIsFinal` | `Spec => LoggedOutStaysOut` | |
| | `MarkedCodeIsSpent` | `Spec => []OtpIsSpent` | |
| | `FiveStrikes` | `Spec => []StrikesEnforced` | |
| | `GuessesAreBounded` | `Spec => []HourlyGuessLimit` | |
| `Sponsorship_proofs` | `NobodyAbove` | `Spec => []NobodyAboveThemselves` | |
| | `RedemptionLimit` | `Spec => []RedemptionsWithinLimit` | |
| | `UplinesAreWhole` | `Spec => []PathsAreChains` | |
| | `SponsorsAgree` | `Spec => []SponsorInSync` | |
| `Trust_proofs` | `HoldsMatch` | `Spec => []HoldFollowsDispute` | |
| | `ClawbacksRight` | `Spec => []ClawbackJustified` | |
| | `ProcessedClawed` | `Spec => []ProcessedMeansClawed` | |
| `Market_proofs` | `DeadlockNeedsSettlement` | `Spec => []CyclesNeedSettlement` | |
| | `RightAnswers` | `Spec => []AnswersMatchCart` | |
| | `RemovalHolds` | `Spec => RemovedIsFinal` | |
| | `CartKept` | `Spec => CartNeverShrinks` | |
| `Operations_proofs` | `ReplaysQueued` | `Spec => []ReplayedWasQueued` | |
| | `PolicyStays` | `Spec => NeverWithoutPolicy` | |
| | `OverlapNeeded` | `Spec => SecondActiveNeedsOverlap` | |

The hypotheses are necessary, see the limits above. Almost no property is inductive:
a commit acts on what its request has read, so each invariant adds what may be said of
that reading.

*Sums.* Balances, counters of reservations and guesses are sums over sets. A fold is a
recursive definition, whose induction the provers cannot do, so a sum is the number of
its units: `Units`, `UnitsOf` and `GuessesUnder` pair every row with 1 to its amount, and a
debit counts apart from a credit. That a union of disjoint sets adds up (`SumOfUnion`) and
that a new row adds its amount (`SumGrows`, `UnitsAdded`) then follow from the library's
theorems about finite sets; `Counted` carries that the sets are finite, which nothing
assumes of the rows.

*Inventory.* `CommitAdjust` overwrites `total_qty` with a number and adds a difference to
`available_qty`, and these agree only if `total_qty` is still what `BeginAdjust` read. The
strengthening `AdjustAgrees` says just that of every open adjustment; it survives because
with one admin no other transaction writes `total_qty`. The stock
argument rests on the lemmas `SettledCounters` (what settling does to one row) and
`SettleMovesQty`. `SettledBy` says of one reservation: as long as it was not settled, the
calls that are settling it are right about it; once it was, no call begins any more, and
those that are left overlapped with the one that settled it. So settlements done and under
way never exceed the calls there are. `Counts` says that reserved and sold are the units of
the reservations with that status: a settlement moves one row's units from one set to
another, and the first settlement of a row finds them in the set of the reserved.
`StockLeft` says that an open adjustment still leaves the stock it has checked, unless the
listing is `undercut`. `NoStockStranded` is proved action by action: the listing status is
always written in the transaction that moves the counter it depends on.

*Orders and payments.* `ChargeInv` adds that Stripe reports only successes that happened
(`SuccessReported`), that payment rows and `createPaymentIntent` requests name intents of
their own order (`PaymentsBelong`, `IntentsBelong`), that who updates a payment row has
found it (`PaymentsExist`), that webhooks of success and verifications run for charged
orders (`PaidOpsCharged`), and that an administrator's move into a paid status was decided
on a paid status (`AdminCharged`). The last one is why the stale write of `cancelOrder` and
of `adminUpdateOrderStatus` does no harm to this property: a charge is never undone, so a
decision taken on a charged order stays right. The proof has three layers: what an action
does to a request and to the rows (`Steps`), that every action takes such steps
(`StepsTaken`), and that such steps keep the invariant (`InvariantKept`). Without the
hypothesis the table lets an administrator enter `paid` from `payment_pending`.

`EndedOrdersHoldNothing` rests on `HoldInv`: a transaction that holds the order's row has
read its reservation under that lock (`HeldKnown`), so what it leaves when it ends the order
is not reserved, except what the expiry job has settled meanwhile. This holds beside stale
writes as well, since every way into `cancelled` and `payment_failed` releases the
reservation; only an administrator who sets `payment_failed` does not, and with that status
in `AdminTargets` TLC finds `NoHoldAfterEnd` violated.

The other three theorems rest on `SerialInv`. No order row is locked before it is read,
so a commit may overwrite a status its transaction has not seen. Webhooks and
verifications are safe only because they update, and so lock, the *payment* row first:
at most one of the transactions of an order is open (`OneInTx`), and what it decided still
holds when it writes (`Served`, `DecidedRight`). That needs a webhook always to find its
payment row, hence `KnownAreSaved`: the client gets the secret of an intent, and Stripe
sends events about it, only once the payment row names that intent. `AgreesAt` ties order,
payment row and outbox together. Cancellations, administrators and `createPaymentIntent`
do not lock the payment row, which is why `WebhooksOnly` excludes the first two and allows
one `createPaymentIntent` at a time, which commits before a payment row exists:
`order_cancel_race` shows what a cancellation does to a paid order, and a second `createPaymentIntent` that
has read `created` writes `payment_pending` over `paid` (`FollowsLifecycle` fails with
`IntentWorkers = {w1, w2}`).

*Earnings.* Commissions and payouts share the ledger, which only grows, and they write
disjoint kinds of entries (`GrowsBy`), so each half is proved without the other.
`ReleaseInv`: a release run that has read an event is still about an event that is due,
however it has moved since; the unique key of the credit then makes release and offset one
step. `BookedInv` reads the sum of a commission's entries off two facts, whether its pending
entry and whether its clawback are written: a release adds nothing in all, and a run that
claws back has seen the event. `PayoutInv`: the unique index leaves one batch open, a request under review is
still `requested`, one that an open batch is about to send is still `approved`, one that it
recovers is approved or was sent or recovered before, and a ledger entry that sends or
credits a request agrees with its status. `MoneyInv` says what each request has booked
(`DebitOf`) and that a user has at most one active request, which is debited. Once its
approval has begun, the credits that user was given exceed what was sent by at least its
amount, because the check before the approval counts every debit (`UserPaid`): so sending
it never pays more than was released. What is
reserved of a user's balance is the debits of the requests not given back (`OpenDebits`),
so a recovery credits only what was debited before; clawbacks only lower the balance that
is checked.

*Accounts.* What survives of a login are its *heirs*: tokens that are not revoked, and
refreshes that have revoked one and not yet issued the next. Every step of a call moves the
one heir or removes it (`OneHeir`), unless it revokes what is revoked already; expired
tokens are heirs too, because a refresh that read one before it expired still rotates it.
A one-time password (`OtpInv`) counts the sessions it has opened together with the calls
that may still open one; no call joins these once it is marked. `Lockout` describes a phone
whose calls never overlapped: the attempt row that the one running call has copied is
still the stored one, at most one attempt is open, each attempt has seen as many wrong codes
as it has strikes, one more only while the call is about to save it, and there are at most
`MaxFailures + 1` unanswered attempts.

*Sponsorship.* A user who is signing up is in no path yet, because paths hold only members
and no two requests sign one user up; a correction has looked for its user in the very path
it continues. `RedeemInv`: a code whose shared lock is held has a use left for its holder,
since the update of a second holder waits for the first one's lock. `PathInv`: a link's
path and every path a request has read continue the sponsor's link, or that sponsor has
been corrected since, and then there is nothing left to show (`Continues`, `Steady`); a
signup that waits for a link finds it again or its sponsor was corrected. `SyncInv`: as
long as the corrections and updates of a user have not overlapped, the one under way is
alone and what it has read, the active link or the sponsor, still is there.

*Trust.* A dispute or return that is not contested has at most one request in flight
(`Alone`), so what that request has read is still so (`ReadsHold`). `PropOK` and `ClawedInv`
say of the propagation job how far it is with the event it marks next.

*Market.* Every inventory row a checkout holds comes before every row it still has to
lock, and a settlement of one line holds none while it wants one. In a set of such
transactions in which each waits for another, the rows waited for would
ascend for ever; that they have a last one is the assumption that listings do, by
well-founded induction. `WritesInv` says of the other requests which row they will write
and what they have read of it.

*Operations.* `OpsInv` says that the row numbers a request remembers are rows of the
tables and that a request about to mark an event has put its job into a queue.

Every safety property of a passing run is proved, under the hypotheses of the table.
Only model-checked is every liveness property (`ChargedBecomesPaid`, `HoldEnds`,
`DueIsReleased`, `GraphConverges`, `EventsAreProcessed`, `JobsEnd`, `EvaluatedUnderPolicy`), as
the provers do neither fairness nor `ENABLED`.

## 5. Not modelled, and the plan

* Fraud and moderation: nothing but tests calls `recordSignal`, so the aggregation job finds
  no signals. If it did, its fixed key `fraud-aggregation-hold:<user>` would never hold a
  user again after the first hold was released.
* Rank assignment: `assignRank` has no caller besides its tests.
* Volumes are never written, so whether a user meets the rules of a version is a constant
  (`Qualifying`); `refund_triggered` events have no consumer.
* Schema and migrations: their unique constraints are guards of the actions that insert.
* Audit log, media, homepage, reporting of `ops`, listing images and categories, controllers
  and DTO validation: input and output without protocol state. The front end is not
  looked at.

The modules were written in the order inventory, orders and payments, commissions and
payouts, and then accounts, sponsorship, complaints, market, policy and operations. What
is left is proof: theorems that replace the hypotheses `OneReviewer`, `OneAdmin` and
`WebhooksOnly` by the exact overlap that breaks the property, as `InventoryAudit` does for
settlements and adjustments.

Run a configuration with `tlc -config <file>.cfg <MC module>` and the proofs with
`tlapm <module>_proofs.tla`.
