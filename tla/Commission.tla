----------------------------- MODULE Commission ------------------------------
(***************************************************************************)
(* The commission engine: the outbox rows of paid orders become commission *)
(* events for the buyer's upline (commission-calculation.service), pending *)
(* events become available (commission-release.job) or are clawed back     *)
(* (clawback.job); every step books ledger entries.                        *)
(*                                                                         *)
(* FOR UPDATE SKIP LOCKED is issued outside a transaction, so its locks    *)
(* are gone when the statement ends: two processors do claim one row.  No  *)
(* code places a commission hold, so the release job never finds one.  A   *)
(* job's list is walked one row at a time.                                 *)
(***************************************************************************)
EXTENDS Ledger, FiniteSets, Sequences

CONSTANTS
    Users, Orders,
    MaxLevel,       \* MAX_COMMISSION_LEVELS
    Amount,         \* commission of a level on an order, rounded and capped
    Calculators,    \* runs of the outbox processor: the cron job, an admin's trigger
    Releasers,      \* runs of the release job
    Clawers,        \* clawbacks: an admin's, the hold propagation job's
    MaxRetries,     \* COMMISSION_MAX_RETRIES
    Churn,          \* bound: whether paid orders, policies and qualifications change
    Corrections,    \* whether the network graph is corrected
    MaxAborts       \* bound on transactions the database aborts

VARIABLES
    nodeEnv,        \* NODE_ENV of the deployment
    order,          \* orders.status: not paid yet, paid, or moved on from paid
    outbox,         \* money_event_outbox
    upline,         \* network_nodes.upline_path of the order's buyer
    policy,         \* whether a compensation policy is active
    qualified,      \* the users qualification_states says are qualified
    event,          \* commission_events
    work,           \* what each run in progress has read
    aborts

\* The buyer is not in its own upline; a path names a user once.
Paths == {p \in UNION {[1..n -> Users] : n \in 0..MaxLevel} :
            \A i, j \in DOMAIN p : p[i] = p[j] => i = j}

\* A commission event is unique per order, level and beneficiary.
Events == Orders \X (1..MaxLevel) \X Users
Earned(e) == Amount[e[2]]
Beneficiary(e) == e[3]

NoRow == [status |-> "absent", errors |-> 0]
NoEvent == [status |-> "absent", age |-> "held"]
NoWork == [op |-> "none"]

Work ==
    {NoWork}
    \union [op: {"calc"}, pc: {"claimed", "paid", "planned"}, o: Orders, errors: Nat, path: Paths]
    \union [op: {"release"}, pc: {"read"}, e: Events]
    \union [op: {"clawback"}, pc: {"listed", "read"}, e: Events,
            type: {"clawback", "commission_reversed"}]

Workers == Calculators \union Releasers \union Clawers

CommissionTypeOK ==
    /\ nodeEnv \in {"test", "production"}
    /\ order \in [Orders -> {"unpaid", "paid", "moved"}]
    /\ outbox \in [Orders -> [status: {"absent", "unpublished", "published"}, errors: Nat]]
    /\ upline \in [Orders -> Paths]
    /\ policy \in BOOLEAN
    /\ qualified \subseteq Users
    /\ event \in [Events -> [status: {"absent", "pending", "available", "clawed_back"},
                             age: {"held", "due", "closed"}]]
    /\ work \in [Workers -> Work]
    /\ aborts \in 0..MaxAborts

CommissionInit ==
    /\ nodeEnv \in {"test", "production"}
    /\ order = [o \in Orders |-> "unpaid"]
    /\ outbox = [o \in Orders |-> NoRow]
    /\ upline \in [Orders -> Paths]
    /\ policy = TRUE
    /\ qualified = Users
    /\ event = [e \in Events |-> NoEvent]
    /\ work = [w \in Workers |-> NoWork]
    /\ aborts = 0

commissionVars ==
    <<nodeEnv, order, outbox, upline, policy, event, work, aborts>>

world == <<nodeEnv, order, upline, policy, qualified>>

Free(w) == work[w] = NoWork
At(w, pc) == ~Free(w) /\ work[w].pc = pc
Finish(w) == work' = [work EXCEPT ![w] = NoWork]

(***************************************************************************)
(* The rest of the system                                                  *)
(***************************************************************************)
\* The payment transaction: the order is paid and its outbox row written.
OrderPaid(o) ==
    /\ order[o] = "unpaid"
    /\ order' = [order EXCEPT ![o] = "paid"]
    /\ outbox' = [outbox EXCEPT ![o].status = "unpublished"]
    /\ UNCHANGED <<nodeEnv, upline, policy, qualified, event, work, aborts, ledger>>

\* Orders, policies, qualifications and uplines are read by the calculation alone:
\* changes that no calculation can see any more are left out.
CalculationAhead ==
    \/ \E o \in Orders : outbox[o].status # "published"
    \/ \E c \in Calculators : ~Free(c)

\* Packed, refunded, disputed, ...
OrderMoves(o) ==
    /\ Churn /\ order[o] = "paid" /\ CalculationAhead
    /\ order' = [order EXCEPT ![o] = "moved"]
    /\ UNCHANGED <<nodeEnv, outbox, upline, policy, qualified, event, work, aborts, ledger>>

CorrectUpline(o, path) ==
    /\ Corrections /\ CalculationAhead
    /\ upline' = [upline EXCEPT ![o] = path]
    /\ UNCHANGED <<nodeEnv, order, outbox, policy, qualified, event, work, aborts, ledger>>

Requalify(u) ==
    /\ Churn /\ CalculationAhead
    /\ qualified' = IF u \in qualified THEN qualified \ {u} ELSE qualified \union {u}
    /\ UNCHANGED <<commissionVars, ledger>>

ChangePolicy ==
    /\ Churn /\ CalculationAhead
    /\ policy' = ~policy
    /\ UNCHANGED <<nodeEnv, order, outbox, upline, qualified, event, work, aborts, ledger>>

\* payout_delay_days pass, then clawback_window_days.
TimePasses(e) ==
    /\ event[e].status # "absent" /\ event[e].age # "closed"
    /\ event' = [event EXCEPT ![e].age = IF @ = "held" THEN "due" ELSE "closed"]
    /\ UNCHANGED <<world, outbox, work, aborts, ledger>>

(***************************************************************************)
(* processUnpublishedEvents and processOutboxEvent                         *)
(***************************************************************************)
\* The claimed row is a snapshot.  The test branch loads entities and has no
\* retry limit.
Claim(c, o) ==
    /\ Free(c)
    /\ outbox[o].status = "unpublished"
    /\ nodeEnv # "test" => outbox[o].errors < MaxRetries
    /\ work' = [work EXCEPT ![c] = [op |-> "calc", pc |-> "claimed", o |-> o,
                                    errors |-> outbox[o].errors, path |-> <<>>]]
    /\ UNCHANGED <<world, outbox, event, aborts, ledger>>

\* The rows of the raw query hold the text column payload undecoded: its fields
\* are undefined, and a look-up by an undefined value finds an arbitrary row.
Parsed == nodeEnv = "test"

OrderRead(c) == IF Parsed THEN {work[c].o} ELSE Orders
PathRead(c) == IF Parsed THEN {upline[work[c].o]} ELSE Paths

Publish(c) ==
    /\ outbox' = [outbox EXCEPT ![work[c].o].status = "published"]
    /\ Finish(c)

SkipUnpaid(c) ==
    /\ At(c, "claimed")
    /\ \E o \in OrderRead(c) : order[o] # "paid"
    /\ Publish(c)
    /\ UNCHANGED <<world, event, aborts, ledger>>

VerifyPaid(c) ==
    /\ At(c, "claimed")
    /\ \E o \in OrderRead(c) : order[o] = "paid"
    /\ work' = [work EXCEPT ![c].pc = "paid"]
    /\ UNCHANGED <<world, outbox, event, aborts, ledger>>

\* No active policy, or no upline.
SkipUnearning(c) ==
    /\ At(c, "paid")
    /\ ~policy \/ <<>> \in PathRead(c)
    /\ Publish(c)
    /\ UNCHANGED <<world, event, aborts, ledger>>

ReadUpline(c) ==
    /\ At(c, "paid")
    /\ policy
    /\ \E path \in PathRead(c) \ {<<>>} :
          work' = [work EXCEPT ![c].pc = "planned", ![c].path = path]
    /\ UNCHANGED <<world, outbox, event, aborts, ledger>>

\* The events the transaction inserts: one per level with a rule that pays and a
\* qualified beneficiary.
Due(c) ==
    {<<work[c].o, l, work[c].path[l]>> :
        l \in {k \in DOMAIN work[c].path : work[c].path[k] \in qualified /\ Amount[k] > 0}}

PendingEntry(e) ==
    Entry("commission-pending", e, "commission_pending", Beneficiary(e), Earned(e))

Calculate(c) ==
    /\ At(c, "planned")
    /\ Parsed \/ Due(c) = {}
    /\ \A e \in Due(c) : event[e].status = "absent"
    /\ event' = [e \in Events |->
                    IF e \in Due(c) THEN [status |-> "pending", age |-> "held"] ELSE event[e]]
    /\ WriteEntries({PendingEntry(e) : e \in Due(c)})
    /\ Publish(c)
    /\ UNCHANGED <<world, aborts>>

\* The transaction fails: an event exists already and its unique violation has
\* aborted the transaction, or order_id is null.  The counter is set from the snapshot.
CountError(c) ==
    /\ outbox' = [outbox EXCEPT ![work[c].o].errors = work[c].errors + 1]
    /\ Finish(c)

CalculationFails(c) ==
    /\ At(c, "planned")
    /\ \/ ~Parsed /\ Due(c) # {}
       \/ \E e \in Due(c) : event[e].status # "absent"
    /\ CountError(c)
    /\ UNCHANGED <<world, event, aborts, ledger>>

CalculationAborts(c) ==
    /\ At(c, "planned")
    /\ aborts < MaxAborts /\ aborts' = aborts + 1
    /\ CountError(c)
    /\ UNCHANGED <<world, event, ledger>>

(***************************************************************************)
(* CommissionReleaseJob                                                    *)
(***************************************************************************)
BeginReleaseEarly(r, e) ==      \* mutant: available_after is not looked at
    /\ Free(r)
    /\ event[e].status = "pending"
    /\ work' = [work EXCEPT ![r] = [op |-> "release", pc |-> "read", e |-> e]]
    /\ UNCHANGED <<world, outbox, event, aborts, ledger>>

BeginRelease(r, e) ==
    /\ Free(r)
    /\ event[e].status = "pending" /\ event[e].age # "held"
    /\ work' = [work EXCEPT ![r] = [op |-> "release", pc |-> "read", e |-> e]]
    /\ UNCHANGED <<world, outbox, event, aborts, ledger>>

ReleaseEntriesNoOffset(e) ==    \* mutant: the pending entry is not offset
    {Entry("release-credit", e, "commission_available", Beneficiary(e), Earned(e))}

ReleaseEntries(e) ==
    {Entry("release-offset", e, "commission_pending", Beneficiary(e), -Earned(e)),
     Entry("release-credit", e, "commission_available", Beneficiary(e), Earned(e))}

CommitReleaseKeepsStatus(r) ==      \* mutant: the event stays pending
    /\ At(r, "read") /\ work[r].op = "release"
    /\ CanWrite(ReleaseEntries(work[r].e))
    /\ WriteEntries(ReleaseEntries(work[r].e))
    /\ Finish(r)
    /\ UNCHANGED <<world, outbox, event, aborts>>

\* The status is written by primary key, whatever it is by now.
CommitRelease(r) ==
    LET e == work[r].e IN
    /\ At(r, "read") /\ work[r].op = "release"
    /\ CanWrite(ReleaseEntries(e))
    /\ event' = [event EXCEPT ![e].status = "available"]
    /\ WriteEntries(ReleaseEntries(e))
    /\ Finish(r)
    /\ UNCHANGED <<world, outbox, aborts>>

(***************************************************************************)
(* ClawbackJob.clawbackForOrder                                            *)
(***************************************************************************)
ListForClawback(x, e) ==
    /\ Free(x)
    /\ event[e].status \in {"pending", "available"}
    /\ ~(event[e].status = "available" /\ event[e].age = "closed")
    /\ work' = [work EXCEPT ![x] = [op |-> "clawback", pc |-> "listed", e |-> e, type |-> "clawback"]]
    /\ UNCHANGED <<world, outbox, event, aborts, ledger>>

BeginClawback(x) ==
    LET status == event[work[x].e].status IN
    /\ At(x, "listed")
    /\ status # "clawed_back"
    /\ work' = [work EXCEPT ![x].pc = "read",
                            ![x].type = IF status = "pending" THEN "commission_reversed" ELSE @]
    /\ UNCHANGED <<world, outbox, event, aborts, ledger>>

ClawbackEntry(e, type) == Entry("clawback", e, type, Beneficiary(e), -Earned(e))

CommitClawback(x) ==
    LET e == work[x].e
        entries == {ClawbackEntry(e, work[x].type)}
    IN
    /\ At(x, "read") /\ work[x].op = "clawback"
    /\ CanWrite(entries)
    /\ event' = [event EXCEPT ![e].status = "clawed_back"]
    /\ WriteEntries(entries)
    /\ Finish(x)
    /\ UNCHANGED <<world, outbox, aborts>>

\* A run stops where it is: its transaction hits a key that exists, it finds the
\* event clawed back, its process dies.
Stop(w) ==
    /\ ~Free(w)
    /\ Finish(w)
    /\ UNCHANGED <<world, outbox, event, aborts, ledger>>

CommissionNext ==
    \/ \E o \in Orders : OrderPaid(o) \/ OrderMoves(o)
    \/ \E o \in Orders, path \in Paths : CorrectUpline(o, path)
    \/ \E u \in Users : Requalify(u)
    \/ ChangePolicy
    \/ \E e \in Events : TimePasses(e)
    \/ \E c \in Calculators, o \in Orders : Claim(c, o)
    \/ \E c \in Calculators :
          \/ SkipUnpaid(c) \/ VerifyPaid(c) \/ SkipUnearning(c) \/ ReadUpline(c)
          \/ Calculate(c) \/ CalculationFails(c) \/ CalculationAborts(c)
    \/ \E r \in Releasers, e \in Events : BeginRelease(r, e)
    \/ \E r \in Releasers : CommitRelease(r)
    \/ \E x \in Clawers, e \in Events : ListForClawback(x, e)
    \/ \E x \in Clawers : BeginClawback(x) \/ CommitClawback(x)
    \/ \E w \in Workers : Stop(w)
==============================================================================
