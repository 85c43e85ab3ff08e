------------------------------- MODULE Payout --------------------------------
(***************************************************************************)
(* Payout requests and batches (modules/payout).  A request row is read    *)
(* without a lock and saved by primary key: reading (Begin...) and writing *)
(* (Commit...) are two actions.                                            *)
(***************************************************************************)
EXTENDS Ledger, FiniteSets

CONSTANTS
    Users,
    Payouts,        \* payout requests, named by their idempotency key
    PayoutAmounts,  \* amounts users ask for, all at or above the minimum
    Requesters,     \* createPayoutRequest calls in flight
    Reviewers,      \* administrators approving or rejecting
    Runners         \* executeBatch calls in flight

VARIABLES
    qualified,      \* users who are active and qualified
    payout,         \* payout_requests
    processing,     \* whether a payout_batches row has status processing
    held,           \* users with an active payout hold
    task            \* what each call in flight has read

Actors == Requesters \union Reviewers \union Runners

Absent == [status |-> "absent"]
Active == {"requested", "approved"}
PayoutRow ==
    {Absent} \union
    [status: Active \union {"rejected", "sent", "failed"}, user: Users, amount: PayoutAmounts]

NoTask == [op |-> "none"]
Task ==
    {NoTask}
    \union [op: {"request"}, p: Payouts, user: Users, amount: PayoutAmounts]
    \union [op: {"approve", "reject", "sending", "recovering"}, p: Payouts, todo: SUBSET Payouts]
    \union [op: {"listed", "open"}, todo: SUBSET Payouts]

PayoutTypeOK ==
    /\ payout \in [Payouts -> PayoutRow]
    /\ processing \in BOOLEAN
    /\ held \subseteq Users
    /\ task \in [Actors -> Task]

PayoutInit ==
    /\ payout = [p \in Payouts |-> Absent]
    /\ processing = FALSE
    /\ held = {}
    /\ task = [a \in Actors |-> NoTask]

Idle(a) == task[a] = NoTask
Done(a) == task' = [task EXCEPT ![a] = NoTask]
SetStatus(p, status) == payout' = [payout EXCEPT ![p].status = status]

ActiveOf(u) == {p \in Payouts : payout[p].status \in Active /\ payout[p].user = u}

PayoutEntry(kind, p, type, row, sign) == Entry(kind, p, type, row.user, sign * row.amount)

(***************************************************************************)
(* createPayoutRequest                                                     *)
(***************************************************************************)
BeginRequest(a, p, u, amount) ==
    /\ Idle(a)
    /\ payout[p] = Absent
    /\ u \in qualified
    /\ ActiveOf(u) = {}
    /\ AvailableBalance(u) >= amount
    /\ task' = [task EXCEPT ![a] = [op |-> "request", p |-> p, user |-> u, amount |-> amount]]
    /\ UNCHANGED <<ledger, qualified, payout, processing, held>>

\* The unique keys: one row per idempotency key, one active request per user.
CommitRequest(a) ==
    LET t == task[a]
        row == [status |-> "requested", user |-> t.user, amount |-> t.amount]
    IN
    /\ t.op = "request"
    /\ payout[t.p] = Absent
    /\ ActiveOf(t.user) = {}
    /\ payout' = [payout EXCEPT ![t.p] = row]
    /\ WriteEntries({PayoutEntry("payout-requested", t.p, "payout_requested", row, -1)})
    /\ Done(a)
    /\ UNCHANGED <<qualified, processing, held>>

(***************************************************************************)
(* approvePayoutRequest and rejectPayoutRequest                            *)
(***************************************************************************)
Review(a, p, op) == task' = [task EXCEPT ![a] = [op |-> op, p |-> p, todo |-> {}]]

BeginApprove(a, p) ==
    /\ Idle(a)
    /\ payout[p].status = "requested"
    /\ AvailableBalance(payout[p].user) >= payout[p].amount
    /\ Review(a, p, "approve")
    /\ UNCHANGED <<ledger, qualified, payout, processing, held>>

CommitApprove(a) ==
    LET p == task[a].p IN
    /\ task[a].op = "approve"
    /\ ActiveOf(payout[p].user) \subseteq {p}
    /\ SetStatus(p, "approved")
    /\ Done(a)
    /\ UNCHANGED <<ledger, qualified, processing, held>>

BeginReject(a, p) ==
    /\ Idle(a)
    /\ payout[p].status = "requested"
    /\ Review(a, p, "reject")
    /\ UNCHANGED <<ledger, qualified, payout, processing, held>>

\* Mutant of CommitReject: the balance is not restored.
CommitRejectKeepsDebit(a) ==
    /\ task[a].op = "reject"
    /\ SetStatus(task[a].p, "rejected")
    /\ Done(a)
    /\ UNCHANGED <<ledger, qualified, processing, held>>

CommitReject(a) ==
    LET p == task[a].p
        entries == {PayoutEntry("payout-rejected", p, "payout_failed", payout[p], 1)}
    IN
    /\ task[a].op = "reject"
    /\ CanWrite(entries)
    /\ SetStatus(p, "rejected")
    /\ WriteEntries(entries)
    /\ Done(a)
    /\ UNCHANGED <<qualified, processing, held>>

(***************************************************************************)
(* executeBatch: list the approved requests, open a batch, then one        *)
(* transaction per request, and one more to recover from its failure.      *)
(***************************************************************************)
Approved == {p \in Payouts : payout[p].status = "approved"}

Step(b, op, p, todo) == task' = [task EXCEPT ![b] = [op |-> op, p |-> p, todo |-> todo]]
Proceed(b, op, todo) == task' = [task EXCEPT ![b] = [op |-> op, todo |-> todo]]

ListApproved(b) ==
    /\ Idle(b)
    /\ Approved # {}
    /\ Proceed(b, "listed", Approved)
    /\ UNCHANGED <<ledger, qualified, payout, processing, held>>

\* A unique index allows one row with status processing.
OpenBatch(b) ==
    /\ task[b].op = "listed"
    /\ ~processing
    /\ processing' = TRUE
    /\ Proceed(b, "open", task[b].todo)
    /\ UNCHANGED <<ledger, qualified, payout, held>>

Payable(p) == payout[p].status = "approved" /\ payout[p].user \notin held

TakePayoutUnchecked(b, p) ==    \* mutant: the row is not read again
    /\ task[b].op = "open" /\ p \in task[b].todo
    /\ Step(b, "sending", p, task[b].todo \ {p})
    /\ UNCHANGED <<ledger, qualified, payout, processing, held>>

TakePayout(b, p) ==
    /\ task[b].op = "open" /\ p \in task[b].todo
    /\ Payable(p)
    /\ Step(b, "sending", p, task[b].todo \ {p})
    /\ UNCHANGED <<ledger, qualified, payout, processing, held>>

SkipPayout(b, p) ==
    /\ task[b].op = "open" /\ p \in task[b].todo
    /\ ~Payable(p)
    /\ Proceed(b, "open", task[b].todo \ {p})
    /\ UNCHANGED <<ledger, qualified, payout, processing, held>>

\* The transaction of the request commits.  The acknowledgement of its COMMIT may
\* be lost with the connection, and then it counts as failed.
SendPayout(b) ==
    LET p == task[b].p
        entries == {PayoutEntry("payout-sent", p, "payout_sent", payout[p], -1)}
    IN
    /\ task[b].op = "sending"
    /\ CanWrite(entries)
    /\ SetStatus(p, "sent")
    /\ WriteEntries(entries)
    /\ Proceed(b, "open", task[b].todo) \/ Step(b, "recovering", p, task[b].todo)
    /\ UNCHANGED <<qualified, processing, held>>

\* It fails before it has read the request, or in reading it or the user's hold,
\* or with nothing left to do: whatever the request has become since it was listed.
ReadFails(b, p) ==
    /\ task[b].op = "open" /\ p \in task[b].todo
    /\ Step(b, "recovering", p, task[b].todo \ {p})
    /\ UNCHANGED <<ledger, qualified, payout, processing, held>>

\* It is aborted after it has found the request approved.
SendFails(b) ==
    /\ task[b].op = "sending"
    /\ Step(b, "recovering", task[b].p, task[b].todo)
    /\ UNCHANGED <<ledger, qualified, payout, processing, held>>

\* The catch block updates by id, without a look at the status.
RecoverPayout(b) ==
    LET p == task[b].p
        entries == {PayoutEntry("payout-batch-failed", p, "payout_failed", payout[p], 1)}
    IN
    /\ task[b].op = "recovering"
    /\ CanWrite(entries)
    /\ SetStatus(p, "failed")
    /\ WriteEntries(entries)
    /\ Proceed(b, "open", task[b].todo)
    /\ UNCHANGED <<qualified, processing, held>>

\* The recovery fails too; the error is logged.
RecoveryFails(b) ==
    /\ task[b].op = "recovering"
    /\ Proceed(b, "open", task[b].todo)
    /\ UNCHANGED <<ledger, qualified, payout, processing, held>>

CloseBatch(b) ==
    /\ task[b].op = "open" /\ task[b].todo = {}
    /\ processing' = FALSE
    /\ Done(b)
    /\ UNCHANGED <<ledger, qualified, payout, held>>

\* A call ends where it is: a check or a unique key refuses it, the process
\* dies.  A batch that was open stays open in the database.
GiveUp(a) ==
    /\ ~Idle(a)
    /\ Done(a)
    /\ UNCHANGED <<ledger, qualified, payout, processing, held>>

(***************************************************************************)
(* Payout holds, placed and lifted by the trust module                     *)
(***************************************************************************)
PlaceHold(u) ==
    /\ held' = held \union {u}
    /\ UNCHANGED <<ledger, qualified, payout, processing, task>>

ReleaseHold(u) ==
    /\ held' = held \ {u}
    /\ UNCHANGED <<ledger, qualified, payout, processing, task>>

PayoutNext ==
    \/ \E a \in Requesters, p \in Payouts, u \in Users, n \in PayoutAmounts :
          BeginRequest(a, p, u, n)
    \/ \E a \in Requesters : CommitRequest(a)
    \/ \E a \in Reviewers, p \in Payouts : BeginApprove(a, p) \/ BeginReject(a, p)
    \/ \E a \in Reviewers : CommitApprove(a) \/ CommitReject(a)
    \/ \E b \in Runners : ListApproved(b) \/ OpenBatch(b) \/ SendPayout(b) \/ SendFails(b)
                             \/ RecoverPayout(b) \/ RecoveryFails(b) \/ CloseBatch(b)
    \/ \E b \in Runners, p \in Payouts : TakePayout(b, p) \/ SkipPayout(b, p)
                                            \/ ReadFails(b, p)
    \/ \E a \in Actors : GiveUp(a)
    \/ \E u \in Users : PlaceHold(u) \/ ReleaseHold(u)
==============================================================================
