--------------------------------- MODULE Trust ---------------------------------
(***************************************************************************)
(* What happens to one order after a complaint: the buyer's disputes and   *)
(* returns, the payout hold a dispute places, the resolution events the    *)
(* decisions write, and the job that turns those events into clawbacks of  *)
(* the commissions the order earned.                                       *)
(*                                                                         *)
(* Every decision is a transaction at READ COMMITTED that reads the row    *)
(* without a lock, checks its status, and then updates it by id whatever   *)
(* it has become: a Begin action (the read) and a Commit action (the       *)
(* write).  The statuses under_review of a dispute and escalated of a      *)
(* return are never written by the code.                                   *)
(***************************************************************************)
EXTENDS Integers, FiniteSets, Bags, BagsExt

CONSTANTS
    Disputes,      \* idempotency keys of requests to open a dispute
    Returns,       \* idempotency keys of requests to return the order
    MaxInFlight,   \* bound: requests of buyer and administrators at one time
    MaxFailures    \* bound: crashes and failed steps of the propagation job

ASSUME TrustAssumption ==
    /\ Disputes \cap Returns = {}
    /\ MaxInFlight \in Nat /\ MaxFailures \in Nat

VARIABLES
    delivered,    \* the order may be returned
    commission,   \* one of the order's commission events: all are treated alike
    dispute,      \* disputes
    hold,         \* the payout hold each dispute places
    ret,          \* return_requests
    event,        \* resolution_events, by idempotency key
    inflight,     \* bag of the requests and jobs between their read and their write
    prop,         \* where the hold propagation job is
    failures,     \* how many failures it has had
    contested,    \* history: disputes and returns decided by overlapping requests
    lifted,       \* history: disputes whose hold an administrator released
    spared        \* history: why a clawback of the order left the commission

vars == <<delivered, commission, dispute, hold, ret, event, inflight, prop, failures,
          contested, lifted, spared>>

DisputeStatus == {"absent", "open", "escalated", "resolved", "closed"}
ReturnStatus == {"absent", "pending_review", "approved", "rejected", "completed"}

\* claw: the column clawback_triggered.
DisputeRow == [status: DisputeStatus, claw: BOOLEAN]
ReturnRow == [status: ReturnStatus, claw: BOOLEAN]
PayoutHoldStatus == {"none", "active", "released"}

\* earned: pending, or available and not past clawback_before; final: available and
\* past it; clawed_back: the clawback is booked, whatever a release run that had read
\* pending writes over the status.  The code writes neither paid nor voided.
CommissionStatus == {"none", "earned", "final", "clawed_back"}

\* It was final; its debit failed; it was booked after the order's clawback.
Reasons == {"final", "error", "late"}

\* The idempotency key of a clawback event; refunds have keys of their own.
\* A return may have two: one from the eligibility job, one from its completion.
EventKeys == (Disputes \X {"decision"}) \union (Returns \X {"decision", "eligibility"})
EventStatus == {"absent", "recorded", "processed"}

\* Jobs that decide beside the administrators, each one dispute or return at a time.
Jobs == {"auto_escalate", "eligibility"}

TypeOK ==
    /\ delivered \in BOOLEAN
    /\ commission \in CommissionStatus
    /\ dispute \in [Disputes -> DisputeRow]
    /\ hold \in [Disputes -> PayoutHoldStatus]
    /\ ret \in [Returns -> ReturnRow]
    /\ event \in [EventKeys -> EventStatus]
    /\ failures \in 0..MaxFailures
    /\ contested \subseteq Disputes \union Returns
    /\ lifted \subseteq Disputes
    /\ spared \subseteq Reasons

Init ==
    /\ delivered = FALSE
    /\ commission = "none"
    /\ dispute = [d \in Disputes |-> [status |-> "absent", claw |-> FALSE]]
    /\ hold = [d \in Disputes |-> "none"]
    /\ ret = [r \in Returns |-> [status |-> "absent", claw |-> FALSE]]
    /\ event = [k \in EventKeys |-> "absent"]
    /\ inflight = EmptyBag
    /\ prop = [pc |-> "idle", todo |-> {}]
    /\ failures = 0
    /\ contested = {}
    /\ lifted = {}
    /\ spared = {}

Running == BagToSet(inflight)
JobsRunning == {t \in Running : t[1] \in Jobs}
Room(verb) ==
    IF verb \in Jobs THEN \A t \in JobsRunning : t[1] # verb
    ELSE BagCardinality(inflight) - Cardinality(JobsRunning) < MaxInFlight

\* A request about the dispute or return e starts, beside others about it or not.
Start(verb, e) ==
    /\ Room(verb)
    /\ inflight' = BagAdd(inflight, <<verb, e>>)
    /\ contested' = IF \E t \in Running : t[2] = e THEN contested \union {e} ELSE contested

Finish(verb, e) ==
    /\ BagIn(<<verb, e>>, inflight)
    /\ inflight' = BagRemove(inflight, <<verb, e>>)

WritesNothingYet ==
    UNCHANGED <<delivered, commission, dispute, hold, ret, event, prop, failures,
                lifted, spared>>

(***************************************************************************)
(* Disputes                                                                *)
(***************************************************************************)
\* Only open disputes of the order count: an escalated one does not.
HasOpenDispute == \E d \in Disputes : dispute[d].status = "open"

BeginOpenDispute(d) ==
    /\ dispute[d].status = "absent" /\ ~HasOpenDispute
    /\ Start("open", d)
    /\ WritesNothingYet

PlacePayoutHold(d) == hold' = [hold EXCEPT ![d] = "active"]

CommitOpenDispute(d) ==
    /\ Finish("open", d)
    /\ dispute[d].status = "absent"    \* unique idempotency key
    /\ dispute' = [dispute EXCEPT ![d].status = "open"]
    /\ PlacePayoutHold(d)
    /\ UNCHANGED <<delivered, commission, ret, event, prop, failures, contested, lifted, spared>>

BeginResolve(d) ==
    /\ dispute[d].status \in {"open", "escalated"}
    /\ Start("resolve", d)
    /\ WritesNothingYet

\* A second event under the same key aborts the transaction it is written in.
RecordEvent(k) ==
    /\ event[k] = "absent"
    /\ event' = [event EXCEPT ![k] = "recorded"]

ReleasePayoutHoldByRef(d) ==
    hold' = [hold EXCEPT ![d] = IF @ = "active" THEN "released" ELSE @]

\* Mutant of CommitResolve: a denial leaves the hold to the administrators.
CommitResolveKeepingHold(d, clawback) ==
    /\ Finish("resolve", d)
    /\ dispute' = [dispute EXCEPT ![d] = [status |-> "resolved", claw |-> clawback]]
    /\ IF clawback THEN RecordEvent(<<d, "decision">>) /\ ReleasePayoutHoldByRef(d)
                   ELSE UNCHANGED <<event, hold>>
    /\ UNCHANGED <<delivered, commission, ret, prop, failures, contested, lifted, spared>>

\* The verdict: a refund, a partial refund or a clawback; or none of them.
CommitResolve(d, clawback) ==
    /\ Finish("resolve", d)
    /\ dispute' = [dispute EXCEPT ![d] = [status |-> "resolved", claw |-> clawback]]
    /\ IF clawback THEN RecordEvent(<<d, "decision">>) ELSE UNCHANGED event
    /\ ReleasePayoutHoldByRef(d)
    /\ UNCHANGED <<delivered, commission, ret, prop, failures, contested, lifted, spared>>

BeginEscalate(d) ==
    /\ dispute[d].status = "open"
    /\ Start("escalate", d)
    /\ WritesNothingYet

\* The job goes through the disputes that have been open for too long and
\* reads each again.
BeginAutoEscalate(d) ==
    /\ dispute[d].status = "open"
    /\ Start("auto_escalate", d)
    /\ WritesNothingYet

BeginClose(d) ==
    /\ dispute[d].status \in {"resolved", "escalated"}
    /\ Start("close", d)
    /\ WritesNothingYet

\* Escalating and closing change the status and nothing else.
SetDisputeStatus(verb, d, status) ==
    /\ Finish(verb, d)
    /\ dispute' = [dispute EXCEPT ![d].status = status]
    /\ UNCHANGED <<delivered, commission, hold, ret, event, prop, failures, contested,
                   lifted, spared>>

CommitEscalate(d) == SetDisputeStatus("escalate", d, "escalated")
CommitAutoEscalate(d) == SetDisputeStatus("auto_escalate", d, "escalated")
CommitClose(d) == SetDisputeStatus("close", d, "closed")

\* An administrator releases an active hold by its id.
ReleasePayoutHold(d) ==
    /\ hold[d] = "active"
    /\ hold' = [hold EXCEPT ![d] = "released"]
    /\ lifted' = lifted \union {d}
    /\ UNCHANGED <<delivered, commission, dispute, ret, event, inflight, prop, failures,
                   contested, spared>>

(***************************************************************************)
(* Returns                                                                 *)
(***************************************************************************)
HasOpenReturn == \E r \in Returns : ret[r].status \in {"pending_review", "approved"}

\* Within the return window, which is not modelled: it only removes behaviours.
BeginCreateReturn(r) ==
    /\ delivered
    /\ ret[r].status = "absent" /\ ~HasOpenReturn
    /\ Start("create", r)
    /\ WritesNothingYet

CommitCreateReturn(r) ==
    /\ Finish("create", r)
    /\ ret[r].status = "absent"    \* unique idempotency key
    /\ ret' = [ret EXCEPT ![r].status = "pending_review"]
    /\ UNCHANGED <<delivered, commission, dispute, hold, event, prop, failures, contested,
                   lifted, spared>>

BeginApprove(r) ==
    /\ ret[r].status = "pending_review"
    /\ Start("approve", r)
    /\ WritesNothingYet

BeginRejectUndecided(r) ==    \* mutant: an approved return can still be rejected
    /\ ret[r].status \in {"pending_review", "approved"}
    /\ Start("reject", r)
    /\ WritesNothingYet

BeginReject(r) ==
    /\ ret[r].status = "pending_review"
    /\ Start("reject", r)
    /\ WritesNothingYet

SetReturnStatus(verb, r, status) ==
    /\ Finish(verb, r)
    /\ ret' = [ret EXCEPT ![r].status = status]
    /\ UNCHANGED <<delivered, commission, dispute, hold, event, prop, failures, contested,
                   lifted, spared>>

CommitApprove(r) == SetReturnStatus("approve", r, "approved")
CommitReject(r) == SetReturnStatus("reject", r, "rejected")

BeginComplete(r) ==
    /\ ret[r].status = "approved"
    /\ Start("complete", r)
    /\ WritesNothingYet

CommitComplete(r) ==
    /\ Finish("complete", r)
    /\ ret' = [ret EXCEPT ![r] = [status |-> "completed", claw |-> TRUE]]
    /\ RecordEvent(<<r, "decision">>)
    /\ UNCHANGED <<delivered, commission, dispute, hold, prop, failures, contested, lifted, spared>>

\* processApproved: approved returns that have triggered no clawback yet.
BeginEligibility(r) ==
    /\ ret[r].status = "approved" /\ ~ret[r].claw
    /\ Start("eligibility", r)
    /\ WritesNothingYet

CommitEligibility(r) ==
    /\ Finish("eligibility", r)
    /\ ret' = [ret EXCEPT ![r].claw = TRUE]
    /\ RecordEvent(<<r, "eligibility">>)
    /\ UNCHANGED <<delivered, commission, dispute, hold, prop, failures, contested, lifted, spared>>

\* Refused by a unique key, or cut short by a crash: everything is rolled back.
GiveUp(verb, e) ==
    /\ Finish(verb, e)
    /\ UNCHANGED <<delivered, commission, dispute, hold, ret, event, prop, failures,
                   contested, lifted, spared>>

(***************************************************************************)
(* The hold propagation job                                                *)
(***************************************************************************)
Recorded == {k \in EventKeys : event[k] = "recorded"}

StartPropagationOfDisputes ==    \* mutant: it lists the events of disputes only
    /\ prop.pc = "idle" /\ Recorded # {}
    /\ prop' = [pc |-> "claw", todo |-> {k \in Recorded : k[1] \in Disputes}]
    /\ UNCHANGED <<delivered, commission, dispute, hold, ret, event, inflight, failures,
                   contested, lifted, spared>>

StartPropagation ==
    /\ prop.pc = "idle" /\ Recorded # {}
    /\ prop' = [pc |-> "claw", todo |-> Recorded]
    /\ UNCHANGED <<delivered, commission, dispute, hold, ret, event, inflight, failures,
                   contested, lifted, spared>>

SkippingOpen(status) == status = "earned"    \* mutant of Skipped: the window compared the wrong way

\* What clawbackForOrder leaves alone because of its status.
Skipped(status) == status = "final"

ClawbackForOrder(k) ==
    /\ prop.pc = "claw" /\ k \in prop.todo
    /\ commission' = IF commission = "none" \/ Skipped(commission) THEN commission ELSE "clawed_back"
    /\ spared' = IF commission = "final" THEN spared \union {"final"} ELSE spared
    /\ prop' = [pc |-> "mark", todo |-> prop.todo, k |-> k]
    /\ UNCHANGED <<delivered, dispute, hold, ret, event, inflight, failures, contested, lifted>>

\* The debit fails: the commission is counted as skipped and the job goes on.
ClawbackSkipped(k) ==
    /\ prop.pc = "claw" /\ k \in prop.todo /\ commission = "earned"
    /\ failures < MaxFailures
    /\ failures' = failures + 1
    /\ spared' = spared \union {"error"}
    /\ prop' = [pc |-> "mark", todo |-> prop.todo, k |-> k]
    /\ UNCHANGED <<delivered, commission, dispute, hold, ret, event, inflight, contested, lifted>>

NextEvent(k) ==
    prop' = IF prop.todo = {k} THEN [pc |-> "idle", todo |-> {}]
            ELSE [pc |-> "claw", todo |-> prop.todo \ {k}]

MarkProcessed ==
    /\ prop.pc = "mark"
    /\ event' = [event EXCEPT ![prop.k] = "processed"]
    /\ NextEvent(prop.k)
    /\ UNCHANGED <<delivered, commission, dispute, hold, ret, inflight, failures, contested,
                   lifted, spared>>

\* Reading the event's entity or the order's commissions fails: the event is
\* left for the next run.
LoadFails(k) ==
    /\ prop.pc = "claw" /\ k \in prop.todo
    /\ failures < MaxFailures
    /\ failures' = failures + 1
    /\ NextEvent(k)
    /\ UNCHANGED <<delivered, commission, dispute, hold, ret, event, inflight, contested, lifted, spared>>

PropagationCrashes ==
    /\ prop.pc # "idle" /\ failures < MaxFailures
    /\ failures' = failures + 1
    /\ prop' = [pc |-> "idle", todo |-> {}]
    /\ UNCHANGED <<delivered, commission, dispute, hold, ret, event, inflight, contested, lifted, spared>>

(***************************************************************************)
(* The order: its commission is calculated while it is paid, if at all;    *)
(* then it is delivered.                                                   *)
(***************************************************************************)
PastClawback(k) == event[k] = "processed" \/ (prop.pc = "mark" /\ prop.k = k)

EarnCommission ==
    /\ ~delivered /\ commission = "none"
    /\ commission' = "earned"
    /\ spared' = IF \E k \in EventKeys : PastClawback(k) THEN spared \union {"late"} ELSE spared
    /\ UNCHANGED <<delivered, dispute, hold, ret, event, inflight, prop, failures, contested, lifted>>

\* The release job makes the commission available and clawback_before passes.
CloseClawbackWindow ==
    /\ commission = "earned" /\ commission' = "final"
    /\ UNCHANGED <<delivered, dispute, hold, ret, event, inflight, prop, failures, contested,
                   lifted, spared>>

Deliver ==
    /\ ~delivered /\ delivered' = TRUE
    /\ UNCHANGED <<commission, dispute, hold, ret, event, inflight, prop, failures, contested,
                   lifted, spared>>

PropagationStep ==
    \/ StartPropagation \/ MarkProcessed
    \/ \E k \in EventKeys : ClawbackForOrder(k)

DisputeStep(d) ==
    \/ BeginOpenDispute(d) \/ CommitOpenDispute(d)
    \/ BeginResolve(d) \/ \E clawback \in BOOLEAN : CommitResolve(d, clawback)
    \/ BeginEscalate(d) \/ CommitEscalate(d)
    \/ BeginAutoEscalate(d) \/ CommitAutoEscalate(d)
    \/ BeginClose(d) \/ CommitClose(d)
    \/ ReleasePayoutHold(d)

ReturnStep(r) ==
    \/ BeginCreateReturn(r) \/ CommitCreateReturn(r)
    \/ BeginApprove(r) \/ CommitApprove(r)
    \/ BeginReject(r) \/ CommitReject(r)
    \/ BeginComplete(r) \/ CommitComplete(r)
    \/ BeginEligibility(r) \/ CommitEligibility(r)

Next ==
    \/ \E d \in Disputes : DisputeStep(d)
    \/ \E r \in Returns : ReturnStep(r)
    \/ \E t \in Running : GiveUp(t[1], t[2])
    \/ PropagationStep
    \/ \E k \in EventKeys : ClawbackSkipped(k) \/ LoadFails(k)
    \/ PropagationCrashes
    \/ EarnCommission \/ CloseClawbackWindow \/ Deliver

Spec == Init /\ [][Next]_vars

(***************************************************************************)
(* The queue runs the propagation job again and again.                     *)
(***************************************************************************)
FairSpec == Spec /\ WF_vars(PropagationStep)

(***************************************************************************)
(* Properties                                                              *)
(***************************************************************************)
\* A dispute holds the buyer's payouts from the moment it is opened until it is
\* resolved, and no longer, unless an administrator has lifted the hold or two
\* decisions about the dispute have overlapped.
HoldFollowsDispute ==
    \A d \in Disputes \ contested :
        /\ dispute[d].status \in {"open", "escalated"} => hold[d] = "active" \/ d \in lifted
        /\ dispute[d].status = "resolved" => hold[d] # "active"

\* No commission is clawed back for a complaint that was turned down: behind
\* every clawback event stands a dispute decided that way, or an approved return,
\* unless decisions about it have overlapped.
ClawbackJustified ==
    /\ \A d \in Disputes \ contested :
          event[<<d, "decision">>] # "absent" => dispute[d].claw
    /\ \A r \in Returns \ contested :
          (\E w \in {"decision", "eligibility"} : event[<<r, w>>] # "absent") =>
              ret[r].status \in {"approved", "completed"}

\* An event the job has marked will never be looked at again, so by then the order's
\* commission has been clawed back, with three exceptions: its debit failed, or it was
\* booked only after the clawback; or, its window closed, it was final already when the
\* job looked at it, which a window that closes later does not excuse.
ProcessedMeansClawed ==
    (\E k \in EventKeys : event[k] = "processed") =>
        \/ commission \in {"none", "clawed_back"}
        \/ commission = "final" /\ "final" \in spared
        \/ spared \intersect {"error", "late"} # {}

\* Every clawback event is processed in the end, through crashes and failed runs.
EventsAreProcessed == (Recorded # {}) ~> (Recorded = {})
==============================================================================
