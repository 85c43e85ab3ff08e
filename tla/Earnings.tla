------------------------------ MODULE Earnings -------------------------------
(***************************************************************************)
(* From a paid order to money sent: the commission engine and the payout   *)
(* service over the ledger they share.                                     *)
(***************************************************************************)
EXTENDS Ledger, FiniteSets, Sequences

CONSTANTS
    Users, Orders, MaxLevel, Amount, Calculators, Releasers, Clawers, MaxRetries,
    Churn, Corrections, MaxAborts,
    Payouts, PayoutAmounts, Requesters, Reviewers, Runners

ASSUME EarningsAssumption ==
    /\ MaxLevel \in Nat \ {0} /\ MaxRetries \in Nat \ {0}
    /\ Amount \in [1..MaxLevel -> Nat]
    /\ Churn \in BOOLEAN /\ Corrections \in BOOLEAN
    /\ MaxAborts \in Nat
    /\ PayoutAmounts \subseteq Nat \ {0}

VARIABLES
    nodeEnv, order, outbox, upline, policy, event, work, aborts,
    qualified,
    payout, processing, held, task

C == INSTANCE Commission
P == INSTANCE Payout

commissionVars ==
    <<nodeEnv, order, outbox, upline, policy, event, work, aborts>>
payoutVars == <<payout, processing, held, task>>
vars == <<ledger, qualified, commissionVars, payoutVars>>

EntryKinds ==
    {"commission-pending", "release-offset", "release-credit", "clawback",
     "payout-requested", "payout-rejected", "payout-sent", "payout-batch-failed"}

\* Besides the types of the two components: an idempotency key is used once.
TypeOK ==
    /\ C!CommissionTypeOK
    /\ P!PayoutTypeOK
    /\ \A e \in ledger :
          /\ e.key[1] \in EntryKinds /\ e.type \in EntryTypes
          /\ e.user \in Users /\ e.amount \in Int
    /\ \A e, f \in ledger : e.key = f.key => e = f

Init ==
    /\ ledger = {}
    /\ C!CommissionInit
    /\ P!PayoutInit

Next ==
    \/ C!CommissionNext /\ UNCHANGED payoutVars
    \/ P!PayoutNext /\ UNCHANGED commissionVars

Spec == Init /\ [][Next]_vars

(***************************************************************************)
(* Fairness.  The outbox job runs every minute and the release job every   *)
(* ten; a row that stays eligible is taken again in every run, so a        *)
(* crash or a lost race only costs a run, unless it happens every time.    *)
(***************************************************************************)
CalculatorStep(c) ==
    /\ \/ \E o \in Orders : C!Claim(c, o)
       \/ C!SkipUnpaid(c) \/ C!VerifyPaid(c) \/ C!SkipUnearning(c) \/ C!ReadUpline(c)
       \/ C!CalculationFails(c)
    /\ UNCHANGED payoutVars

ReleaserStep(r) ==
    /\ \E e \in C!Events : C!BeginRelease(r, e)
    /\ UNCHANGED payoutVars

Fairness ==
    /\ \A c \in Calculators :
          /\ WF_vars(CalculatorStep(c))
          /\ SF_vars(C!Calculate(c) /\ UNCHANGED payoutVars)
    /\ \A r \in Releasers :
          /\ WF_vars(ReleaserStep(r))
          /\ SF_vars(C!CommitRelease(r) /\ UNCHANGED payoutVars)

FairSpec == Spec /\ Fairness

(***************************************************************************)
(* Properties                                                              *)
(***************************************************************************)
Refers(e, kinds, ref) == \E k \in kinds : e.key = <<k, ref>>

EventKinds == {"commission-pending", "release-offset", "release-credit", "clawback"}
PayoutKinds == EntryKinds \ EventKinds

BookedFor(e) == {x \in ledger : Refers(x, EventKinds, e)}
BookedOn(p) == {x \in ledger : Refers(x, PayoutKinds, p)}

\* A clawback takes back exactly what the commission booked, pending and
\* available together, whichever of release and clawback comes first and however
\* they interleave; a commission that was not clawed back is booked once in all.
CommissionBookedOnce ==
    \A e \in C!Events :
        SumOf(BookedFor(e)) =
            IF event[e].status = "absent" \/ Written("clawback", e) THEN 0 ELSE C!Earned(e)

\* What a user may withdraw is money whose holding period has passed: the credit
\* of a commission to the available balance exists only together with the offset
\* of its pending entry, and never for an event that is pending or not due.
ReleaseIsWhole ==
    \A e \in C!Events :
        /\ Written("release-credit", e) <=> Written("release-offset", e)
        /\ Written("release-credit", e) => event[e].status # "pending" /\ event[e].age # "held"
        /\ event[e].status = "available" => Written("release-credit", e)

\* An order pays one beneficiary per level, however often and by however many
\* runs its outbox row is processed.
OneBeneficiaryPerLevel ==
    \A e, f \in C!Events :
        (e[1] = f[1] /\ e[2] = f[2] /\ event[e].status # "absent" /\ event[f].status # "absent")
            => e = f

\* An outbox row that was consumed while its order was paid, its upline qualified
\* and a policy active has produced a commission for the buyer's sponsor.
\* (Stated for worlds without changes of policy, qualification or network.)
PublishedHasCommission ==
    \A o \in Orders :
        (outbox[o].status = "published" /\ order[o] = "paid" /\ upline[o] # <<>>)
            => event[<<o, 1, upline[o][1]>>].status # "absent"

\* A commission event that was clawed back stays clawed back.
ClawbackIsFinal ==
    [][\A e \in C!Events :
          event[e].status = "clawed_back" => event'[e].status = "clawed_back"]_vars

\* Nobody is paid out more than the commissions that were released to them,
\* whatever requests, batches, clawbacks and crashes run beside one reviewer.
PaidFromEarnings ==
    \A u \in Users :
        Balance(u, {"payout_sent"}) + Balance(u, {"commission_available"}) >= 0

\* What the ledger holds of a request follows from its status: the amount while it
\* is open, nothing once it was rejected or its batch failed, and twice the amount
\* once it is sent.  A request that counts as failed although its transaction had
\* committed stays debited once: what was sent is not handed out a second time.
RequestsBooked ==
    \A p \in Payouts :
        payout[p] # P!Absent =>
            SumOf(BookedOn(p)) =
                CASE payout[p].status \in P!Active -> -payout[p].amount
                  [] payout[p].status = "rejected" -> 0
                  [] payout[p].status = "sent" -> -2 * payout[p].amount
                  [] payout[p].status = "failed" ->
                        IF Written("payout-sent", p) THEN -payout[p].amount ELSE 0

GivenBack(p) == Written("payout-rejected", p) \/ Written("payout-batch-failed", p)

\* A request whose amount was given back is not sent afterwards, however long ago a
\* batch has listed it.
GivenBackStaysUnsent ==
    [][\A p \in Payouts :
          GivenBack(p) /\ ~Written("payout-sent", p) => ~Written("payout-sent", p)']_vars

\* A request is never both sent and credited back.
SentOrCredited == \A p \in Payouts : Written("payout-sent", p) => ~GivenBack(p)

\* A payout takes its amount out of the available balance once.
SentDebitsOnce ==
    \A p \in Payouts :
        payout[p].status = "sent" => SumOf(BookedOn(p)) = -payout[p].amount

\* A commission that is due does not stay pending: it is released or clawed back.
DueIsReleased ==
    \A e \in C!Events :
        (event[e].status = "pending" /\ event[e].age # "held") ~> event[e].status # "pending"
==============================================================================
