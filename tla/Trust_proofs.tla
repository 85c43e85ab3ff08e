----------------------------- MODULE Trust_proofs -----------------------------
(***************************************************************************)
(* What TLAPS proves of disputes, returns and clawbacks, for every number  *)
(* of disputes, of returns and of requests in flight.                      *)
(*                                                                         *)
(*   HoldsMatch       Spec => []HoldFollowsDispute                         *)
(*   ClawbacksRight   Spec => []ClawbackJustified                          *)
(*   ProcessedClawed  Spec => []ProcessedMeansClawed                       *)
(*                                                                         *)
(* The first two are not inductive, as a commit acts on what its request   *)
(* read.  The invariant says that an uncontested dispute or return has at  *)
(* most one request in flight (Alone), so that what that request has read  *)
(* is still so (ReadsHold).                                                *)
(***************************************************************************)
EXTENDS Trust, TLAPS

DisputeVerbs == {"open", "resolve", "escalate", "auto_escalate", "close"}
ReturnVerbs == {"create", "approve", "reject", "complete", "eligibility"}

Rows ==
    /\ dispute \in [Disputes -> DisputeRow]
    /\ hold \in [Disputes -> PayoutHoldStatus]
    /\ ret \in [Returns -> ReturnRow]
    /\ event \in [EventKeys -> EventStatus]

Known == DOMAIN inflight \subseteq (DisputeVerbs \X Disputes) \union (ReturnVerbs \X Returns)

Alone ==
    \A t \in DOMAIN inflight : t[2] \notin contested =>
        /\ inflight[t] = 1
        /\ \A s \in DOMAIN inflight : s[2] = t[2] => s = t

\* What a request has found when it read the row of e.
Found(verb, e) ==
    /\ verb = "open" => dispute[e].status = "absent"
    /\ verb = "resolve" => dispute[e].status \in {"open", "escalated"}
    /\ verb \in {"escalate", "auto_escalate"} => dispute[e].status = "open"
    /\ verb = "close" => dispute[e].status \in {"resolved", "escalated"}
    /\ verb = "create" => ret[e].status = "absent"
    /\ verb \in {"approve", "reject"} => ret[e].status = "pending_review"
    /\ verb \in {"complete", "eligibility"} => ret[e].status = "approved"

ReadsHold == \A t \in DOMAIN inflight : t[2] \notin contested => Found(t[1], t[2])

Exists(k) == k \in EventKeys /\ event[k] # "absent"

DisputeOK(d) ==
    /\ dispute[d].status \in {"open", "escalated"} => hold[d] = "active" \/ d \in lifted
    /\ dispute[d].status = "resolved" => hold[d] # "active"
    /\ Exists(<<d, "decision">>) => dispute[d].claw /\ dispute[d].status \in {"resolved", "closed"}

ReturnOK(r) ==
    \A w \in {"decision", "eligibility"} :
        Exists(<<r, w>>) => ret[r].status \in {"approved", "completed"}

\* The propagation job only looks at events that were written.
PropOK ==
    /\ prop.pc \in {"claw", "mark"} => \A k \in prop.todo : Exists(k)
    /\ prop.pc = "mark" => Exists(prop.k)

DecisionsOK ==
    /\ \A d \in Disputes \ contested : DisputeOK(d)
    /\ \A r \in Returns \ contested : ReturnOK(r)

TrustInv == Rows /\ Known /\ Alone /\ ReadsHold /\ PropOK /\ DecisionsOK

(***************************************************************************)
(* Requests in flight                                                      *)
(***************************************************************************)
LEMMA Added ==
    ASSUME NEW B, NEW x
    PROVE  /\ DOMAIN BagAdd(B, x) = DOMAIN B \union {x}
           /\ \A y \in DOMAIN B : y # x => BagAdd(B, x)[y] = B[y]
           /\ x \notin DOMAIN B => BagAdd(B, x)[x] = 1
BY DEF BagAdd

LEMMA Removed ==
    ASSUME NEW B, NEW x \in DOMAIN B
    PROVE  /\ DOMAIN BagRemove(B, x) \subseteq DOMAIN B
           /\ \A y \in DOMAIN BagRemove(B, x) : y # x => BagRemove(B, x)[y] = B[y]
           /\ B[x] = 1 => x \notin DOMAIN BagRemove(B, x)
BY DEF BagRemove

\* Starting a request keeps what is known of those in flight.
LEMMA StartKeeps ==
    ASSUME TrustInv, NEW verb, NEW e, Start(verb, e), WritesNothingYet,
           <<verb, e>> \in (DisputeVerbs \X Disputes) \union (ReturnVerbs \X Returns),
           Found(verb, e)
    PROVE  TrustInv'
<1> DEFINE x == <<verb, e>>
<1>1. inflight' = BagAdd(inflight, x)
  BY DEF Start
<1>2. contested' = IF \E t \in DOMAIN inflight : t[2] = e THEN contested \union {e} ELSE contested
  BY DEF Start, Running, BagToSet
<1>4. x[1] = verb /\ x[2] = e
  OBVIOUS
<1>9. x \in (DisputeVerbs \X Disputes) \union (ReturnVerbs \X Returns)
  OBVIOUS
<1> HIDE DEF x
<1>3. /\ DOMAIN inflight' = DOMAIN inflight \union {x}
      /\ \A y \in DOMAIN inflight : y # x => inflight'[y] = inflight[y]
      /\ x \notin DOMAIN inflight => inflight'[x] = 1
  <2>1. PICK B : B = inflight
    OBVIOUS
  <2>2. /\ DOMAIN BagAdd(B, x) = DOMAIN B \union {x}
        /\ \A y \in DOMAIN B : y # x => BagAdd(B, x)[y] = B[y]
        /\ x \notin DOMAIN B => BagAdd(B, x)[x] = 1
    BY Added
  <2>3. inflight' = BagAdd(B, x)
    BY <1>1, <2>1
  <2> QED
    BY <2>1, <2>2, <2>3
<1>5. /\ dispute' = dispute /\ hold' = hold /\ ret' = ret /\ event' = event
      /\ prop' = prop /\ lifted' = lifted
  BY DEF WritesNothingYet
<1>6. Rows' /\ PropOK'
  BY <1>5 DEF TrustInv, Rows, PropOK, Exists
<1>7. contested \subseteq contested'
  BY <1>2
<1>8. DecisionsOK'
  BY <1>5, <1>7 DEF TrustInv, DecisionsOK, DisputeOK, ReturnOK, Exists
<1>10. Known'
  BY <1>3, <1>9 DEF TrustInv, Known
<1>11. Alone'
  <2> SUFFICES ASSUME NEW t \in DOMAIN inflight', t[2] \notin contested'
               PROVE  /\ inflight'[t] = 1
                      /\ \A s \in DOMAIN inflight' : s[2] = t[2] => s = t
    BY DEF Alone
  <2>1. CASE t[2] = e
    <3>1. \A s \in DOMAIN inflight : s[2] # e
      BY <1>2, <2>1
    <3>2. t = x /\ x \notin DOMAIN inflight
      BY <1>3, <1>4, <2>1, <3>1
    <3> QED
      BY <1>3, <1>4, <3>1, <3>2
  <2>2. CASE t[2] # e
    <3>1. t \in DOMAIN inflight /\ t # x /\ t[2] \notin contested
      BY <1>3, <1>4, <1>7, <2>2
    <3>2. inflight'[t] = inflight[t]
      BY <1>3, <3>1
    <3>3. inflight[t] = 1 /\ \A s \in DOMAIN inflight : s[2] = t[2] => s = t
      BY <3>1 DEF TrustInv, Alone
    <3> QED
      BY <1>3, <1>4, <2>2, <3>2, <3>3
  <2> QED
    BY <2>1, <2>2
<1>12. ReadsHold'
  <2> SUFFICES ASSUME NEW t \in DOMAIN inflight', t[2] \notin contested' PROVE Found(t[1], t[2])
    BY <1>5 DEF ReadsHold, Found
  <2>1. CASE t = x
    BY <1>4, <2>1
  <2>2. CASE t # x
    BY <1>3, <1>7, <2>2 DEF TrustInv, ReadsHold
  <2> QED
    BY <2>1, <2>2
<1> QED
  BY <1>6, <1>8, <1>10, <1>11, <1>12 DEF TrustInv

\* Ending one leaves the others, and none about an uncontested e.
LEMMA FinishKeeps ==
    ASSUME TrustInv, NEW verb, NEW e, Finish(verb, e), contested' = contested
    PROVE  /\ Known' /\ Alone'
           /\ e \notin contested => Found(verb, e)
           /\ <<verb, e>> \in (DisputeVerbs \X Disputes) \union (ReturnVerbs \X Returns)
           /\ \A t \in DOMAIN inflight' : t[2] \notin contested =>
                 t[2] # e /\ Found(t[1], t[2])
<1> DEFINE x == <<verb, e>>
<1>1. inflight' = BagRemove(inflight, x) /\ x \in DOMAIN inflight
  BY DEF Finish, BagIn, BagToSet
<1>2. x[1] = verb /\ x[2] = e
  OBVIOUS
<1> HIDE DEF x
<1>3. /\ DOMAIN inflight' \subseteq DOMAIN inflight
      /\ \A y \in DOMAIN inflight' : y # x => inflight'[y] = inflight[y]
      /\ inflight[x] = 1 => x \notin DOMAIN inflight'
  BY <1>1, Removed
<1>4. Known'
  BY <1>3 DEF TrustInv, Known
<1>5. x \in (DisputeVerbs \X Disputes) \union (ReturnVerbs \X Returns)
  BY <1>1 DEF TrustInv, Known
<1>6. e \notin contested => Found(verb, e)
  BY <1>1, <1>2 DEF TrustInv, ReadsHold
<1>7. ASSUME NEW t \in DOMAIN inflight', t[2] \notin contested
      PROVE  /\ t[2] # e /\ t # x /\ Found(t[1], t[2])
             /\ inflight[t] = 1
             /\ \A s \in DOMAIN inflight : s[2] = t[2] => s = t
  <2>1. t \in DOMAIN inflight
    BY <1>3
  <2>2. inflight[t] = 1 /\ \A s \in DOMAIN inflight : s[2] = t[2] => s = t
    BY <1>7, <2>1 DEF TrustInv, Alone
  <2>3. t # x
    BY <1>3, <2>2
  <2>4. t[2] # e
    BY <1>1, <1>2, <2>2, <2>3
  <2>5. Found(t[1], t[2])
    BY <1>7, <2>1 DEF TrustInv, ReadsHold
  <2> QED
    BY <2>2, <2>3, <2>4, <2>5
<1>8. Alone'
  BY <1>3, <1>7 DEF Alone
<1> QED
  BY <1>4, <1>5, <1>6, <1>7, <1>8 DEF x

(***************************************************************************)
(* A decision about one dispute, or about one return, is written           *)
(***************************************************************************)
LEMMA KeysApart ==
    ASSUME TrustAssumption, NEW d \in Disputes, NEW r \in Returns, NEW w
    PROVE  <<r, w>> # <<d, "decision">>
BY DEF TrustAssumption

LEMMA DisputeKey == ASSUME NEW d \in Disputes PROVE <<d, "decision">> \in EventKeys
BY DEF EventKeys

LEMMA ReturnKey ==
    ASSUME NEW r \in Returns, NEW w \in {"decision", "eligibility"}
    PROVE  <<r, w>> \in EventKeys
BY DEF EventKeys

LEMMA DisputeWritten ==
    ASSUME TrustAssumption, TrustInv, NEW verb, NEW d \in Disputes, Finish(verb, d),
           contested' = contested, lifted' = lifted, prop' = prop, ret' = ret, Rows',
           \A e \in Disputes : e # d => dispute'[e] = dispute[e] /\ hold'[e] = hold[e],
           \A k \in EventKeys : k # <<d, "decision">> => event'[k] = event[k],
           \A k \in EventKeys : event[k] # "absent" => event'[k] # "absent",
           d \notin contested /\ Found(verb, d) /\ DisputeOK(d) => DisputeOK(d)'
    PROVE  TrustInv'
<1>1. /\ Known' /\ Alone'
      /\ d \notin contested => Found(verb, d)
      /\ \A t \in DOMAIN inflight' : t[2] \notin contested => t[2] # d /\ Found(t[1], t[2])
  BY FinishKeeps
<1>2. PropOK'
  BY DEF TrustInv, PropOK, Exists
<1>3. ReadsHold'
  <2> SUFFICES ASSUME NEW t \in DOMAIN inflight', t[2] \notin contested PROVE Found(t[1], t[2])'
    BY DEF ReadsHold
  <2>1. t[2] # d /\ Found(t[1], t[2])
    BY <1>1
  <2>2. \/ t[1] \in DisputeVerbs /\ t[2] \in Disputes
        \/ t[1] \in ReturnVerbs
    BY <1>1 DEF Known
  <2>3. CASE t[1] \in DisputeVerbs /\ t[2] \in Disputes
    <3>1. dispute'[t[2]] = dispute[t[2]]
      BY <2>1, <2>3
    <3> QED
      BY <2>1, <3>1 DEF Found
  <2>4. CASE t[1] \in ReturnVerbs
    BY <2>1, <2>4 DEF Found, ReturnVerbs
  <2> QED
    BY <2>2, <2>3, <2>4
<1>4. ASSUME NEW e \in Disputes, e \notin contested PROVE DisputeOK(e)'
  <2>1. DisputeOK(e)
    BY <1>4 DEF TrustInv, DecisionsOK
  <2>2. CASE e = d
    BY <1>1, <1>4, <2>1, <2>2
  <2>3. CASE e # d
    <3>1. /\ dispute'[e] = dispute[e] /\ hold'[e] = hold[e]
          /\ event'[<<e, "decision">>] = event[<<e, "decision">>]
      BY <2>3, DisputeKey
    <3> QED
      BY <2>1, <3>1 DEF DisputeOK, Exists
  <2> QED
    BY <2>2, <2>3
<1>5. ASSUME NEW r \in Returns, r \notin contested PROVE ReturnOK(r)'
  <2>1. ReturnOK(r)
    BY <1>5 DEF TrustInv, DecisionsOK
  <2>2. \A w \in {"decision", "eligibility"} : event'[<<r, w>>] = event[<<r, w>>]
    BY KeysApart, ReturnKey
  <2> QED
    BY <2>1, <2>2 DEF ReturnOK, Exists
<1>6. DecisionsOK'
  BY <1>4, <1>5 DEF DecisionsOK
<1> QED
  BY <1>1, <1>2, <1>3, <1>6 DEF TrustInv

LEMMA ReturnWritten ==
    ASSUME TrustAssumption, TrustInv, NEW verb, NEW r \in Returns, Finish(verb, r),
           contested' = contested, lifted' = lifted, prop' = prop,
           dispute' = dispute, hold' = hold, Rows',
           \A e \in Returns : e # r => ret'[e] = ret[e],
           \A k \in EventKeys : k[1] # r => event'[k] = event[k],
           \A k \in EventKeys : event[k] # "absent" => event'[k] # "absent",
           r \notin contested /\ Found(verb, r) /\ ReturnOK(r) => ReturnOK(r)'
    PROVE  TrustInv'
<1>1. /\ Known' /\ Alone'
      /\ r \notin contested => Found(verb, r)
      /\ \A t \in DOMAIN inflight' : t[2] \notin contested => t[2] # r /\ Found(t[1], t[2])
  BY FinishKeeps
<1>2. PropOK'
  BY DEF TrustInv, PropOK, Exists
<1>3. ReadsHold'
  <2> SUFFICES ASSUME NEW t \in DOMAIN inflight', t[2] \notin contested PROVE Found(t[1], t[2])'
    BY DEF ReadsHold
  <2>1. t[2] # r /\ Found(t[1], t[2])
    BY <1>1
  <2>2. \/ t[1] \in ReturnVerbs /\ t[2] \in Returns
        \/ t[1] \in DisputeVerbs
    BY <1>1 DEF Known
  <2>3. CASE t[1] \in ReturnVerbs /\ t[2] \in Returns
    <3>1. ret'[t[2]] = ret[t[2]]
      BY <2>1, <2>3
    <3> QED
      BY <2>1, <3>1 DEF Found
  <2>4. CASE t[1] \in DisputeVerbs
    BY <2>1, <2>4 DEF Found, DisputeVerbs
  <2> QED
    BY <2>2, <2>3, <2>4
<1>4. ASSUME NEW e \in Returns, e \notin contested PROVE ReturnOK(e)'
  <2>1. ReturnOK(e)
    BY <1>4 DEF TrustInv, DecisionsOK
  <2>2. CASE e = r
    BY <1>1, <1>4, <2>1, <2>2
  <2>3. CASE e # r
    <3>1. /\ ret'[e] = ret[e]
          /\ \A w \in {"decision", "eligibility"} : event'[<<e, w>>] = event[<<e, w>>]
      BY <2>3, ReturnKey
    <3> QED
      BY <2>1, <3>1 DEF ReturnOK, Exists
  <2> QED
    BY <2>2, <2>3
<1>5. ASSUME NEW d \in Disputes, d \notin contested PROVE DisputeOK(d)'
  <2>1. DisputeOK(d)
    BY <1>5 DEF TrustInv, DecisionsOK
  <2>2. event'[<<d, "decision">>] = event[<<d, "decision">>]
    BY DisputeKey DEF TrustAssumption
  <2> QED
    BY <2>1, <2>2 DEF DisputeOK, Exists
<1>6. DecisionsOK'
  BY <1>4, <1>5 DEF DecisionsOK
<1> QED
  BY <1>1, <1>2, <1>3, <1>6 DEF TrustInv

(***************************************************************************)
(* Disputes                                                                *)
(***************************************************************************)
LEMMA BeginDisputeKeeps ==
    ASSUME TrustInv, NEW d \in Disputes,
           \/ BeginOpenDispute(d) \/ BeginResolve(d) \/ BeginEscalate(d)
           \/ BeginAutoEscalate(d) \/ BeginClose(d)
    PROVE  TrustInv'
<1>1. ASSUME NEW verb \in DisputeVerbs, Start(verb, d), WritesNothingYet, Found(verb, d)
      PROVE  TrustInv'
  BY <1>1, StartKeeps
<1>2. CASE BeginOpenDispute(d)
  BY <1>1, <1>2 DEF BeginOpenDispute, DisputeVerbs, Found
<1>3. CASE BeginResolve(d)
  BY <1>1, <1>3 DEF BeginResolve, DisputeVerbs, Found
<1>4. CASE BeginEscalate(d)
  BY <1>1, <1>4 DEF BeginEscalate, DisputeVerbs, Found
<1>5. CASE BeginAutoEscalate(d)
  BY <1>1, <1>5 DEF BeginAutoEscalate, DisputeVerbs, Found
<1>6. CASE BeginClose(d)
  BY <1>1, <1>6 DEF BeginClose, DisputeVerbs, Found
<1> QED
  BY <1>2, <1>3, <1>4, <1>5, <1>6

LEMMA CommitOpenDisputeKeeps ==
    ASSUME TrustAssumption, TrustInv, NEW d \in Disputes, CommitOpenDispute(d)
    PROVE  TrustInv'
<1>1. /\ Finish("open", d)
      /\ dispute' = [dispute EXCEPT ![d].status = "open"]
      /\ hold' = [hold EXCEPT ![d] = "active"]
      /\ ret' = ret /\ event' = event /\ prop' = prop /\ contested' = contested /\ lifted' = lifted
  BY DEF CommitOpenDispute, PlacePayoutHold
<1>2. Rows
  BY DEF TrustInv
<1>3. Rows'
  BY <1>1, <1>2 DEF Rows, DisputeRow, DisputeStatus, PayoutHoldStatus
<1>4. \A e \in Disputes : e # d => dispute'[e] = dispute[e] /\ hold'[e] = hold[e]
  BY <1>1, <1>2 DEF Rows
<1>5. dispute'[d].status = "open" /\ hold'[d] = "active"
  BY <1>1, <1>2 DEF Rows, DisputeRow
<1>6. ASSUME Found("open", d), DisputeOK(d) PROVE DisputeOK(d)'
  <2>1. ~Exists(<<d, "decision">>)
    BY <1>6 DEF Found, DisputeOK
  <2>2. ~Exists(<<d, "decision">>)'
    BY <1>1, <2>1 DEF Exists
  <2> QED
    BY <1>5, <2>2 DEF DisputeOK
<1> QED
  BY <1>1, <1>3, <1>4, <1>6, DisputeWritten

LEMMA CommitResolveKeeps ==
    ASSUME TrustAssumption, TrustInv, NEW d \in Disputes, NEW clawback \in BOOLEAN,
           CommitResolve(d, clawback)
    PROVE  TrustInv'
<1> DEFINE k == <<d, "decision">>
<1>1. /\ Finish("resolve", d)
      /\ dispute' = [dispute EXCEPT ![d] = [status |-> "resolved", claw |-> clawback]]
      /\ hold' = [hold EXCEPT ![d] = IF @ = "active" THEN "released" ELSE @]
      /\ ret' = ret /\ prop' = prop /\ contested' = contested /\ lifted' = lifted
      /\ clawback => event' = [event EXCEPT ![k] = "recorded"]
      /\ ~clawback => event' = event
  BY DEF CommitResolve, ReleasePayoutHoldByRef, RecordEvent
<1>2. Rows /\ k \in EventKeys
  BY DisputeKey DEF TrustInv
<1> HIDE DEF k
<1>3. event' \in [EventKeys -> EventStatus]
  BY <1>1, <1>2 DEF Rows, EventStatus
<1>4. dispute' \in [Disputes -> DisputeRow] /\ hold' \in [Disputes -> PayoutHoldStatus]
  BY <1>1, <1>2 DEF Rows, DisputeRow, DisputeStatus, PayoutHoldStatus
<1>5. Rows'
  BY <1>1, <1>2, <1>3, <1>4 DEF Rows
<1>6. \A e \in Disputes : e # d => dispute'[e] = dispute[e] /\ hold'[e] = hold[e]
  BY <1>1, <1>2 DEF Rows
<1>7. /\ \A j \in EventKeys : j # k => event'[j] = event[j]
      /\ \A j \in EventKeys : event[j] # "absent" => event'[j] # "absent"
  BY <1>1, <1>2 DEF Rows
<1>8. dispute'[d].status = "resolved" /\ dispute'[d].claw = clawback /\ hold'[d] # "active"
  BY <1>1, <1>2 DEF Rows
<1>9. ASSUME Found("resolve", d), DisputeOK(d) PROVE DisputeOK(d)'
  <2>1. ~Exists(k)
    BY <1>9 DEF Found, DisputeOK, k
  <2>2. ~clawback => ~Exists(k)'
    BY <1>1, <2>1 DEF Exists
  <2> QED
    BY <1>8, <2>2 DEF DisputeOK, k
<1> QED
  BY <1>1, <1>5, <1>6, <1>7, <1>9, DisputeWritten DEF k

\* Escalating or closing moves the status on; the hold of an escalated dispute
\* stays, and a closed dispute is claimed nothing about.
LEMMA SetDisputeStatusKeeps ==
    ASSUME TrustAssumption, TrustInv, NEW d \in Disputes, NEW verb, NEW status,
           SetDisputeStatus(verb, d, status),
           \/ verb \in {"escalate", "auto_escalate"} /\ status = "escalated"
           \/ verb = "close" /\ status = "closed"
    PROVE  TrustInv'
<1>1. /\ Finish(verb, d)
      /\ dispute' = [dispute EXCEPT ![d].status = status]
      /\ hold' = hold /\ ret' = ret /\ event' = event /\ prop' = prop
      /\ contested' = contested /\ lifted' = lifted
  BY DEF SetDisputeStatus
<1>2. Rows
  BY DEF TrustInv
<1>3. dispute' \in [Disputes -> DisputeRow]
  BY <1>1, <1>2 DEF Rows, DisputeRow, DisputeStatus
<1>4. Rows'
  BY <1>1, <1>2, <1>3 DEF Rows
<1>5. \A e \in Disputes : e # d => dispute'[e] = dispute[e] /\ hold'[e] = hold[e]
  BY <1>1, <1>2 DEF Rows
<1>6. dispute'[d].status = status /\ dispute'[d].claw = dispute[d].claw
  BY <1>1, <1>2 DEF Rows, DisputeRow
<1>7. ASSUME Found(verb, d), DisputeOK(d) PROVE DisputeOK(d)'
  <2>1. Exists(<<d, "decision">>)' = Exists(<<d, "decision">>)
    BY <1>1 DEF Exists
  <2>2. CASE verb \in {"escalate", "auto_escalate"} /\ status = "escalated"
    <3>1. dispute[d].status = "open"
      BY <1>7, <2>2 DEF Found
    <3> QED
      BY <1>1, <1>6, <1>7, <2>1, <2>2, <3>1 DEF DisputeOK
  <2>3. CASE verb = "close" /\ status = "closed"
    BY <1>1, <1>6, <1>7, <2>1, <2>3 DEF DisputeOK
  <2> QED
    BY <2>2, <2>3
<1> QED
  BY <1>1, <1>4, <1>5, <1>7, DisputeWritten

LEMMA ReleaseHoldKeeps ==
    ASSUME TrustInv, NEW d \in Disputes, ReleasePayoutHold(d)
    PROVE  TrustInv'
<1>1. /\ hold' = [hold EXCEPT ![d] = "released"] /\ lifted' = lifted \union {d}
      /\ dispute' = dispute /\ ret' = ret /\ event' = event /\ prop' = prop
      /\ contested' = contested /\ inflight' = inflight
  BY DEF ReleasePayoutHold
<1>2. Rows
  BY DEF TrustInv
<1>3. Rows'
  BY <1>1, <1>2 DEF Rows, PayoutHoldStatus
<1>4. \A e \in Disputes : hold'[e] = IF e = d THEN "released" ELSE hold[e]
  BY <1>1, <1>2 DEF Rows
<1>5. Known' /\ Alone' /\ ReadsHold' /\ PropOK'
  BY <1>1 DEF TrustInv, Known, Alone, ReadsHold, Found, PropOK, Exists
<1>6. ASSUME NEW e \in Disputes, e \notin contested PROVE DisputeOK(e)'
  <2>1. DisputeOK(e)
    BY <1>6 DEF TrustInv, DecisionsOK
  <2>2. Exists(<<e, "decision">>)' = Exists(<<e, "decision">>)
    BY <1>1 DEF Exists
  <2> QED
    BY <1>1, <1>4, <2>1, <2>2 DEF DisputeOK
<1>7. \A r \in Returns \ contested : ReturnOK(r)'
  BY <1>1 DEF TrustInv, DecisionsOK, ReturnOK, Exists
<1> QED
  BY <1>1, <1>3, <1>5, <1>6, <1>7 DEF TrustInv, DecisionsOK

(***************************************************************************)
(* Returns                                                                 *)
(***************************************************************************)
LEMMA BeginReturnKeeps ==
    ASSUME TrustInv, NEW r \in Returns,
           \/ BeginCreateReturn(r) \/ BeginApprove(r) \/ BeginReject(r)
           \/ BeginComplete(r) \/ BeginEligibility(r)
    PROVE  TrustInv'
<1>1. ASSUME NEW verb \in ReturnVerbs, Start(verb, r), WritesNothingYet, Found(verb, r)
      PROVE  TrustInv'
  BY <1>1, StartKeeps
<1>2. CASE BeginCreateReturn(r)
  BY <1>1, <1>2 DEF BeginCreateReturn, ReturnVerbs, Found
<1>3. CASE BeginApprove(r)
  BY <1>1, <1>3 DEF BeginApprove, ReturnVerbs, Found
<1>4. CASE BeginReject(r)
  BY <1>1, <1>4 DEF BeginReject, ReturnVerbs, Found
<1>5. CASE BeginComplete(r)
  BY <1>1, <1>5 DEF BeginComplete, ReturnVerbs, Found
<1>6. CASE BeginEligibility(r)
  BY <1>1, <1>6 DEF BeginEligibility, ReturnVerbs, Found
<1> QED
  BY <1>2, <1>3, <1>4, <1>5, <1>6

\* Creating, approving and rejecting: nobody approved the return before.
LEMMA UndecidedKeeps ==
    ASSUME TrustAssumption, TrustInv, NEW r \in Returns, NEW verb \in {"create", "approve", "reject"},
           NEW status \in ReturnStatus,
           Finish(verb, r), ret' = [ret EXCEPT ![r].status = status],
           dispute' = dispute, hold' = hold, event' = event, prop' = prop,
           contested' = contested, lifted' = lifted
    PROVE  TrustInv'
<1>1. Rows
  BY DEF TrustInv
<1>2. ret' \in [Returns -> ReturnRow]
  BY <1>1 DEF Rows, ReturnRow
<1>3. Rows'
  BY <1>1, <1>2 DEF Rows
<1>4. \A e \in Returns : e # r => ret'[e] = ret[e]
  BY <1>1 DEF Rows
<1>5. ASSUME Found(verb, r), ReturnOK(r) PROVE ReturnOK(r)'
  <2>1. ret[r].status \notin {"approved", "completed"}
    BY <1>5 DEF Found
  <2> QED
    BY <1>5, <2>1 DEF ReturnOK, Exists
<1> QED
  BY <1>3, <1>4, <1>5, ReturnWritten

\* Completing a return, and triggering its clawback, records an event.
LEMMA EventOfReturnKeeps ==
    ASSUME TrustAssumption, TrustInv, NEW r \in Returns, NEW verb \in {"complete", "eligibility"},
           NEW w \in {"decision", "eligibility"},
           Finish(verb, r), RecordEvent(<<r, w>>), ret' \in [Returns -> ReturnRow],
           \A e \in Returns : e # r => ret'[e] = ret[e],
           ret[r].status = "approved" => ret'[r].status \in {"approved", "completed"},
           dispute' = dispute, hold' = hold, prop' = prop,
           contested' = contested, lifted' = lifted
    PROVE  TrustInv'
<1>1. PICK k \in EventKeys : k = <<r, w>>
  BY ReturnKey
<1>2. event' = [event EXCEPT ![k] = "recorded"] /\ k[1] = r
  BY <1>1 DEF RecordEvent
<1>3. Rows
  BY DEF TrustInv
<1>4. event' \in [EventKeys -> EventStatus]
  BY <1>2, <1>3 DEF Rows, EventStatus
<1>5. Rows'
  BY <1>3, <1>4 DEF Rows
<1>6. /\ \A j \in EventKeys : j[1] # r => event'[j] = event[j]
      /\ \A j \in EventKeys : event[j] # "absent" => event'[j] # "absent"
  BY <1>2, <1>3 DEF Rows
<1>7. ASSUME Found(verb, r) PROVE ReturnOK(r)'
  BY <1>7 DEF Found, ReturnOK
<1> QED
  BY <1>5, <1>6, <1>7, ReturnWritten

LEMMA CommitReturnKeeps ==
    ASSUME TrustAssumption, TrustInv, NEW r \in Returns,
           \/ CommitCreateReturn(r) \/ CommitApprove(r) \/ CommitReject(r)
           \/ CommitComplete(r) \/ CommitEligibility(r)
    PROVE  TrustInv'
<1>1. ret \in [Returns -> ReturnRow]
  BY DEF TrustInv, Rows
<1>2. CASE CommitCreateReturn(r)
  BY <1>2, UndecidedKeeps DEF CommitCreateReturn, ReturnStatus
<1>3. CASE CommitApprove(r)
  BY <1>3, UndecidedKeeps DEF CommitApprove, SetReturnStatus, ReturnStatus
<1>4. CASE CommitReject(r)
  BY <1>4, UndecidedKeeps DEF CommitReject, SetReturnStatus, ReturnStatus
<1>5. CASE CommitComplete(r)
  <2>1. ret' = [ret EXCEPT ![r] = [status |-> "completed", claw |-> TRUE]]
    BY <1>5 DEF CommitComplete
  <2>2. /\ ret' \in [Returns -> ReturnRow] /\ ret'[r].status = "completed"
        /\ \A e \in Returns : e # r => ret'[e] = ret[e]
    BY <1>1, <2>1 DEF ReturnRow, ReturnStatus
  <2>3. /\ Finish("complete", r) /\ RecordEvent(<<r, "decision">>)
        /\ dispute' = dispute /\ hold' = hold /\ prop' = prop
        /\ contested' = contested /\ lifted' = lifted
    BY <1>5 DEF CommitComplete
  <2> QED
    BY <2>2, <2>3, EventOfReturnKeeps
<1>6. CASE CommitEligibility(r)
  <2>1. ret' = [ret EXCEPT ![r].claw = TRUE]
    BY <1>6 DEF CommitEligibility
  <2>2. /\ ret' \in [Returns -> ReturnRow] /\ ret'[r].status = ret[r].status
        /\ \A e \in Returns : e # r => ret'[e] = ret[e]
    BY <1>1, <2>1 DEF ReturnRow
  <2>3. /\ Finish("eligibility", r) /\ RecordEvent(<<r, "eligibility">>)
        /\ dispute' = dispute /\ hold' = hold /\ prop' = prop
        /\ contested' = contested /\ lifted' = lifted
    BY <1>6 DEF CommitEligibility
  <2> QED
    BY <2>2, <2>3, EventOfReturnKeeps
<1> QED
  BY <1>2, <1>3, <1>4, <1>5, <1>6

(***************************************************************************)
(* The end of a request, the propagation job, and the order                *)
(***************************************************************************)
LEMMA GiveUpKeeps ==
    ASSUME TrustInv, NEW verb, NEW e, GiveUp(verb, e)
    PROVE  TrustInv'
<1>1. /\ Finish(verb, e) /\ dispute' = dispute /\ hold' = hold /\ ret' = ret
      /\ event' = event /\ prop' = prop /\ contested' = contested /\ lifted' = lifted
  BY DEF GiveUp
<1>2. /\ Known' /\ Alone'
      /\ \A t \in DOMAIN inflight' : t[2] \notin contested => Found(t[1], t[2])
  BY <1>1, FinishKeeps
<1>3. ReadsHold'
  BY <1>1, <1>2 DEF ReadsHold, Found
<1>4. Rows' /\ PropOK' /\ DecisionsOK'
  BY <1>1 DEF TrustInv, Rows, PropOK, DecisionsOK, DisputeOK, ReturnOK, Exists
<1> QED
  BY <1>2, <1>3, <1>4 DEF TrustInv

\* No event appears or disappears while the job works.
LEMMA PropagationKeeps ==
    ASSUME TrustInv, event' \in [EventKeys -> EventStatus],
           \A k \in EventKeys : event'[k] # "absent" <=> event[k] # "absent",
           dispute' = dispute, hold' = hold, ret' = ret, inflight' = inflight,
           contested' = contested, lifted' = lifted, PropOK'
    PROVE  TrustInv'
<1>1. Rows'
  BY DEF TrustInv, Rows
<1>2. Known' /\ Alone' /\ ReadsHold'
  BY DEF TrustInv, Known, Alone, ReadsHold, Found
<1>3. \A k : Exists(k)' <=> Exists(k)
  BY DEF Exists
<1>4. DecisionsOK'
  BY <1>3 DEF TrustInv, DecisionsOK, DisputeOK, ReturnOK
<1> QED
  BY <1>1, <1>2, <1>4 DEF TrustInv

LEMMA NextEventKeeps ==
    ASSUME NEW k, NextEvent(k), \A j \in prop.todo : Exists(j), \A j : Exists(j) => Exists(j)'
    PROVE  PropOK'
<1>1. prop' = [pc |-> "idle", todo |-> {}] \/ prop' = [pc |-> "claw", todo |-> prop.todo \ {k}]
  BY DEF NextEvent
<1>2. prop'.pc # "mark" /\ prop'.todo \subseteq prop.todo
  BY <1>1
<1> QED
  BY <1>2 DEF PropOK

LEMMA JobKeeps ==
    ASSUME TrustInv,
           \/ PropagationStep \/ PropagationCrashes
           \/ \E k \in EventKeys : ClawbackSkipped(k) \/ LoadFails(k)
    PROVE  TrustInv'
<1>1. event \in [EventKeys -> EventStatus] /\ PropOK
  BY DEF TrustInv, Rows
<1>2. CASE StartPropagation
  <2>1. prop' = [pc |-> "claw", todo |-> Recorded] /\ event' = event
    BY <1>2 DEF StartPropagation
  <2>2. prop'.pc = "claw" /\ prop'.todo = Recorded
    BY <2>1
  <2>3. PropOK'
    BY <2>1, <2>2 DEF PropOK, Recorded, Exists
  <2> QED
    BY <1>1, <1>2, <2>3, PropagationKeeps DEF StartPropagation
<1>3. ASSUME NEW k \in EventKeys, ClawbackForOrder(k) \/ ClawbackSkipped(k) PROVE TrustInv'
  <2>1. prop' = [pc |-> "mark", todo |-> prop.todo, k |-> k] /\ event' = event
        /\ prop.pc = "claw" /\ k \in prop.todo
    BY <1>3 DEF ClawbackForOrder, ClawbackSkipped
  <2>2. prop'.pc = "mark" /\ prop'.todo = prop.todo /\ prop'.k = k
    BY <2>1
  <2>3. PropOK'
    BY <1>1, <2>1, <2>2 DEF PropOK, Exists
  <2> QED
    BY <1>1, <1>3, <2>3, PropagationKeeps DEF ClawbackForOrder, ClawbackSkipped
<1>4. CASE MarkProcessed
  <2>1. PICK k : k = prop.k
    OBVIOUS
  <2>2. /\ event' = [event EXCEPT ![k] = "processed"] /\ NextEvent(k)
        /\ k \in EventKeys /\ event[k] # "absent"
        /\ \A j \in prop.todo : Exists(j)
    BY <1>1, <1>4, <2>1 DEF MarkProcessed, PropOK, Exists
  <2>3. /\ event' \in [EventKeys -> EventStatus]
        /\ \A j \in EventKeys : event'[j] # "absent" <=> event[j] # "absent"
    BY <1>1, <2>2 DEF EventStatus
  <2>4. PropOK'
    BY <2>2, <2>3, NextEventKeeps DEF Exists
  <2> QED
    BY <1>4, <2>3, <2>4, PropagationKeeps DEF MarkProcessed
<1>5. ASSUME NEW k \in EventKeys, LoadFails(k) PROVE TrustInv'
  <2>1. NextEvent(k) /\ event' = event /\ \A j \in prop.todo : Exists(j)
    BY <1>1, <1>5 DEF LoadFails, PropOK
  <2>2. PropOK'
    BY <2>1, NextEventKeeps DEF Exists
  <2> QED
    BY <1>1, <1>5, <2>2, PropagationKeeps DEF LoadFails
<1>6. CASE PropagationCrashes
  <2>1. prop' = [pc |-> "idle", todo |-> {}] /\ event' = event
    BY <1>6 DEF PropagationCrashes
  <2>2. PropOK'
    BY <2>1 DEF PropOK
  <2> QED
    BY <1>1, <1>6, <2>2, PropagationKeeps DEF PropagationCrashes
<1> QED
  BY <1>2, <1>3, <1>4, <1>5, <1>6 DEF PropagationStep

LEMMA OrderKeeps ==
    ASSUME TrustInv, EarnCommission \/ CloseClawbackWindow \/ Deliver \/ UNCHANGED vars
    PROVE  TrustInv'
<1>1. /\ dispute' = dispute /\ hold' = hold /\ ret' = ret /\ event' = event
      /\ inflight' = inflight /\ contested' = contested /\ lifted' = lifted /\ prop' = prop
  BY DEF EarnCommission, CloseClawbackWindow, Deliver, vars
<1>2. event \in [EventKeys -> EventStatus] /\ PropOK
  BY DEF TrustInv, Rows
<1>3. PropOK'
  BY <1>1, <1>2 DEF PropOK, Exists
<1> QED
  BY <1>1, <1>2, <1>3, PropagationKeeps

(***************************************************************************)
(* The invariant                                                           *)
(***************************************************************************)
LEMMA TrustInvInit == Init => TrustInv
<1> SUFFICES ASSUME Init PROVE TrustInv
  OBVIOUS
<1>1. Rows
  BY DEF Init, Rows, DisputeRow, DisputeStatus, PayoutHoldStatus, ReturnRow, ReturnStatus, EventStatus
<1>2. DOMAIN inflight = {}
  BY DEF Init, EmptyBag, SetToBag
<1>3. Known /\ Alone /\ ReadsHold
  BY <1>2 DEF Known, Alone, ReadsHold
<1>4. prop.pc = "idle"
  BY DEF Init
<1>5. \A k : ~Exists(k)
  BY DEF Init, Exists
<1>6. \A d \in Disputes : dispute[d].status = "absent"
  BY DEF Init
<1>7. PropOK /\ DecisionsOK
  BY <1>4, <1>5, <1>6 DEF PropOK, DecisionsOK, DisputeOK, ReturnOK
<1> QED
  BY <1>1, <1>3, <1>7 DEF TrustInv

LEMMA TrustInvStep ==
    ASSUME TrustAssumption, TrustInv, [Next]_vars
    PROVE  TrustInv'
<1>1. ASSUME NEW d \in Disputes, DisputeStep(d) PROVE TrustInv'
  <2>1. CASE \/ BeginOpenDispute(d) \/ BeginResolve(d) \/ BeginEscalate(d)
             \/ BeginAutoEscalate(d) \/ BeginClose(d)
    BY <2>1, BeginDisputeKeeps
  <2>2. CASE CommitOpenDispute(d)
    BY <2>2, CommitOpenDisputeKeeps
  <2>3. ASSUME NEW clawback \in BOOLEAN, CommitResolve(d, clawback) PROVE TrustInv'
    BY <2>3, CommitResolveKeeps
  <2>4. CASE CommitEscalate(d) \/ CommitAutoEscalate(d) \/ CommitClose(d)
    BY <2>4, SetDisputeStatusKeeps DEF CommitEscalate, CommitAutoEscalate, CommitClose
  <2>5. CASE ReleasePayoutHold(d)
    BY <2>5, ReleaseHoldKeeps
  <2> QED
    BY <1>1, <2>1, <2>2, <2>3, <2>4, <2>5 DEF DisputeStep
<1>2. ASSUME NEW r \in Returns, ReturnStep(r) PROVE TrustInv'
  BY <1>2, BeginReturnKeeps, CommitReturnKeeps DEF ReturnStep
<1>3. ASSUME NEW t \in Running, GiveUp(t[1], t[2]) PROVE TrustInv'
  BY <1>3, GiveUpKeeps
<1>4. CASE \/ PropagationStep \/ PropagationCrashes
           \/ \E k \in EventKeys : ClawbackSkipped(k) \/ LoadFails(k)
  BY <1>4, JobKeeps
<1>5. CASE EarnCommission \/ CloseClawbackWindow \/ Deliver \/ UNCHANGED vars
  BY <1>5, OrderKeeps
<1> QED
  BY <1>1, <1>2, <1>3, <1>4, <1>5 DEF Next

LEMMA InvariantHolds == Spec => []TrustInv
<1>1. TrustInv /\ [Next]_vars => TrustInv'
  BY TrustAssumption, TrustInvStep
<1> QED
  BY <1>1, TrustInvInit, PTL DEF Spec

\* An open or escalated dispute holds the buyer's payouts and a resolved one does
\* not, unless an administrator lifted the hold or decisions about it overlapped.
THEOREM HoldsMatch == Spec => []HoldFollowsDispute
<1>1. TrustInv => HoldFollowsDispute
  BY DEF TrustInv, DecisionsOK, DisputeOK, HoldFollowsDispute
<1> QED
  BY <1>1, InvariantHolds, PTL

\* Behind every clawback event stands a dispute decided that way or an approved
\* return, unless decisions about it overlapped.
THEOREM ClawbacksRight == Spec => []ClawbackJustified
<1>1. TrustInv => ClawbackJustified
  <2> SUFFICES ASSUME TrustInv PROVE ClawbackJustified
    OBVIOUS
  <2>1. ASSUME NEW d \in Disputes, d \notin contested, event[<<d, "decision">>] # "absent"
        PROVE  dispute[d].claw
    BY <2>1, DisputeKey DEF TrustInv, DecisionsOK, DisputeOK, Exists
  <2>2. ASSUME NEW r \in Returns, r \notin contested, NEW w \in {"decision", "eligibility"},
               event[<<r, w>>] # "absent"
        PROVE  ret[r].status \in {"approved", "completed"}
    BY <2>2, ReturnKey DEF TrustInv, DecisionsOK, ReturnOK, Exists
  <2> QED
    BY <2>1, <2>2 DEF ClawbackJustified
<1> QED
  BY <1>1, InvariantHolds, PTL

(***************************************************************************)
(* Clawbacks: an event is marked only after its clawback                   *)
(***************************************************************************)
Settled ==
    \/ commission \in {"none", "clawed_back"}
    \/ commission = "final" /\ "final" \in spared
    \/ spared \intersect {"error", "late"} # {}

ClawedInv ==
    /\ commission \in CommissionStatus
    /\ (\E k \in EventKeys : PastClawback(k)) => Settled

LEMMA ClawedStep == ASSUME TrustInv, ClawedInv, [Next]_vars PROVE ClawedInv'
<1>1. event \in [EventKeys -> EventStatus] /\ PropOK
  BY DEF TrustInv, Rows
\* No event gets past its clawback, and the commission stays as it is.
<1>2. ASSUME commission' = commission, spared' = spared,
             \A k \in EventKeys : PastClawback(k)' => PastClawback(k)
      PROVE  ClawedInv'
  BY <1>2 DEF ClawedInv, Settled
<1>3. ASSUME event' = event, prop' = prop, commission' = commission, spared' = spared
      PROVE  ClawedInv'
  BY <1>2, <1>3 DEF PastClawback
<1>4. ASSUME commission' = commission, spared' = spared, prop' = prop,
             \A k \in EventKeys : event'[k] = "processed" => event[k] = "processed"
      PROVE  ClawedInv'
  BY <1>2, <1>4 DEF PastClawback
<1>5. ASSUME NEW k, RecordEvent(k), commission' = commission, spared' = spared, prop' = prop
      PROVE  ClawedInv'
  <2>1. \A j \in EventKeys : event'[j] = "processed" => event[j] = "processed"
    BY <1>1, <1>5 DEF RecordEvent
  <2> QED
    BY <1>4, <1>5, <2>1
<1>6. ASSUME NEW k, NextEvent(k), event' = event, commission' = commission, spared' = spared
      PROVE  ClawedInv'
  <2>1. prop' = [pc |-> "idle", todo |-> {}] \/ prop' = [pc |-> "claw", todo |-> prop.todo \ {k}]
    BY <1>6 DEF NextEvent
  <2>2. prop'.pc # "mark"
    BY <2>1
  <2> QED
    BY <1>2, <1>6, <2>2 DEF PastClawback
<1>7. ASSUME NEW d \in Disputes, DisputeStep(d) PROVE ClawedInv'
  <2>1. ASSUME NEW clawback \in BOOLEAN, CommitResolve(d, clawback) PROVE ClawedInv'
    BY <1>3, <1>5, <2>1 DEF CommitResolve
  <2>2. CASE ~\E clawback \in BOOLEAN : CommitResolve(d, clawback)
    BY <1>3, <1>7, <2>2 DEF DisputeStep, BeginOpenDispute, CommitOpenDispute, BeginResolve,
         BeginEscalate, CommitEscalate, BeginAutoEscalate, CommitAutoEscalate, BeginClose,
         CommitClose, SetDisputeStatus, ReleasePayoutHold, WritesNothingYet
  <2> QED
    BY <2>1, <2>2
<1>8. ASSUME NEW r \in Returns, ReturnStep(r) PROVE ClawedInv'
  <2>1. CASE CommitComplete(r) \/ CommitEligibility(r)
    BY <1>5, <2>1 DEF CommitComplete, CommitEligibility
  <2>2. CASE ~(CommitComplete(r) \/ CommitEligibility(r))
    BY <1>3, <1>8, <2>2 DEF ReturnStep, BeginCreateReturn, CommitCreateReturn, BeginApprove,
         CommitApprove, BeginReject, CommitReject, BeginComplete, BeginEligibility,
         SetReturnStatus, WritesNothingYet
  <2> QED
    BY <2>1, <2>2
<1>9. ASSUME NEW t \in Running, GiveUp(t[1], t[2]) PROVE ClawedInv'
  BY <1>3, <1>9 DEF GiveUp
<1>10. CASE StartPropagation
  <2>1. prop' = [pc |-> "claw", todo |-> Recorded]
    BY <1>10 DEF StartPropagation
  <2>2. prop'.pc # "mark"
    BY <2>1
  <2> QED
    BY <1>2, <1>10, <2>2 DEF StartPropagation, PastClawback
<1>11. ASSUME NEW k \in EventKeys, ClawbackForOrder(k) PROVE ClawedInv'
  <2>1. commission' \in CommissionStatus /\ Settled'
    BY <1>11 DEF ClawbackForOrder, Skipped, ClawedInv, CommissionStatus, Settled
  <2> QED
    BY <2>1 DEF ClawedInv
<1>12. ASSUME NEW k \in EventKeys, ClawbackSkipped(k) PROVE ClawedInv'
  BY <1>12 DEF ClawbackSkipped, ClawedInv, Settled
<1>13. CASE MarkProcessed
  <2>1. PICK k : k = prop.k
    OBVIOUS
  <2>2. /\ event' = [event EXCEPT ![k] = "processed"] /\ prop.pc = "mark" /\ NextEvent(k)
        /\ commission' = commission /\ spared' = spared
    BY <1>13, <2>1 DEF MarkProcessed
  <2>3. prop' = [pc |-> "idle", todo |-> {}] \/ prop' = [pc |-> "claw", todo |-> prop.todo \ {k}]
    BY <2>2 DEF NextEvent
  <2>4. prop'.pc # "mark"
    BY <2>3
  <2>5. \A j \in EventKeys : event'[j] = "processed" => event[j] = "processed" \/ j = k
    BY <1>1, <2>2
  <2> QED
    BY <1>2, <2>1, <2>2, <2>4, <2>5 DEF PastClawback
<1>14. ASSUME NEW k \in EventKeys, LoadFails(k) PROVE ClawedInv'
  BY <1>6, <1>14 DEF LoadFails
<1>15. CASE PropagationCrashes
  <2>1. prop' = [pc |-> "idle", todo |-> {}]
    BY <1>15 DEF PropagationCrashes
  <2>2. prop'.pc # "mark"
    BY <2>1
  <2> QED
    BY <1>2, <1>15, <2>2 DEF PropagationCrashes, PastClawback
<1>16. CASE EarnCommission
  <2>1. /\ event' = event /\ prop' = prop /\ commission' = "earned"
        /\ spared' = IF \E k \in EventKeys : PastClawback(k) THEN spared \union {"late"} ELSE spared
    BY <1>16 DEF EarnCommission
  <2>2. \A k \in EventKeys : PastClawback(k)' => PastClawback(k)
    BY <2>1 DEF PastClawback
  <2> QED
    BY <2>1, <2>2 DEF ClawedInv, Settled, CommissionStatus
<1>18. CASE CloseClawbackWindow
  <2>1. /\ event' = event /\ prop' = prop /\ spared' = spared
        /\ commission = "earned" /\ commission' = "final"
    BY <1>18 DEF CloseClawbackWindow
  <2>2. \A k \in EventKeys : PastClawback(k)' => PastClawback(k)
    BY <2>1 DEF PastClawback
  <2> QED
    BY <2>1, <2>2 DEF ClawedInv, Settled, CommissionStatus
<1>17. CASE Deliver \/ UNCHANGED vars
  BY <1>3, <1>17 DEF Deliver, vars
<1> QED
  BY <1>7, <1>8, <1>9, <1>10, <1>11, <1>12, <1>13, <1>14, <1>15, <1>16, <1>17, <1>18
  DEF Next, PropagationStep

\* Once the propagation job has marked an event, the order's commission has been
\* clawed back, unless its debit failed, it was booked only afterwards, or it was
\* final already when the job looked at it.
THEOREM ProcessedClawed == Spec => []ProcessedMeansClawed
<1>1. Init => ClawedInv
  <2> SUFFICES ASSUME Init PROVE ClawedInv
    OBVIOUS
  <2>1. /\ prop.pc = "idle" /\ commission = "none"
        /\ \A k \in EventKeys : event[k] = "absent"
    BY DEF Init
  <2> QED
    BY <2>1 DEF ClawedInv, PastClawback, CommissionStatus
<1>2. TrustInv /\ ClawedInv /\ [Next]_vars => ClawedInv'
  BY ClawedStep
<1>3. ClawedInv => ProcessedMeansClawed
  BY DEF ClawedInv, Settled, PastClawback, ProcessedMeansClawed
<1> QED
  BY <1>1, <1>2, <1>3, InvariantHolds, PTL DEF Spec
===============================================================================
