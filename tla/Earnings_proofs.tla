--------------------------- MODULE Earnings_proofs ---------------------------
(***************************************************************************)
(* What TLAPS proves of commissions and payouts, for every number of       *)
(* orders, levels, users, requests and runs of the jobs.                   *)
(*                                                                         *)
(*   BookedOnce               Spec => []CommissionBookedOnce               *)
(*   ReleasedWhole            Spec => []ReleaseIsWhole                     *)
(*                                                                         *)
(* and with at most one review in flight (OneReviewer):                    *)
(*                                                                         *)
(*   GivenBackIsFinal         Spec => GivenBackStaysUnsent                 *)
(*   RequestsHoldTheirAmount  Spec => []RequestsBooked                     *)
(*   NobodyIsOverpaid         Spec => []PaidFromEarnings                   *)
(*                                                                         *)
(* The ledger only grows, and commissions and payouts write entries of     *)
(* different kinds.  What is booked on a commission or on a request        *)
(* follows from its status and the kinds already written; a user has one   *)
(* active request at most, whose amount is covered once it is approved.    *)
(***************************************************************************)
EXTENDS Earnings, FiniteSetTheorems, TLAPS

\* The ledger only grows, and only by entries of these kinds.
GrowsBy(kinds) ==
    /\ ledger \subseteq ledger'
    /\ \A x \in ledger' : x \notin ledger => x.key[1] \in kinds

LEMMA WrittenKept ==
    ASSUME NEW kinds, GrowsBy(kinds), NEW kind, kind \notin kinds, NEW ref
    PROVE  Written(kind, ref)' <=> Written(kind, ref)
  BY DEF GrowsBy, Written

LEMMA WrittenStays ==
    ASSUME NEW kinds, GrowsBy(kinds), NEW kind, NEW ref, Written(kind, ref)
    PROVE  Written(kind, ref)'
  BY DEF GrowsBy, Written

\* No step of the payout service touches the entries of commissions ...
LEMMA PayoutWrites ==
    ASSUME P!PayoutNext
    PROVE  GrowsBy(PayoutKinds)
<1>1. ASSUME NEW entries, C!WriteEntries(entries) \/ P!WriteEntries(entries),
             \A x \in entries : x.key[1] \in PayoutKinds
      PROVE  GrowsBy(PayoutKinds)
  BY <1>1 DEF GrowsBy, C!WriteEntries, P!WriteEntries
<1>2. CASE UNCHANGED ledger
  BY <1>2 DEF GrowsBy
<1>3. ASSUME NEW kind \in PayoutKinds, NEW p, NEW type, NEW row, NEW sign,
             P!WriteEntries({P!PayoutEntry(kind, p, type, row, sign)})
      PROVE  GrowsBy(PayoutKinds)
  BY <1>1, <1>3 DEF P!PayoutEntry, P!Entry
<1>4. /\ "payout-requested" \in PayoutKinds /\ "payout-rejected" \in PayoutKinds
      /\ "payout-sent" \in PayoutKinds /\ "payout-batch-failed" \in PayoutKinds
  BY DEF PayoutKinds, EntryKinds, EventKinds
<1>5. ASSUME NEW a \in Requesters, P!CommitRequest(a) PROVE GrowsBy(PayoutKinds)
  BY <1>3, <1>4, <1>5 DEF P!CommitRequest
<1>6. ASSUME NEW a \in Reviewers, P!CommitReject(a) PROVE GrowsBy(PayoutKinds)
  BY <1>3, <1>4, <1>6 DEF P!CommitReject
<1>7. ASSUME NEW b \in Runners, P!SendPayout(b) PROVE GrowsBy(PayoutKinds)
  BY <1>3, <1>4, <1>7 DEF P!SendPayout
<1>8. ASSUME NEW b \in Runners, P!RecoverPayout(b) PROVE GrowsBy(PayoutKinds)
  BY <1>3, <1>4, <1>8 DEF P!RecoverPayout
<1>9. QED
  BY <1>2, <1>5, <1>6, <1>7, <1>8
     DEF P!PayoutNext, P!BeginRequest, P!BeginApprove, P!BeginReject, P!CommitApprove,
         P!ListApproved, P!OpenBatch, P!SendFails, P!RecoveryFails, P!CloseBatch,
         P!TakePayout, P!SkipPayout, P!ReadFails, P!GiveUp, P!PlaceHold, P!ReleaseHold

\* ... and no step of the commission engine touches those of payouts.
LEMMA CommissionWrites ==
    ASSUME C!CommissionNext
    PROVE  GrowsBy(EventKinds)
<1>1. ASSUME NEW entries, C!WriteEntries(entries),
             \A x \in entries : x.key[1] \in EventKinds
      PROVE  GrowsBy(EventKinds)
  BY <1>1 DEF GrowsBy, C!WriteEntries
<1>2. CASE UNCHANGED ledger
  BY <1>2 DEF GrowsBy
<1>3. ASSUME NEW c \in Calculators, C!Calculate(c) PROVE GrowsBy(EventKinds)
  <2>1. PICK due : due = C!Due(c)
    OBVIOUS
  <2>2. C!WriteEntries({C!PendingEntry(e) : e \in due})
    BY <1>3, <2>1 DEF C!Calculate
  <2>3. \A x \in {C!PendingEntry(e) : e \in due} : x.key[1] \in EventKinds
    BY DEF C!PendingEntry, C!Entry, EventKinds
  <2>4. QED
    BY <1>1, <2>2, <2>3
<1>4. ASSUME NEW r \in Releasers, C!CommitRelease(r) PROVE GrowsBy(EventKinds)
  BY <1>1, <1>4 DEF C!CommitRelease, C!ReleaseEntries, C!Entry, EventKinds
<1>5. ASSUME NEW x \in Clawers, C!CommitClawback(x) PROVE GrowsBy(EventKinds)
  BY <1>1, <1>5 DEF C!CommitClawback, C!ClawbackEntry, C!Entry, EventKinds
<1>6. QED
  BY <1>2, <1>3, <1>4, <1>5
     DEF C!CommissionNext, C!OrderPaid, C!OrderMoves, C!CorrectUpline, C!Requalify,
         C!ChangePolicy, C!TimePasses, C!Claim, C!SkipUnpaid, C!VerifyPaid,
         C!SkipUnearning, C!ReadUpline, C!CalculationFails, C!CalculationAborts,
         C!BeginRelease, C!ListForClawback, C!BeginClawback, C!Stop

(***************************************************************************)
(* A commission becomes available by a whole release.  What makes it       *)
(* inductive: a run that has read an event for release is still about an   *)
(* event whose holding period has passed, however the event has moved.     *)
(***************************************************************************)
EventRow == [status: {"absent", "pending", "available", "clawed_back"},
             age: {"held", "due", "closed"}]

Due(e) == event[e].status # "absent" /\ event[e].age # "held"

Released(e) ==
    /\ Written("release-credit", e) <=> Written("release-offset", e)
    /\ Written("release-credit", e) =>
          event[e].status \in {"available", "clawed_back"} /\ Due(e)
    /\ event[e].status = "available" => Written("release-credit", e)

WorkOK(w) ==
    /\ "op" \in DOMAIN work[w]
    /\ work[w].op = "release" =>
          work[w].pc = "read" /\ work[w].e \in C!Events /\ Due(work[w].e)

ReleaseInv ==
    /\ event \in [C!Events -> EventRow]
    /\ DOMAIN work = C!Workers
    /\ \A w \in C!Workers : WorkOK(w)
    /\ \A e \in C!Events : Released(e)

\* Each run goes on as it was, or is about something else now.
NoReleaseBegins ==
    /\ DOMAIN work' = C!Workers
    /\ \A w \in C!Workers :
          \/ work'[w] = work[w]
          \/ "op" \in DOMAIN work'[w] /\ work'[w].op # "release"

LEMMA ReleaseInit == Init => ReleaseInv
<1> SUFFICES ASSUME Init PROVE ReleaseInv
  OBVIOUS
<1>1. /\ ledger = {} /\ event = [e \in C!Events |-> C!NoEvent]
      /\ work = [w \in C!Workers |-> C!NoWork]
  BY DEF Init, C!CommissionInit
<1>2. event \in [C!Events -> EventRow]
  BY <1>1 DEF C!NoEvent, EventRow
<1>3. \A w \in C!Workers : WorkOK(w)
  BY <1>1 DEF C!NoWork, WorkOK
<1>4. \A e \in C!Events : Released(e)
  BY <1>1 DEF C!NoEvent, Released, Written
<1>5. QED
  BY <1>1, <1>2, <1>3, <1>4 DEF ReleaseInv

\* The steps that leave the events and the release entries alone: they keep the
\* invariant when no run starts a release by them.
LEMMA ReleaseUntouched ==
    ASSUME ReleaseInv, event' = event,
           NEW kinds, GrowsBy(kinds),
           "release-credit" \notin kinds, "release-offset" \notin kinds,
           NoReleaseBegins
    PROVE  ReleaseInv'
<1>1. \A e : Due(e)' = Due(e)
  BY DEF Due
<1>2. \A e \in C!Events : Released(e)'
  <2> SUFFICES ASSUME NEW e \in C!Events PROVE Released(e)'
    OBVIOUS
  <2>1. /\ Written("release-credit", e)' <=> Written("release-credit", e)
        /\ Written("release-offset", e)' <=> Written("release-offset", e)
    BY WrittenKept
  <2>2. QED
    BY <2>1 DEF ReleaseInv, Released, Due
<1>3. \A w \in C!Workers : WorkOK(w)'
  <2> SUFFICES ASSUME NEW w \in C!Workers PROVE WorkOK(w)'
    OBVIOUS
  <2>1. CASE work'[w] = work[w]
    BY <2>1 DEF ReleaseInv, WorkOK, Due
  <2>2. CASE "op" \in DOMAIN work'[w] /\ work'[w].op # "release"
    BY <2>2 DEF WorkOK
  <2>3. QED
    BY <2>1, <2>2 DEF NoReleaseBegins
<1>4. QED
  BY <1>2, <1>3 DEF ReleaseInv, NoReleaseBegins

\* A run of something else than a release.
LEMMA OtherWork ==
    ASSUME ReleaseInv, NEW w \in C!Workers, work[w].op # "release"
    PROVE  /\ \A pc : LET t == [work[w] EXCEPT !.pc = pc]
                      IN  "op" \in DOMAIN t /\ t.op # "release"
           /\ \A pc, path : LET t == [work[w] EXCEPT !.pc = pc, !.path = path]
                            IN  "op" \in DOMAIN t /\ t.op # "release"
           /\ \A pc, type : LET t == [work[w] EXCEPT !.pc = pc, !.type = type]
                            IN  "op" \in DOMAIN t /\ t.op # "release"
<1>1. PICK t : t = work[w]
  OBVIOUS
<1>2. "op" \in DOMAIN t /\ t.op # "release"
  BY <1>1 DEF ReleaseInv, WorkOK
<1>3. QED
  BY <1>1, <1>2

LEMMA NotReleasing ==
    ASSUME ReleaseInv, NEW w \in C!Workers, NEW pc, C!At(w, pc), pc # "read"
    PROVE  work[w].op # "release"
  BY DEF ReleaseInv, WorkOK, C!At

\* Runs of the outbox processor.
LEMMA ReleaseKeptByCalculators ==
    ASSUME ReleaseInv, NEW c \in Calculators,
           \/ \E o \in Orders : C!Claim(c, o)
           \/ C!SkipUnpaid(c) \/ C!VerifyPaid(c) \/ C!SkipUnearning(c) \/ C!ReadUpline(c)
           \/ C!CalculationFails(c) \/ C!CalculationAborts(c)
    PROVE  ReleaseInv'
<1>1. event' = event /\ ledger' = ledger /\ GrowsBy({})
  BY DEF C!Claim, C!SkipUnpaid, C!VerifyPaid, C!SkipUnearning, C!ReadUpline,
         C!CalculationFails, C!CalculationAborts, GrowsBy
<1>2. c \in C!Workers /\ DOMAIN work = C!Workers
  BY DEF C!Workers, ReleaseInv
<1>3. ASSUME work' = [work EXCEPT ![c] = C!NoWork]
      PROVE  NoReleaseBegins
  BY <1>2, <1>3 DEF C!NoWork, NoReleaseBegins
<1>4. ASSUME NEW o \in Orders, C!Claim(c, o) PROVE ReleaseInv'
  <2>1. PICK n : work' = [work EXCEPT ![c] = [op |-> "calc", pc |-> "claimed", o |-> o,
                                              errors |-> n, path |-> <<>>]]
    BY <1>4 DEF C!Claim
  <2>2. NoReleaseBegins
    BY <1>2, <2>1 DEF NoReleaseBegins
  <2>3. QED
    BY <1>1, <2>2, ReleaseUntouched
<1>5. CASE C!VerifyPaid(c)
  <2>1. work[c].op # "release"
    BY <1>2, <1>5, NotReleasing DEF C!VerifyPaid
  <2>2. work' = [work EXCEPT ![c].pc = "paid"]
    BY <1>5 DEF C!VerifyPaid
  <2>3. NoReleaseBegins
    BY <1>2, <2>1, <2>2, OtherWork DEF NoReleaseBegins
  <2>4. QED
    BY <1>1, <2>3, ReleaseUntouched
<1>6. CASE C!ReadUpline(c)
  <2>1. work[c].op # "release"
    BY <1>2, <1>6, NotReleasing DEF C!ReadUpline
  <2>2. PICK path : work' = [work EXCEPT ![c].pc = "planned", ![c].path = path]
    BY <1>6 DEF C!ReadUpline
  <2>3. work' = [work EXCEPT ![c] = [work[c] EXCEPT !.pc = "planned", !.path = path]]
    BY <1>2, <2>2
  <2>4. PICK t : t = [work[c] EXCEPT !.pc = "planned", !.path = path]
    OBVIOUS
  <2>5. "op" \in DOMAIN t /\ t.op # "release"
    BY <1>2, <2>1, <2>4, OtherWork
  <2>6. NoReleaseBegins
    BY <1>2, <2>3, <2>4, <2>5 DEF NoReleaseBegins
  <2>7. QED
    BY <1>1, <2>6, ReleaseUntouched
<1>7. CASE work' = [work EXCEPT ![c] = C!NoWork]
  BY <1>1, <1>3, <1>7, ReleaseUntouched
<1>8. QED
  BY <1>4, <1>5, <1>6, <1>7
     DEF C!SkipUnpaid, C!SkipUnearning, C!CalculationFails, C!CalculationAborts,
         C!Publish, C!CountError, C!Finish

\* What a run read stays due: no step makes an event absent, or young, again.
LEMMA RunsStayDue ==
    ASSUME ReleaseInv, NoReleaseBegins,
           \A e \in C!Events : Due(e) => Due(e)'
    PROVE  \A w \in C!Workers : WorkOK(w)'
<1> SUFFICES ASSUME NEW w \in C!Workers PROVE WorkOK(w)'
  OBVIOUS
<1>1. CASE work'[w] = work[w]
  <2>1. PICK t : t = work[w]
    OBVIOUS
  <2>2. "op" \in DOMAIN t /\ (t.op = "release" => t.pc = "read" /\ t.e \in C!Events /\ Due(t.e))
    BY <2>1 DEF ReleaseInv, WorkOK
  <2>3. t.op = "release" => Due(t.e)'
    BY <2>2
  <2>4. QED
    BY <1>1, <2>1, <2>2, <2>3 DEF WorkOK
<1>2. CASE "op" \in DOMAIN work'[w] /\ work'[w].op # "release"
  BY <1>2 DEF WorkOK
<1>3. QED
  BY <1>1, <1>2 DEF NoReleaseBegins

LEMMA ReleaseKeptByCalculate ==
    ASSUME ReleaseInv, NEW c \in Calculators, C!Calculate(c)
    PROVE  ReleaseInv'
<1>1. PICK due : due = C!Due(c)
  OBVIOUS
<1>2. /\ \A e \in due : event[e].status = "absent"
      /\ event' = [e \in C!Events |->
                     IF e \in due THEN [status |-> "pending", age |-> "held"] ELSE event[e]]
      /\ C!WriteEntries({C!PendingEntry(e) : e \in due})
      /\ work' = [work EXCEPT ![c] = C!NoWork]
  BY <1>1 DEF C!Calculate, C!Publish, C!Finish
<1>3. GrowsBy({"commission-pending"})
  BY <1>2 DEF GrowsBy, C!WriteEntries, C!PendingEntry, C!Entry
<1>4. NoReleaseBegins
  BY <1>2 DEF NoReleaseBegins, ReleaseInv, C!NoWork
<1>5. event' \in [C!Events -> EventRow]
  BY <1>2 DEF ReleaseInv, EventRow
<1>6. ASSUME NEW e \in C!Events PROVE (Due(e) => Due(e)') /\ Released(e)'
  <2>1. /\ Written("release-credit", e)' <=> Written("release-credit", e)
        /\ Written("release-offset", e)' <=> Written("release-offset", e)
    BY <1>3, WrittenKept
  <2>2. CASE e \in due
    BY <1>2, <2>1, <2>2 DEF ReleaseInv, Released, Due
  <2>3. CASE e \notin due
    BY <1>2, <2>1, <2>3 DEF ReleaseInv, Released, Due
  <2>4. QED
    BY <2>2, <2>3
<1>7. QED
  BY <1>4, <1>5, <1>6, RunsStayDue DEF ReleaseInv, NoReleaseBegins

LEMMA ReleaseKeptByTime ==
    ASSUME ReleaseInv, NEW d \in C!Events, C!TimePasses(d)
    PROVE  ReleaseInv'
<1>1. /\ event[d].status # "absent"
      /\ event' = [event EXCEPT ![d].age = IF @ = "held" THEN "due" ELSE "closed"]
      /\ ledger' = ledger /\ work' = work
  BY DEF C!TimePasses
<1>2. event' \in [C!Events -> EventRow]
  BY <1>1 DEF ReleaseInv, EventRow
<1>3. ASSUME NEW e \in C!Events PROVE event'[e].status = event[e].status /\ (Due(e) => Due(e)')
  BY <1>1 DEF ReleaseInv, EventRow, Due
<1>4. ASSUME NEW e \in C!Events PROVE Released(e)'
  BY <1>1, <1>3 DEF ReleaseInv, Released, Written
<1>5. NoReleaseBegins
  BY <1>1 DEF NoReleaseBegins, ReleaseInv
<1>6. QED
  BY <1>2, <1>3, <1>4, <1>5, RunsStayDue DEF ReleaseInv, NoReleaseBegins

LEMMA ReleaseKeptByReleaser ==
    ASSUME ReleaseInv, NEW r \in Releasers,
           (\E e \in C!Events : C!BeginRelease(r, e)) \/ C!CommitRelease(r)
    PROVE  ReleaseInv'
<1>1. r \in C!Workers /\ DOMAIN work = C!Workers
  BY DEF C!Workers, ReleaseInv
<1>2. ASSUME NEW d \in C!Events, C!BeginRelease(r, d) PROVE ReleaseInv'
  <2>1. /\ event[d].status = "pending" /\ event[d].age # "held"
        /\ work' = [work EXCEPT ![r] = [op |-> "release", pc |-> "read", e |-> d]]
        /\ event' = event /\ ledger' = ledger
    BY <1>2 DEF C!BeginRelease
  <2>2. \A e \in C!Events : Released(e)'
    BY <2>1 DEF ReleaseInv, Released, Due, Written
  <2>3. ASSUME NEW w \in C!Workers PROVE WorkOK(w)'
    <3>1. CASE w = r
      <4>1. work'[w] = [op |-> "release", pc |-> "read", e |-> d]
        BY <1>1, <2>1, <3>1
      <4>2. Due(d)'
        BY <2>1 DEF Due
      <4>3. QED
        BY <2>1, <4>1 DEF WorkOK, Due
    <3>2. CASE w # r
      BY <1>1, <2>1, <3>2 DEF ReleaseInv, WorkOK, Due
    <3>3. QED
      BY <3>1, <3>2
  <2>4. QED
    BY <1>1, <2>1, <2>2, <2>3 DEF ReleaseInv
<1>3. CASE C!CommitRelease(r)
  <2>1. PICK d : d = work[r].e
    OBVIOUS
  <2>2. /\ work[r].op = "release"
        /\ C!CanWrite(C!ReleaseEntries(d)) /\ C!WriteEntries(C!ReleaseEntries(d))
        /\ event' = [event EXCEPT ![d].status = "available"]
        /\ work' = [work EXCEPT ![r] = C!NoWork]
    BY <1>3, <2>1 DEF C!CommitRelease, C!Finish
  <2>3. d \in C!Events /\ Due(d)
    BY <1>1, <2>1, <2>2 DEF ReleaseInv, WorkOK
  <2>4. event' \in [C!Events -> EventRow]
    BY <2>2 DEF ReleaseInv, EventRow
  <2>5. ASSUME NEW e \in C!Events, e # d PROVE event'[e] = event[e]
    BY <2>2, <2>5 DEF ReleaseInv
  <2>6. event'[d].status = "available" /\ Due(d)'
    BY <2>2, <2>3 DEF ReleaseInv, EventRow, Due
  <2>7. ASSUME NEW e \in C!Events PROVE Due(e) => Due(e)'
    BY <2>5, <2>6 DEF Due
  <2>8. NoReleaseBegins
    BY <1>1, <2>2 DEF NoReleaseBegins, C!NoWork
  <2>9. \A e \in C!Events : Released(e)'
    <3>1. PICK x, y : /\ x.key = <<"release-offset", d>> /\ y.key = <<"release-credit", d>>
                      /\ ledger' = ledger \union {x, y}
      BY <2>2 DEF C!WriteEntries, C!ReleaseEntries, C!Entry
    <3>2. Written("release-offset", d)' /\ Written("release-credit", d)'
      BY <3>1 DEF Written
    <3>3. ASSUME NEW e \in C!Events, e # d
          PROVE  /\ Written("release-credit", e)' <=> Written("release-credit", e)
                 /\ Written("release-offset", e)' <=> Written("release-offset", e)
      BY <3>1, <3>3 DEF Written
    <3>4. ASSUME NEW e \in C!Events, e # d PROVE Released(e)'
      BY <2>5, <3>3, <3>4 DEF ReleaseInv, Released, Due
    <3>5. Released(d)'
      BY <2>6, <3>2 DEF Released
    <3>6. QED
      BY <3>4, <3>5
  <2>10. QED
    BY <2>4, <2>7, <2>8, <2>9, RunsStayDue DEF ReleaseInv, NoReleaseBegins
<1>4. QED
  BY <1>2, <1>3

LEMMA ReleaseKeptByClawer ==
    ASSUME ReleaseInv, NEW x \in Clawers,
           \/ \E e \in C!Events : C!ListForClawback(x, e)
           \/ C!BeginClawback(x) \/ C!CommitClawback(x)
    PROVE  ReleaseInv'
<1>1. x \in C!Workers /\ DOMAIN work = C!Workers
  BY DEF C!Workers, ReleaseInv
<1>2. ASSUME NEW d \in C!Events, C!ListForClawback(x, d) PROVE ReleaseInv'
  <2>1. /\ work' = [work EXCEPT ![x] = [op |-> "clawback", pc |-> "listed", e |-> d,
                                        type |-> "clawback"]]
        /\ event' = event /\ GrowsBy({})
    BY <1>2 DEF C!ListForClawback, GrowsBy
  <2>2. NoReleaseBegins
    BY <1>1, <2>1 DEF NoReleaseBegins
  <2>3. QED
    BY <2>1, <2>2, ReleaseUntouched
<1>3. CASE C!BeginClawback(x)
  <2>1. work[x].op # "release"
    BY <1>1, <1>3, NotReleasing DEF C!BeginClawback
  <2>2. PICK type : work' = [work EXCEPT ![x].pc = "read", ![x].type = type]
    BY <1>3 DEF C!BeginClawback
  <2>3. work' = [work EXCEPT ![x] = [work[x] EXCEPT !.pc = "read", !.type = type]]
    BY <1>1, <2>2
  <2>4. PICK t : t = [work[x] EXCEPT !.pc = "read", !.type = type]
    OBVIOUS
  <2>5. "op" \in DOMAIN t /\ t.op # "release"
    BY <1>1, <2>1, <2>4, OtherWork
  <2>6. NoReleaseBegins
    BY <1>1, <2>3, <2>4, <2>5 DEF NoReleaseBegins
  <2>7. event' = event /\ GrowsBy({})
    BY <1>3 DEF C!BeginClawback, GrowsBy
  <2>8. QED
    BY <2>6, <2>7, ReleaseUntouched
<1>4. CASE C!CommitClawback(x)
  <2>1. PICK d, y : /\ y.key = <<"clawback", d>> /\ ledger' = ledger \union {y}
                    /\ event' = [event EXCEPT ![d].status = "clawed_back"]
                    /\ work' = [work EXCEPT ![x] = C!NoWork]
    <3>1. PICK d : d = work[x].e
      OBVIOUS
    <3>2. PICK y : y = C!ClawbackEntry(d, work[x].type)
      OBVIOUS
    <3>3. /\ ledger' = ledger \union {y}
          /\ event' = [event EXCEPT ![d].status = "clawed_back"]
          /\ work' = [work EXCEPT ![x] = C!NoWork]
      BY <1>4, <3>1, <3>2 DEF C!CommitClawback, C!Finish, C!WriteEntries
    <3>4. y.key = <<"clawback", d>>
      BY <3>2 DEF C!ClawbackEntry, C!Entry
    <3>5. QED
      BY <3>3, <3>4
  <2>2. GrowsBy({"clawback"})
    BY <2>1 DEF GrowsBy
  <2>3. NoReleaseBegins
    BY <1>1, <2>1 DEF NoReleaseBegins, C!NoWork
  <2>4. event' \in [C!Events -> EventRow]
    BY <2>1 DEF ReleaseInv, EventRow
  <2>5. ASSUME NEW e \in C!Events
        PROVE  event'[e] = event[e] \/ (event'[e].status = "clawed_back" /\ event'[e].age = event[e].age)
    BY <2>1 DEF ReleaseInv, EventRow
  <2>6. ASSUME NEW e \in C!Events PROVE Due(e) => Due(e)'
    BY <2>5 DEF Due
  <2>7. ASSUME NEW e \in C!Events PROVE Released(e)'
    <3>1. /\ Written("release-credit", e)' <=> Written("release-credit", e)
          /\ Written("release-offset", e)' <=> Written("release-offset", e)
      BY <2>2, WrittenKept
    <3>2. QED
      BY <2>5, <3>1 DEF ReleaseInv, Released, Due
  <2>8. QED
    BY <2>3, <2>4, <2>6, <2>7, RunsStayDue DEF ReleaseInv, NoReleaseBegins
<1>5. QED
  BY <1>2, <1>3, <1>4

LEMMA ReleaseStep == ReleaseInv /\ [Next]_vars => ReleaseInv'
<1> SUFFICES ASSUME ReleaseInv, [Next]_vars PROVE ReleaseInv'
  OBVIOUS
<1>1. work' = work => NoReleaseBegins
  BY DEF NoReleaseBegins, ReleaseInv
<1>2. ASSUME event' = event, ledger' = ledger, work' = work PROVE ReleaseInv'
  <2>1. GrowsBy({})
    BY <1>2 DEF GrowsBy
  <2>2. QED
    BY <1>1, <1>2, <2>1, ReleaseUntouched
<1>3. CASE UNCHANGED vars
  BY <1>2, <1>3 DEF vars, commissionVars
<1>4. CASE P!PayoutNext /\ UNCHANGED commissionVars
  <2>1. GrowsBy(PayoutKinds) /\ event' = event /\ work' = work
    BY <1>4, PayoutWrites DEF commissionVars
  <2>2. "release-credit" \notin PayoutKinds /\ "release-offset" \notin PayoutKinds
    BY DEF PayoutKinds, EventKinds
  <2>3. QED
    BY <1>1, <2>1, <2>2, ReleaseUntouched
<1>5. CASE C!CommissionNext
  <2>1. ASSUME NEW o \in Orders, NEW path \in C!Paths, C!CorrectUpline(o, path)
        PROVE  ReleaseInv'
    BY <1>2, <2>1 DEF C!CorrectUpline
  <2>2. ASSUME NEW o \in Orders, C!OrderPaid(o) \/ C!OrderMoves(o) PROVE ReleaseInv'
    BY <1>2, <2>2 DEF C!OrderPaid, C!OrderMoves
  <2>3. CASE C!ChangePolicy \/ \E u \in Users : C!Requalify(u)
    BY <1>2, <2>3 DEF C!ChangePolicy, C!Requalify, C!commissionVars
  <2>4. ASSUME NEW w \in C!Workers, C!Stop(w) PROVE ReleaseInv'
    <3>1. event' = event /\ GrowsBy({}) /\ work' = [work EXCEPT ![w] = C!NoWork]
      BY <2>4 DEF C!Stop, C!Finish, GrowsBy
    <3>2. NoReleaseBegins
      BY <3>1 DEF NoReleaseBegins, ReleaseInv, C!NoWork
    <3>3. QED
      BY <3>1, <3>2, ReleaseUntouched
  <2>5. ASSUME NEW c \in Calculators, NEW o \in Orders, C!Claim(c, o) PROVE ReleaseInv'
    BY <2>5, ReleaseKeptByCalculators
  <2>6. ASSUME NEW c \in Calculators,
               \/ C!SkipUnpaid(c) \/ C!VerifyPaid(c) \/ C!SkipUnearning(c) \/ C!ReadUpline(c)
               \/ C!CalculationFails(c) \/ C!CalculationAborts(c)
        PROVE  ReleaseInv'
    BY <2>6, ReleaseKeptByCalculators
  <2>7. QED
    BY <1>5, <2>1, <2>2, <2>3, <2>4, <2>5, <2>6, ReleaseKeptByCalculate, ReleaseKeptByTime,
       ReleaseKeptByReleaser, ReleaseKeptByClawer
       DEF C!CommissionNext
<1>6. QED
  BY <1>3, <1>4, <1>5 DEF Next

\* A commission is credited to the available balance only together with the offset
\* of its pending entry, and never before its holding period has passed: under any
\* interleaving of the release job, clawbacks, outbox runs and payouts
\* (CommissionReleaseJob.releaseEvent, ClawbackJob.clawbackForOrder).
THEOREM ReleasedWhole == Spec => []ReleaseIsWhole
<1>1. ReleaseInv => ReleaseIsWhole
  BY DEF ReleaseInv, Released, Due, ReleaseIsWhole
<1>2. QED
  BY <1>1, ReleaseInit, ReleaseStep, PTL DEF Spec

(***************************************************************************)
(* A request that was given back is not sent.  The unique index lets one   *)
(* batch be open, so one run works on a request; a request under review is *)
(* still requested and one about to be sent still approved, when nobody    *)
(* reviews beside the reviewer; a batch may have listed a request long     *)
(* ago, but only the recovery moves one that was dispatched.               *)
(***************************************************************************)
OneReviewer == \A a, b \in Reviewers : a = b

InBatch(a) == task[a].op \in {"open", "sending", "recovering"}
BatchOps == {"listed", "open", "sending", "recovering"}

\* What an approved request may have become.
Dispatched == {"approved", "sent", "failed"}

TaskOK(a) ==
    /\ "op" \in DOMAIN task[a]
    /\ task[a].op \in {"approve", "reject"} =>
          /\ a \in Reviewers /\ task[a].p \in Payouts
          /\ payout[task[a].p].status = "requested"
    /\ task[a].op \in {"sending", "recovering"} =>
          task[a].p \in Payouts /\ payout[task[a].p].status \in Dispatched
    /\ task[a].op = "sending" => payout[task[a].p].status = "approved"
    /\ task[a].op \in BatchOps =>
          \A p \in task[a].todo : p \in Payouts /\ payout[p].status \in Dispatched
    /\ InBatch(a) => processing

EntriesSay(p) ==
    /\ Written("payout-rejected", p) => payout[p].status = "rejected"
    /\ Written("payout-sent", p) => payout[p].status \in {"sent", "failed"}
    /\ payout[p].status = "sent" => Written("payout-sent", p)
    /\ Written("payout-batch-failed", p) <=> payout[p].status = "failed"

PayoutInv ==
    /\ DOMAIN payout = Payouts
    /\ \A p \in Payouts : "status" \in DOMAIN payout[p]
    /\ DOMAIN task = P!Actors
    /\ \A a \in P!Actors : TaskOK(a)
    /\ \A a, b \in P!Actors : InBatch(a) /\ InBatch(b) => a = b
    /\ \A p \in Payouts : EntriesSay(p)

LEMMA PayoutInvInit == Init => PayoutInv
<1> SUFFICES ASSUME Init PROVE PayoutInv
  OBVIOUS
<1>1. /\ ledger = {} /\ payout = [p \in Payouts |-> P!Absent]
      /\ task = [a \in P!Actors |-> P!NoTask]
  BY DEF Init, P!PayoutInit
<1>2. \A a \in P!Actors : TaskOK(a) /\ ~InBatch(a)
  BY <1>1 DEF P!NoTask, TaskOK, InBatch, BatchOps
<1>3. \A p \in Payouts : EntriesSay(p)
  BY <1>1 DEF EntriesSay, Written, P!Absent
<1>4. QED
  BY <1>1, <1>2, <1>3 DEF PayoutInv, P!Absent

\* A step that changes the task of one call alone, to one that is not in a batch or
\* was in it already.
LEMMA TaskChanges ==
    ASSUME PayoutInv, payout' = payout, NEW kinds, GrowsBy(kinds),
           kinds \intersect {"payout-rejected", "payout-sent", "payout-batch-failed"} = {},
           NEW a \in P!Actors, NEW t, task' = [task EXCEPT ![a] = t],
           processing => processing',
           "op" \in DOMAIN t,
           t.op \in {"approve", "reject"} =>
              a \in Reviewers /\ t.p \in Payouts /\ payout[t.p].status = "requested",
           t.op \in {"sending", "recovering"} =>
              t.p \in Payouts /\ payout[t.p].status \in Dispatched,
           t.op = "sending" => payout[t.p].status = "approved",
           t.op \in BatchOps =>
              \A p \in t.todo : p \in Payouts /\ payout[p].status \in Dispatched,
           t.op \in {"open", "sending", "recovering"} =>
              InBatch(a) \/ (~processing /\ processing')
    PROVE  PayoutInv'
<1>1. task'[a] = t /\ DOMAIN task' = P!Actors
  BY DEF PayoutInv
<1>2. ASSUME NEW b \in P!Actors, b # a PROVE task'[b] = task[b]
  BY <1>2 DEF PayoutInv
<1>3. InBatch(a) => processing
  BY DEF PayoutInv, TaskOK
<1>4. TaskOK(a)'
  BY <1>1, <1>3 DEF TaskOK, InBatch
<1>5. ASSUME NEW b \in P!Actors, b # a PROVE TaskOK(b)'
  BY <1>2, <1>5 DEF PayoutInv, TaskOK, InBatch
<1>6. ASSUME NEW b \in P!Actors, b # a, InBatch(b)' PROVE ~InBatch(a)'
  <2>1. InBatch(b) /\ processing
    BY <1>2, <1>6 DEF InBatch, PayoutInv, TaskOK
  <2>2. ~InBatch(a)
    BY <1>6, <2>1 DEF PayoutInv
  <2>3. QED
    BY <1>1, <2>1, <2>2 DEF InBatch
<1>7. ASSUME NEW b \in P!Actors, NEW c \in P!Actors, InBatch(b)', InBatch(c)' PROVE b = c
  <2>1. CASE b # a /\ c # a
    BY <1>2, <1>7, <2>1 DEF PayoutInv, InBatch
  <2>2. CASE b = a \/ c = a
    BY <1>6, <1>7, <2>2
  <2>3. QED
    BY <2>1, <2>2
<1>8. ASSUME NEW p \in Payouts PROVE EntriesSay(p)'
  <2>1. /\ Written("payout-rejected", p)' <=> Written("payout-rejected", p)
        /\ Written("payout-sent", p)' <=> Written("payout-sent", p)
        /\ Written("payout-batch-failed", p)' <=> Written("payout-batch-failed", p)
    BY WrittenKept
  <2>2. QED
    BY <2>1 DEF PayoutInv, EntriesSay
<1>9. QED
  BY <1>1, <1>4, <1>5, <1>7, <1>8 DEF PayoutInv

OnlyCallOn(a, p) ==
    \A b \in P!Actors :
        (b # a /\ task[b].op \in {"approve", "reject", "sending", "recovering"}) => task[b].p # p

\* kind "none" stands for a step without an entry.
Booked(kind, p) ==
    \E entries :
        /\ ledger' = ledger \union entries /\ \A x \in entries : x.key = <<kind, p>>
        /\ kind # "none" => entries # {}

EndsAs(kind, status) ==
    /\ kind = "payout-rejected" => status = "rejected"
    /\ kind = "payout-sent" <=> status = "sent"
    /\ kind = "payout-batch-failed" <=> status = "failed"

LEMMA BookedOne ==
    ASSUME NEW kind, NEW p, NEW type, NEW row, NEW sign,
           P!WriteEntries({P!PayoutEntry(kind, p, type, row, sign)})
    PROVE  Booked(kind, p)
<1>1. PICK entries : entries = {P!PayoutEntry(kind, p, type, row, sign)}
  OBVIOUS
<1>2. \A x \in entries : x.key = <<kind, p>>
  BY <1>1 DEF P!PayoutEntry, P!Entry
<1>3. ledger' = ledger \union entries
  BY <1>1 DEF P!WriteEntries
<1>4. entries # {}
  BY <1>1
<1>5. QED
  BY <1>2, <1>3, <1>4 DEF Booked

\* A step that moves one request, by the only call that is about it.
LEMMA RequestMoves ==
    ASSUME PayoutInv, NEW p, NEW row, payout' = [payout EXCEPT ![p] = row],
           "status" \in DOMAIN row,
           p \in Payouts =>
              /\ payout[p].status # "rejected"
              /\ payout[p].status \in {"sent", "failed"} => row.status = "failed"
              /\ payout[p].status \in Dispatched => row.status \in Dispatched,
           NEW a \in P!Actors, NEW t, task' = [task EXCEPT ![a] = t], processing' = processing,
           "op" \in DOMAIN t,
           t.op \notin {"approve", "reject", "sending"},
           t.op = "recovering" => t.p = p /\ p \in Payouts /\ row.status \in Dispatched,
           t.op \in BatchOps => InBatch(a) /\ t.todo = task[a].todo,
           OnlyCallOn(a, p),
           NEW kind, Booked(kind, p), EndsAs(kind, row.status)
    PROVE  PayoutInv'
<1>1. task'[a] = t /\ DOMAIN task' = P!Actors /\ DOMAIN payout' = Payouts
  BY DEF PayoutInv
<1>2. ASSUME NEW b \in P!Actors, b # a PROVE task'[b] = task[b]
  BY <1>2 DEF PayoutInv
<1>3. ASSUME NEW q \in Payouts, q # p PROVE payout'[q] = payout[q]
  BY <1>3 DEF PayoutInv
<1>4. p \in Payouts => payout'[p] = row
  BY DEF PayoutInv
<1>5. TaskOK(a)'
  <2>1. ASSUME NEW q \in Payouts, payout[q].status \in Dispatched
        PROVE  payout'[q].status \in Dispatched
    BY <1>3, <1>4, <2>1
  <2>2. t.op \in BatchOps => \A q \in t.todo : q \in Payouts /\ payout[q].status \in Dispatched
    BY DEF PayoutInv, TaskOK, InBatch, BatchOps
  <2>3. InBatch(a)' => processing'
    BY <1>1 DEF PayoutInv, TaskOK, InBatch, BatchOps
  <2>4. QED
    BY <1>1, <1>4, <2>1, <2>2, <2>3 DEF TaskOK
<1>6. ASSUME NEW b \in P!Actors, b # a PROVE TaskOK(b)'
  <2>1. ASSUME NEW q \in Payouts, payout[q].status \in Dispatched
        PROVE  payout'[q].status \in Dispatched
    BY <1>3, <1>4, <2>1
  <2>2. TaskOK(b) /\ task'[b] = task[b]
    BY <1>2, <1>6 DEF PayoutInv
  <2>3. task[b].op \in {"approve", "reject", "sending", "recovering"} => task[b].p # p
    BY <1>6 DEF OnlyCallOn
  <2>4. QED
    BY <1>3, <2>1, <2>2, <2>3 DEF TaskOK, InBatch
<1>7. \A b \in P!Actors : InBatch(b)' => InBatch(b)
  BY <1>1, <1>2 DEF InBatch, BatchOps
<1>8. \A b, c \in P!Actors : InBatch(b)' /\ InBatch(c)' => b = c
  BY <1>7 DEF PayoutInv
<1>9. ASSUME NEW q \in Payouts, q # p PROVE EntriesSay(q)'
  <2>1. PICK entries : ledger' = ledger \union entries /\ \A x \in entries : x.key = <<kind, p>>
    BY DEF Booked
  <2>2. \A k : Written(k, q)' <=> Written(k, q)
    BY <1>9, <2>1 DEF Written
  <2>3. EntriesSay(q) /\ payout'[q] = payout[q]
    BY <1>3, <1>9 DEF PayoutInv
  <2>4. QED
    BY <2>2, <2>3 DEF EntriesSay
<1>10. ASSUME p \in Payouts PROVE EntriesSay(p)'
  <2>1. \A k \in {"payout-rejected", "payout-sent", "payout-batch-failed"} :
            Written(k, p)' <=> Written(k, p) \/ k = kind
    <3>1. PICK entries :
             /\ ledger' = ledger \union entries /\ \A x \in entries : x.key = <<kind, p>>
             /\ kind # "none" => entries # {}
      BY DEF Booked
    <3>2. ASSUME NEW k, Written(k, p)' PROVE Written(k, p) \/ k = kind
      BY <3>1, <3>2 DEF Written
    <3>3. ASSUME NEW k, Written(k, p) \/ (k = kind /\ k # "none") PROVE Written(k, p)'
      BY <3>1, <3>3 DEF Written
    <3>4. QED
      BY <3>2, <3>3
  <2>2. EntriesSay(p)
    BY <1>10 DEF PayoutInv
  <2>3. QED
    BY <1>4, <1>10, <2>1, <2>2 DEF EntriesSay, EndsAs
<1>11. \A q \in Payouts : "status" \in DOMAIN payout'[q]
  BY <1>3, <1>4 DEF PayoutInv
<1>12. QED
  BY <1>1, <1>5, <1>6, <1>8, <1>9, <1>10, <1>11 DEF PayoutInv

LEMMA PayoutInvRequest ==
    ASSUME PayoutInv, NEW a \in Requesters,
           \/ \E p \in Payouts, u \in Users, n \in PayoutAmounts : P!BeginRequest(a, p, u, n)
           \/ P!CommitRequest(a)
    PROVE  PayoutInv'
<1>1. a \in P!Actors
  BY DEF P!Actors
<1>2. ASSUME NEW p \in Payouts, NEW u \in Users, NEW n \in PayoutAmounts,
             P!BeginRequest(a, p, u, n)
      PROVE  PayoutInv'
  <2>1. PICK t : t = [op |-> "request", p |-> p, user |-> u, amount |-> n]
    OBVIOUS
  <2>2. /\ task' = [task EXCEPT ![a] = t] /\ payout' = payout /\ processing' = processing
        /\ GrowsBy({})
    BY <1>2, <2>1 DEF P!BeginRequest, GrowsBy
  <2>3. "op" \in DOMAIN t /\ t.op = "request"
    BY <2>1
  <2>4. QED
    BY <1>1, <2>2, <2>3, TaskChanges DEF BatchOps
<1>3. CASE P!CommitRequest(a)
  <2>1. PICK p : p = task[a].p
    OBVIOUS
  <2>2. PICK row : row = [status |-> "requested", user |-> task[a].user, amount |-> task[a].amount]
    OBVIOUS
  <2>3. /\ payout[p] = P!Absent /\ payout' = [payout EXCEPT ![p] = row]
        /\ P!WriteEntries({P!PayoutEntry("payout-requested", p, "payout_requested", row, -1)})
        /\ task' = [task EXCEPT ![a] = P!NoTask] /\ processing' = processing
    BY <1>3, <2>1, <2>2 DEF P!CommitRequest, P!Done
  <2>4. payout[p].status = "absent"
    BY <2>3 DEF P!Absent
  <2>5. OnlyCallOn(a, p)
    BY <2>4 DEF PayoutInv, TaskOK, OnlyCallOn, Dispatched
  <2>6. Booked("payout-requested", p)
    BY <2>3, BookedOne
  <2>7. "status" \in DOMAIN row /\ EndsAs("payout-requested", row.status)
    BY <2>2 DEF EndsAs
  <2>8. "op" \in DOMAIN P!NoTask /\ P!NoTask.op = "none"
    BY DEF P!NoTask
  <2>9. QED
    BY <1>1, <2>3, <2>4, <2>5, <2>6, <2>7, <2>8, RequestMoves DEF Dispatched, BatchOps
<1>4. QED
  BY <1>2, <1>3

LEMMA PayoutInvReview ==
    ASSUME OneReviewer, PayoutInv, NEW a \in Reviewers,
           \/ \E p \in Payouts : P!BeginApprove(a, p) \/ P!BeginReject(a, p)
           \/ P!CommitApprove(a) \/ P!CommitReject(a)
    PROVE  PayoutInv'
<1>1. a \in P!Actors
  BY DEF P!Actors
<1>2. ASSUME NEW p \in Payouts, P!BeginApprove(a, p) \/ P!BeginReject(a, p)
      PROVE  PayoutInv'
  <2>1. PICK op \in {"approve", "reject"} : P!Review(a, p, op)
    BY <1>2 DEF P!BeginApprove, P!BeginReject
  <2>2. PICK t : t = [op |-> op, p |-> p, todo |-> {}]
    OBVIOUS
  <2>3. /\ task' = [task EXCEPT ![a] = t] /\ payout[p].status = "requested"
        /\ payout' = payout /\ processing' = processing /\ GrowsBy({})
    BY <1>2, <2>1, <2>2 DEF P!Review, P!BeginApprove, P!BeginReject, GrowsBy
  <2>4. "op" \in DOMAIN t /\ t.op \in {"approve", "reject"} /\ t.p = p
    BY <2>2
  <2>5. QED
    BY <1>1, <2>3, <2>4, TaskChanges DEF BatchOps
<1>3. CASE P!CommitApprove(a) \/ P!CommitReject(a)
  <2>1. PICK p : p = task[a].p
    OBVIOUS
  <2>2. p \in Payouts /\ payout[p].status = "requested"
    BY <1>1, <1>3, <2>1 DEF PayoutInv, TaskOK, P!CommitApprove, P!CommitReject
  <2>3. OnlyCallOn(a, p)
    BY <2>2 DEF PayoutInv, TaskOK, OneReviewer, OnlyCallOn, Dispatched
  <2>4. PICK status, kind :
            /\ payout' = [payout EXCEPT ![p].status = status]
            /\ Booked(kind, p) /\ EndsAs(kind, status)
    <3>1. CASE P!CommitApprove(a)
      <4>1. payout' = [payout EXCEPT ![p].status = "approved"]
        BY <2>1, <3>1 DEF P!CommitApprove, P!SetStatus
      <4>2. PICK entries : entries = {}
        OBVIOUS
      <4>3. ledger' = ledger \union entries /\ \A x \in entries : x.key = <<"none", p>>
        BY <3>1, <4>2 DEF P!CommitApprove
      <4>4. Booked("none", p)
        BY <4>3 DEF Booked
      <4>5. EndsAs("none", "approved")
        BY DEF EndsAs
      <4>6. QED
        BY <4>1, <4>4, <4>5
    <3>2. CASE P!CommitReject(a)
      <4>1. /\ payout' = [payout EXCEPT ![p].status = "rejected"]
            /\ P!WriteEntries({P!PayoutEntry("payout-rejected", p, "payout_failed", payout[p], 1)})
        BY <2>1, <3>2 DEF P!CommitReject, P!SetStatus
      <4>2. Booked("payout-rejected", p)
        BY <4>1, BookedOne
      <4>3. EndsAs("payout-rejected", "rejected")
        BY DEF EndsAs
      <4>4. QED
        BY <4>1, <4>2, <4>3
    <3>3. QED
      BY <1>3, <3>1, <3>2
  <2>5. PICK row : row = [payout[p] EXCEPT !.status = status]
    OBVIOUS
  <2>6. payout' = [payout EXCEPT ![p] = row]
    BY <2>2, <2>4, <2>5 DEF PayoutInv
  <2>7. "status" \in DOMAIN row /\ EndsAs(kind, row.status)
    BY <2>2, <2>4, <2>5 DEF PayoutInv
  <2>8. task' = [task EXCEPT ![a] = P!NoTask] /\ processing' = processing
    BY <1>3 DEF P!CommitApprove, P!CommitReject, P!Done
  <2>9. "op" \in DOMAIN P!NoTask /\ P!NoTask.op = "none"
    BY DEF P!NoTask
  <2>10. QED
    BY <1>1, <2>2, <2>3, <2>4, <2>6, <2>7, <2>8, <2>9, RequestMoves DEF Dispatched, BatchOps
<1>4. QED
  BY <1>2, <1>3

LEMMA PayoutInvBatch ==
    ASSUME PayoutInv, NEW b \in Runners,
           \/ P!ListApproved(b) \/ P!OpenBatch(b) \/ P!SendFails(b) \/ P!RecoveryFails(b)
           \/ \E p \in Payouts : P!TakePayout(b, p) \/ P!SkipPayout(b, p) \/ P!ReadFails(b, p)
    PROVE  PayoutInv'
<1>1. b \in P!Actors
  BY DEF P!Actors
<1>2. payout' = payout /\ GrowsBy({})
  BY DEF P!ListApproved, P!OpenBatch, P!SendFails, P!RecoveryFails, P!TakePayout,
         P!SkipPayout, P!ReadFails, GrowsBy
<1>3. task[b].op \in BatchOps =>
          \A p \in task[b].todo : p \in Payouts /\ payout[p].status \in Dispatched
  BY <1>1 DEF PayoutInv, TaskOK
<1>4. CASE P!ListApproved(b)
  <2>1. PICK t : t = [op |-> "listed", todo |-> P!Approved]
    OBVIOUS
  <2>2. "op" \in DOMAIN t /\ t.op = "listed"
    BY <2>1
  <2>3. \A p \in t.todo : p \in Payouts /\ payout[p].status \in Dispatched
    BY <2>1 DEF P!Approved, Dispatched
  <2>4. task' = [task EXCEPT ![b] = t] /\ processing' = processing
    BY <1>4, <2>1 DEF P!ListApproved, P!Proceed
  <2>5. QED
    BY <1>1, <1>2, <2>2, <2>3, <2>4, TaskChanges
<1>5. CASE P!OpenBatch(b)
  <2>1. PICK t : t = [op |-> "open", todo |-> task[b].todo]
    OBVIOUS
  <2>2. "op" \in DOMAIN t /\ t.op = "open"
    BY <2>1
  <2>3. \A p \in t.todo : p \in Payouts /\ payout[p].status \in Dispatched
    BY <1>3, <1>5, <2>1 DEF P!OpenBatch, BatchOps
  <2>4. task' = [task EXCEPT ![b] = t] /\ ~processing /\ processing'
    BY <1>5, <2>1 DEF P!OpenBatch, P!Proceed
  <2>5. QED
    BY <1>1, <1>2, <2>2, <2>3, <2>4, TaskChanges
<1>6. CASE P!RecoveryFails(b) \/ \E p \in Payouts : P!SkipPayout(b, p)
  <2>1. PICK todo : P!Proceed(b, "open", todo) /\ todo \subseteq task[b].todo
    BY <1>6 DEF P!RecoveryFails, P!SkipPayout
  <2>2. PICK t : t = [op |-> "open", todo |-> todo]
    OBVIOUS
  <2>3. "op" \in DOMAIN t /\ t.op = "open"
    BY <2>2
  <2>4. \A p \in t.todo : p \in Payouts /\ payout[p].status \in Dispatched
    BY <1>3, <1>6, <2>1, <2>2 DEF P!RecoveryFails, P!SkipPayout, BatchOps
  <2>5. task' = [task EXCEPT ![b] = t] /\ processing' = processing
    BY <1>6, <2>1, <2>2 DEF P!Proceed, P!RecoveryFails, P!SkipPayout
  <2>6. InBatch(b)
    BY <1>6 DEF InBatch, P!RecoveryFails, P!SkipPayout
  <2>7. QED
    BY <1>1, <1>2, <2>3, <2>4, <2>5, <2>6, TaskChanges
<1>7. CASE P!SendFails(b)
  <2>1. PICK t : t = [op |-> "recovering", p |-> task[b].p, todo |-> task[b].todo]
    OBVIOUS
  <2>2. "op" \in DOMAIN t /\ t.op = "recovering" /\ t.p = task[b].p /\ t.todo = task[b].todo
    BY <2>1
  <2>3. task' = [task EXCEPT ![b] = t] /\ processing' = processing /\ task[b].op = "sending"
    BY <1>7, <2>1 DEF P!SendFails, P!Step
  <2>4. \A p \in t.todo : p \in Payouts /\ payout[p].status \in Dispatched
    BY <1>3, <2>2, <2>3 DEF BatchOps
  <2>5. InBatch(b) /\ t.p \in Payouts /\ payout[t.p].status \in Dispatched
    BY <1>1, <2>2, <2>3 DEF InBatch, PayoutInv, TaskOK
  <2>6. QED
    BY <1>1, <1>2, <2>2, <2>3, <2>4, <2>5, TaskChanges
<1>8. ASSUME NEW p \in Payouts, P!TakePayout(b, p) \/ P!ReadFails(b, p) PROVE PayoutInv'
  <2>1. PICK op \in {"sending", "recovering"} :
            /\ P!Step(b, op, p, task[b].todo \ {p})
            /\ op = "sending" => payout[p].status = "approved"
    BY <1>8 DEF P!TakePayout, P!ReadFails, P!Payable
  <2>2. PICK t : t = [op |-> op, p |-> p, todo |-> task[b].todo \ {p}]
    OBVIOUS
  <2>3. "op" \in DOMAIN t /\ t.op = op /\ t.p = p /\ t.todo \subseteq task[b].todo
    BY <2>2
  <2>4. /\ task' = [task EXCEPT ![b] = t] /\ processing' = processing
        /\ task[b].op = "open" /\ p \in task[b].todo
    BY <1>8, <2>1, <2>2 DEF P!TakePayout, P!ReadFails, P!Step
  <2>5. InBatch(b) /\ payout[p].status \in Dispatched
    BY <1>3, <2>4 DEF InBatch, BatchOps
  <2>6. \A q \in t.todo : q \in Payouts /\ payout[q].status \in Dispatched
    BY <1>3, <2>3, <2>4 DEF BatchOps
  <2>7. QED
    BY <1>1, <1>2, <1>8, <2>1, <2>3, <2>4, <2>5, <2>6, TaskChanges
<1>9. QED
  BY <1>4, <1>5, <1>6, <1>7, <1>8

LEMMA PayoutInvPay ==
    ASSUME PayoutInv, NEW b \in Runners,
           P!SendPayout(b) \/ P!RecoverPayout(b)
    PROVE  PayoutInv'
<1>1. b \in P!Actors
  BY DEF P!Actors
<1>2. PICK p : p = task[b].p
  OBVIOUS
<1>3. /\ task[b].op \in {"sending", "recovering"}
      /\ p \in Payouts /\ payout[p].status \in Dispatched
      /\ task[b].op = "sending" => payout[p].status = "approved"
  BY <1>1, <1>2 DEF PayoutInv, TaskOK, P!SendPayout, P!RecoverPayout
<1>4. InBatch(b)
  BY <1>3 DEF InBatch
<1>5. OnlyCallOn(b, p)
  BY <1>1, <1>3, <1>4 DEF PayoutInv, TaskOK, InBatch, OnlyCallOn, Dispatched
<1>6. PICK status, kind :
          /\ payout' = [payout EXCEPT ![p].status = status]
          /\ Booked(kind, p) /\ EndsAs(kind, status) /\ status \in {"sent", "failed"}
          /\ payout[p].status # "approved" => status = "failed"
  <2>1. CASE P!SendPayout(b)
    <3>1. /\ payout' = [payout EXCEPT ![p].status = "sent"]
          /\ P!WriteEntries({P!PayoutEntry("payout-sent", p, "payout_sent", payout[p], -1)})
          /\ task[b].op = "sending"
      BY <1>2, <2>1 DEF P!SendPayout, P!SetStatus
    <3>2. Booked("payout-sent", p)
      BY <3>1, BookedOne
    <3>3. EndsAs("payout-sent", "sent")
      BY DEF EndsAs
    <3>4. QED
      BY <1>3, <3>1, <3>2, <3>3
  <2>2. CASE P!RecoverPayout(b)
    <3>1. /\ payout' = [payout EXCEPT ![p].status = "failed"]
          /\ P!WriteEntries({P!PayoutEntry("payout-batch-failed", p, "payout_failed", payout[p], 1)})
      BY <1>2, <2>2 DEF P!RecoverPayout, P!SetStatus
    <3>2. Booked("payout-batch-failed", p)
      BY <3>1, BookedOne
    <3>3. EndsAs("payout-batch-failed", "failed")
      BY DEF EndsAs
    <3>4. QED
      BY <3>1, <3>2, <3>3
  <2>3. QED
    BY <2>1, <2>2
<1>7. PICK row : row = [payout[p] EXCEPT !.status = status]
  OBVIOUS
<1>8. payout' = [payout EXCEPT ![p] = row]
  BY <1>3, <1>6, <1>7 DEF PayoutInv
<1>9. "status" \in DOMAIN row /\ EndsAs(kind, row.status) /\ row.status = status
  BY <1>3, <1>6, <1>7 DEF PayoutInv
<1>10. PICK t :
          /\ task' = [task EXCEPT ![b] = t]
          /\ "op" \in DOMAIN t /\ t.todo = task[b].todo
          /\ t.op = "open" \/ (t.op = "recovering" /\ t.p = p)
  <2>1. PICK t1, t2 : /\ t1 = [op |-> "open", todo |-> task[b].todo]
                      /\ t2 = [op |-> "recovering", p |-> p, todo |-> task[b].todo]
    OBVIOUS
  <2>2. task' = [task EXCEPT ![b] = t1] \/ task' = [task EXCEPT ![b] = t2]
    BY <1>2, <2>1 DEF P!SendPayout, P!RecoverPayout, P!Proceed, P!Step
  <2>3. /\ "op" \in DOMAIN t1 /\ t1.todo = task[b].todo /\ t1.op = "open"
        /\ "op" \in DOMAIN t2 /\ t2.todo = task[b].todo /\ t2.op = "recovering" /\ t2.p = p
    BY <2>1
  <2>4. QED
    BY <2>2, <2>3
<1>11. processing' = processing
  BY DEF P!SendPayout, P!RecoverPayout
<1>12. payout[p].status # "rejected" /\ row.status \in Dispatched
  BY <1>3, <1>6, <1>9 DEF Dispatched
<1>13. payout[p].status \in {"sent", "failed"} => row.status = "failed"
  BY <1>6, <1>9
<1>14. t.op \notin {"approve", "reject", "sending"}
  BY <1>10
<1>15. QED
  BY <1>1, <1>3, <1>4, <1>5, <1>6, <1>8, <1>9, <1>10, <1>11, <1>12, <1>13, <1>14, RequestMoves

LEMMA PayoutInvClose ==
    ASSUME PayoutInv, NEW b \in Runners, P!CloseBatch(b)
    PROVE  PayoutInv'
<1>1. /\ b \in P!Actors /\ InBatch(b)
      /\ payout' = payout /\ ledger' = ledger /\ task' = [task EXCEPT ![b] = P!NoTask]
  BY DEF P!Actors, P!CloseBatch, P!Done, InBatch
<1>2. ASSUME NEW a \in P!Actors, a # b PROVE task'[a] = task[a] /\ ~InBatch(a)
  BY <1>1, <1>2 DEF PayoutInv
<1>3. task'[b] = P!NoTask /\ DOMAIN task' = P!Actors
  BY <1>1 DEF PayoutInv
<1>4. \A a \in P!Actors : ~InBatch(a)'
  BY <1>2, <1>3 DEF InBatch, P!NoTask
<1>5. ASSUME NEW a \in P!Actors PROVE TaskOK(a)'
  <2>1. CASE a = b
    BY <1>3, <1>4, <2>1 DEF TaskOK, P!NoTask, BatchOps
  <2>2. CASE a # b
    BY <1>1, <1>2, <1>4, <2>2 DEF TaskOK, PayoutInv
  <2>3. QED
    BY <2>1, <2>2
<1>6. \A p \in Payouts : EntriesSay(p)'
  BY <1>1 DEF PayoutInv, EntriesSay, Written
<1>7. QED
  BY <1>1, <1>3, <1>4, <1>5, <1>6 DEF PayoutInv

LEMMA PayoutInvStep == OneReviewer /\ PayoutInv /\ [Next]_vars => PayoutInv'
<1> SUFFICES ASSUME OneReviewer, PayoutInv, [Next]_vars PROVE PayoutInv'
  OBVIOUS
<1>1. ASSUME payout' = payout, task' = task, processing' = processing,
             NEW kinds, GrowsBy(kinds), kinds \intersect PayoutKinds = {}
      PROVE  PayoutInv'
  <2>1. \A p \in Payouts : EntriesSay(p)'
    <3> SUFFICES ASSUME NEW p \in Payouts PROVE EntriesSay(p)'
      OBVIOUS
    <3>1. /\ Written("payout-rejected", p)' <=> Written("payout-rejected", p)
          /\ Written("payout-sent", p)' <=> Written("payout-sent", p)
          /\ Written("payout-batch-failed", p)' <=> Written("payout-batch-failed", p)
      BY <1>1, WrittenKept DEF PayoutKinds, EntryKinds, EventKinds
    <3>2. QED
      BY <1>1, <3>1 DEF PayoutInv, EntriesSay
  <2>2. QED
    BY <1>1, <2>1 DEF PayoutInv, TaskOK, InBatch
<1>2. ASSUME payout' = payout, task' = task, processing' = processing, ledger' = ledger
      PROVE  PayoutInv'
  <2>1. GrowsBy({})
    BY <1>2 DEF GrowsBy
  <2>2. QED
    BY <1>1, <1>2, <2>1
<1>3. CASE UNCHANGED vars
  BY <1>2, <1>3 DEF vars, payoutVars
<1>4. CASE C!CommissionNext /\ UNCHANGED payoutVars
  <2>1. EventKinds \intersect PayoutKinds = {}
    BY DEF PayoutKinds
  <2>2. GrowsBy(EventKinds)
    BY <1>4, CommissionWrites
  <2>3. QED
    BY <1>1, <1>4, <2>1, <2>2 DEF payoutVars
<1>5. CASE P!PayoutNext
  <2>1. CASE \E u \in Users : P!PlaceHold(u) \/ P!ReleaseHold(u)
    BY <1>2, <2>1 DEF P!PlaceHold, P!ReleaseHold
  <2>2. ASSUME NEW a \in P!Actors, P!GiveUp(a) PROVE PayoutInv'
    <3>1. /\ payout' = payout /\ GrowsBy({}) /\ processing' = processing
          /\ task' = [task EXCEPT ![a] = P!NoTask]
      BY <2>2 DEF P!GiveUp, P!Done, GrowsBy
    <3>2. "op" \in DOMAIN P!NoTask /\ P!NoTask.op = "none"
      BY DEF P!NoTask
    <3>3. QED
      BY <2>2, <3>1, <3>2, TaskChanges DEF BatchOps
  <2>3. QED
    BY <1>5, <2>1, <2>2, PayoutInvRequest, PayoutInvReview, PayoutInvBatch, PayoutInvPay,
       PayoutInvClose
       DEF P!PayoutNext
<1>6. QED
  BY <1>3, <1>4, <1>5 DEF Next

\* Only the batch that has read a request and found it approved sends it.
LEMMA SentOnes ==
    ASSUME PayoutInv, [Next]_vars, NEW p \in Payouts,
           ~Written("payout-sent", p), Written("payout-sent", p)'
    PROVE  payout[p].status = "approved"
<1>1. ASSUME NEW kinds, GrowsBy(kinds), "payout-sent" \notin kinds PROVE FALSE
  BY <1>1, WrittenKept
<1>2. ASSUME NEW kind, NEW q, NEW type, NEW row, NEW sign,
             P!WriteEntries({P!PayoutEntry(kind, q, type, row, sign)})
      PROVE  kind = "payout-sent" /\ q = p
  <2>1. PICK entries : entries = {P!PayoutEntry(kind, q, type, row, sign)}
    OBVIOUS
  <2>2. ledger' = ledger \union entries /\ \A x \in entries : x.key = <<kind, q>>
    BY <1>2, <2>1 DEF P!WriteEntries, P!PayoutEntry, P!Entry
  <2>3. QED
    BY <2>2 DEF Written
<1>3. ledger' # ledger
  BY DEF Written
<1>4. P!PayoutNext
  <2>1. CASE C!CommissionNext
    BY <1>1, <2>1, CommissionWrites DEF EventKinds
  <2>2. QED
    BY <1>3, <2>1 DEF Next, vars
<1>5. ASSUME NEW b \in Runners, P!SendPayout(b) PROVE payout[p].status = "approved"
  <2>1. task[b].p = p /\ task[b].op = "sending"
    BY <1>2, <1>5 DEF P!SendPayout
  <2>2. b \in P!Actors
    BY DEF P!Actors
  <2>3. QED
    BY <2>1, <2>2 DEF PayoutInv, TaskOK
<1>6. ASSUME NEW a \in Requesters, P!CommitRequest(a) PROVE FALSE
  BY <1>2, <1>6 DEF P!CommitRequest
<1>7. ASSUME NEW a \in Reviewers, P!CommitReject(a) PROVE FALSE
  BY <1>2, <1>7 DEF P!CommitReject
<1>8. ASSUME NEW b \in Runners, P!RecoverPayout(b) PROVE FALSE
  BY <1>2, <1>8 DEF P!RecoverPayout
<1>9. QED
  BY <1>3, <1>4, <1>5, <1>6, <1>7, <1>8
     DEF P!PayoutNext, P!BeginRequest, P!BeginApprove, P!BeginReject, P!CommitApprove,
         P!ListApproved, P!OpenBatch, P!SendFails, P!RecoveryFails, P!CloseBatch,
         P!TakePayout, P!SkipPayout, P!ReadFails, P!GiveUp, P!PlaceHold, P!ReleaseHold

\* However many batches list one request, and whatever fails in them, a request whose
\* amount was given back is not sent afterwards - when requests are reviewed by one
\* administrator (PayoutService.executeBatch, approvePayoutRequest,
\* rejectPayoutRequest).
THEOREM GivenBackIsFinal ==
    ASSUME OneReviewer
    PROVE  Spec => GivenBackStaysUnsent
<1>1. PayoutInv /\ [Next]_vars =>
          [\A p \in Payouts :
              GivenBack(p) /\ ~Written("payout-sent", p) => ~Written("payout-sent", p)']_vars
  <2> SUFFICES ASSUME PayoutInv, [Next]_vars, NEW p \in Payouts, GivenBack(p),
                      ~Written("payout-sent", p), Written("payout-sent", p)'
               PROVE  FALSE
    OBVIOUS
  <2>1. payout[p].status = "approved"
    BY SentOnes
  <2>2. QED
    BY <2>1 DEF PayoutInv, EntriesSay, GivenBack
<1>2. PayoutInv /\ [Next]_vars => PayoutInv'
  BY PayoutInvStep
<1>3. QED
  BY <1>1, <1>2, PayoutInvInit, PTL DEF Spec, GivenBackStaysUnsent

(***************************************************************************)
(* Sums of ledger entries.                                                 *)
(***************************************************************************)
Counted(entries) ==
    /\ \A x \in entries : x.amount \in Int
    /\ \A sign \in {1, -1} : IsFiniteSet(Units(entries, sign))

LEMMA SumIsInt ==
    ASSUME NEW entries, Counted(entries)
    PROVE  SumOf(entries) \in Int
<1>1. IsFiniteSet(Units(entries, 1)) /\ IsFiniteSet(Units(entries, -1))
  BY DEF Counted
<1>2. Cardinality(Units(entries, 1)) \in Nat /\ Cardinality(Units(entries, -1)) \in Nat
  BY <1>1, FS_CardinalityType
<1>3. QED
  BY <1>2 DEF SumOf

LEMMA SumOfNone == Counted({}) /\ SumOf({}) = 0
<1>1. Units({}, 1) = {} /\ Units({}, -1) = {}
  BY DEF Units
<1>2. QED
  BY <1>1, FS_EmptySet DEF Counted, SumOf

LEMMA CountedPart ==
    ASSUME NEW entries, Counted(entries), NEW part, part \subseteq entries
    PROVE  Counted(part)
<1>1. ASSUME NEW sign \in {1, -1} PROVE IsFiniteSet(Units(part, sign))
  <2>1. Units(part, sign) \in SUBSET Units(entries, sign)
    BY DEF Units
  <2>2. IsFiniteSet(Units(entries, sign))
    BY DEF Counted
  <2>3. QED
    BY <2>1, <2>2, FS_Subset
<1>2. QED
  BY <1>1 DEF Counted

LEMMA UnitsOfOne ==
    ASSUME NEW x, NEW sign \in {1, -1}, x.amount \in Int
    PROVE  /\ IsFiniteSet(Units({x}, sign))
           /\ Cardinality(Units({x}, sign)) = IF sign * x.amount > 0 THEN sign * x.amount ELSE 0
<1>1. PICK n \in Int : n = sign * x.amount
  OBVIOUS
<1>2. Units({x}, sign) = {x} \X (1..n)
  BY <1>1 DEF Units
<1>3. IsFiniteSet(1..n) /\ Cardinality(1..n) = IF 1 > n THEN 0 ELSE n - 1 + 1
  BY FS_Interval
<1>4. IsFiniteSet({x}) /\ Cardinality({x}) = 1
  BY FS_Singleton
<1>5. /\ IsFiniteSet({x} \X (1..n))
      /\ Cardinality({x} \X (1..n)) = Cardinality({x}) * Cardinality(1..n)
  BY <1>3, <1>4, FS_Product
<1>6. Cardinality({x} \X (1..n)) = IF n > 0 THEN n ELSE 0
  BY <1>3, <1>4, <1>5
<1>7. QED
  BY <1>1, <1>2, <1>5, <1>6

LEMMA SumOfOne ==
    ASSUME NEW x, x.amount \in Int
    PROVE  Counted({x}) /\ SumOf({x}) = x.amount
<1>1. /\ IsFiniteSet(Units({x}, 1))
      /\ Cardinality(Units({x}, 1)) = IF 1 * x.amount > 0 THEN 1 * x.amount ELSE 0
  BY UnitsOfOne
<1>2. /\ IsFiniteSet(Units({x}, -1))
      /\ Cardinality(Units({x}, -1)) = IF (-1) * x.amount > 0 THEN (-1) * x.amount ELSE 0
  BY UnitsOfOne
<1>3. Counted({x})
  BY <1>1, <1>2 DEF Counted
<1>4. SumOf({x}) = x.amount
  BY <1>1, <1>2 DEF SumOf
<1>5. QED
  BY <1>3, <1>4

LEMMA UnitsOfUnion ==
    ASSUME NEW S, NEW T, Counted(S), Counted(T), S \intersect T = {}, NEW sign \in {1, -1}
    PROVE  /\ IsFiniteSet(Units(S \union T, sign))
           /\ Cardinality(Units(S \union T, sign)) =
                 Cardinality(Units(S, sign)) + Cardinality(Units(T, sign))
<1>1. PICK A, B : A = Units(S, sign) /\ B = Units(T, sign)
  OBVIOUS
<1>2. IsFiniteSet(A) /\ IsFiniteSet(B)
  BY <1>1 DEF Counted
<1>3. Units(S \union T, sign) = A \union B
  BY <1>1 DEF Units
<1>4. A \intersect B = {}
  BY <1>1 DEF Units
<1>5. IsFiniteSet(A \union B)
      /\ Cardinality(A \union B) = Cardinality(A) + Cardinality(B) - Cardinality(A \intersect B)
  BY <1>2, FS_Union
<1>6. Cardinality(A \intersect B) = 0
  BY <1>4, FS_EmptySet
<1>7. Cardinality(A) \in Nat /\ Cardinality(B) \in Nat
  BY <1>2, FS_CardinalityType
<1>8. Cardinality(A \union B) = Cardinality(A) + Cardinality(B)
  BY <1>5, <1>6, <1>7
<1>9. QED
  BY <1>1, <1>3, <1>5, <1>8

LEMMA SumOfUnion ==
    ASSUME NEW S, NEW T, Counted(S), Counted(T), S \intersect T = {}
    PROVE  Counted(S \union T) /\ SumOf(S \union T) = SumOf(S) + SumOf(T)
<1>1. /\ IsFiniteSet(Units(S \union T, 1))
      /\ Cardinality(Units(S \union T, 1)) = Cardinality(Units(S, 1)) + Cardinality(Units(T, 1))
  BY UnitsOfUnion
<1>2. /\ IsFiniteSet(Units(S \union T, -1))
      /\ Cardinality(Units(S \union T, -1)) = Cardinality(Units(S, -1)) + Cardinality(Units(T, -1))
  BY UnitsOfUnion
<1>3. Counted(S \union T)
  BY <1>1, <1>2 DEF Counted
<1>4. /\ IsFiniteSet(Units(S, 1)) /\ IsFiniteSet(Units(S, -1))
      /\ IsFiniteSet(Units(T, 1)) /\ IsFiniteSet(Units(T, -1))
  BY DEF Counted
<1>5. /\ Cardinality(Units(S, 1)) \in Nat /\ Cardinality(Units(S, -1)) \in Nat
      /\ Cardinality(Units(T, 1)) \in Nat /\ Cardinality(Units(T, -1)) \in Nat
  BY <1>4, FS_CardinalityType
<1>6. QED
  BY <1>1, <1>2, <1>3, <1>5 DEF SumOf

\* A new entry adds its amount.
LEMMA SumGrows ==
    ASSUME NEW S, Counted(S), NEW x, x \notin S, x.amount \in Int
    PROVE  Counted(S \union {x}) /\ SumOf(S \union {x}) = SumOf(S) + x.amount
<1>1. S \intersect {x} = {}
  OBVIOUS
<1>2. QED
  BY <1>1, SumOfOne, SumOfUnion

(***************************************************************************)
(* A commission is booked once.  Inductive: an event exists exactly when   *)
(* its pending entry does, a run that releases it or claws it back is      *)
(* about an event that exists, and a release adds nothing in all.          *)
(***************************************************************************)
Times(b, n) == IF b THEN n ELSE 0

EventBooked(e) ==
    /\ Counted(BookedFor(e))
    /\ SumOf(BookedFor(e)) =
          Times(Written("commission-pending", e), C!Earned(e))
          - Times(Written("clawback", e), C!Earned(e))
    /\ Written("commission-pending", e) <=> event[e].status # "absent"
    /\ Written("clawback", e) => event[e].status # "absent"

Exists(e) == e \in C!Events /\ event[e].status # "absent"

ClawbackTypes == {"clawback", "commission_reversed"}

Known(t) ==
    /\ t.op \in {"release", "clawback"} => Exists(t.e)
    /\ t.op = "clawback" => t.type \in ClawbackTypes

BookedInv ==
    /\ \A e \in C!Events : EventBooked(e)
    /\ \A w \in C!Workers : Known(work[w])

LEMMA EarnedIsInt == \A e \in C!Events : C!Earned(e) \in Int
  BY EarningsAssumption DEF C!Events, C!Earned

LEMMA BookedInit == Init => BookedInv
<1> SUFFICES ASSUME Init PROVE BookedInv
  OBVIOUS
<1>1. /\ ledger = {} /\ event = [e \in C!Events |-> C!NoEvent]
      /\ work = [w \in C!Workers |-> C!NoWork]
  BY DEF Init, C!CommissionInit
<1>2. \A w \in C!Workers : Known(work[w])
  BY <1>1 DEF C!NoWork, Known
<1>3. ASSUME NEW e \in C!Events PROVE EventBooked(e)
  <2>1. BookedFor(e) = {}
    BY <1>1 DEF BookedFor
  <2>2. ~Written("commission-pending", e) /\ ~Written("clawback", e)
    BY <1>1 DEF Written
  <2>3. event[e].status = "absent"
    BY <1>1 DEF C!NoEvent
  <2>4. QED
    BY <2>1, <2>2, <2>3, SumOfNone DEF EventBooked, Times
<1>4. QED
  BY <1>2, <1>3 DEF BookedInv

\* An event no new entry is about.
LEMMA EventBookedKept ==
    ASSUME NEW e, EventBooked(e), ledger \subseteq ledger',
           \A x \in ledger' : x \notin ledger => \A k \in EventKinds : x.key # <<k, e>>,
           event'[e].status = "absent" <=> event[e].status = "absent"
    PROVE  EventBooked(e)'
<1>1. BookedFor(e)' = BookedFor(e)
  BY DEF BookedFor, Refers
<1>2. /\ Written("commission-pending", e)' <=> Written("commission-pending", e)
      /\ Written("clawback", e)' <=> Written("clawback", e)
  BY DEF Written, EventKinds
<1>3. Counted(BookedFor(e))' /\ SumOf(BookedFor(e))' = SumOf(BookedFor(e))
  BY <1>1 DEF EventBooked, Counted, SumOf, Units
<1>4. QED
  BY <1>2, <1>3 DEF EventBooked, Times

\* An event with one new entry.
LEMMA EventBookedGrows ==
    ASSUME NEW e, Counted(BookedFor(e)), NEW x, NEW k \in EventKinds,
           x.key = <<k, e>>, x.amount \in Int, ~Written(k, e),
           NEW rest, ledger' = (ledger \union {x}) \union rest,
           \A y \in rest : \A j \in EventKinds : y.key # <<j, e>>
    PROVE  /\ Counted(BookedFor(e))'
           /\ SumOf(BookedFor(e))' = SumOf(BookedFor(e)) + x.amount
           /\ Written(k, e)'
           /\ \A j \in EventKinds : j # k => (Written(j, e)' <=> Written(j, e))
<1>1. PICK S : S = BookedFor(e)
  OBVIOUS
<1>2. BookedFor(e)' = S \union {x}
  BY <1>1 DEF BookedFor, Refers
<1>3. x \notin S
  BY <1>1 DEF BookedFor, Written
<1>4. Counted(S \union {x}) /\ SumOf(S \union {x}) = SumOf(S) + x.amount
  BY <1>1, <1>3, SumGrows
<1>5. Counted(BookedFor(e))' /\ SumOf(BookedFor(e))' = SumOf(S) + x.amount
  BY <1>2, <1>4 DEF Counted, SumOf, Units
<1>6. Written(k, e)' /\ \A j \in EventKinds : j # k => (Written(j, e)' <=> Written(j, e))
  BY DEF Written
<1>7. QED
  BY <1>1, <1>5, <1>6

\* Nothing a run is about ceases to exist.
LEMMA RunsStayKnown ==
    ASSUME BookedInv, \A e \in C!Events : Exists(e) => Exists(e)',
           \A w \in C!Workers :
              work'[w] = work[w] \/ Known(work'[w])
    PROVE  \A w \in C!Workers : Known(work[w])'
<1> SUFFICES ASSUME NEW w \in C!Workers PROVE Known(work[w])'
  OBVIOUS
<1>1. PICK t : t = work'[w]
  OBVIOUS
<1>2. Known(t)
  BY <1>1 DEF BookedInv, Known
<1>3. Known(t)'
  BY <1>2 DEF Known, Exists
<1>4. QED
  BY <1>1, <1>3 DEF Known, Exists

\* A run goes on as it was, ends, or turns to an event that exists.
RunsGoOn == \A w \in C!Workers : work'[w] = work[w] \/ Known(work'[w])

LEMMA BookedKept ==
    ASSUME BookedInv, RunsGoOn, NEW kinds, GrowsBy(kinds), kinds \intersect EventKinds = {},
           \A e \in C!Events : event'[e].status = "absent" <=> event[e].status = "absent"
    PROVE  BookedInv'
<1>1. ASSUME NEW e \in C!Events PROVE EventBooked(e)'
  <2>1. EventBooked(e)
    BY DEF BookedInv
  <2>2. \A x \in ledger' : x \notin ledger => \A k \in EventKinds : x.key # <<k, e>>
    BY DEF GrowsBy
  <2>3. ledger \subseteq ledger'
    BY DEF GrowsBy
  <2>4. QED
    BY <2>1, <2>2, <2>3, EventBookedKept
<1>2. \A e \in C!Events : Exists(e) => Exists(e)'
  BY DEF Exists
<1>3. \A w \in C!Workers : Known(work[w])'
  BY <1>2, RunsStayKnown DEF RunsGoOn
<1>4. QED
  BY <1>1, <1>3 DEF BookedInv

LEMMA RunEnds ==
    ASSUME ReleaseInv, NEW w \in C!Workers, work' = [work EXCEPT ![w] = C!NoWork]
    PROVE  RunsGoOn
  BY DEF ReleaseInv, RunsGoOn, Known, C!NoWork

\* A new run, or the next step of one.
LEMMA RunTurns ==
    ASSUME ReleaseInv, NEW w \in C!Workers, NEW t, work' = [work EXCEPT ![w] = t],
           Known(t)
    PROVE  RunsGoOn
  BY DEF ReleaseInv, RunsGoOn

\* The next step of a run about the same event.
LEMMA SameEvent ==
    ASSUME ReleaseInv, BookedInv, NEW w \in C!Workers
    PROVE  /\ \A pc : Known([work[w] EXCEPT !.pc = pc])
           /\ \A pc, path : Known([work[w] EXCEPT !.pc = pc, !.path = path])
           /\ \A pc, type : type \in ClawbackTypes \union {work[w].type} =>
                 Known([work[w] EXCEPT !.pc = pc, !.type = type])
<1>1. PICK t : t = work[w]
  OBVIOUS
<1>2. "op" \in DOMAIN t /\ Known(t)
  BY <1>1 DEF ReleaseInv, WorkOK, BookedInv
<1>3. (\A pc : Known([t EXCEPT !.pc = pc]))
      /\ (\A pc, path : Known([t EXCEPT !.pc = pc, !.path = path]))
  BY <1>2 DEF Known
<1>4. ASSUME NEW pc, NEW type, type \in ClawbackTypes \union {t.type}
      PROVE  Known([t EXCEPT !.pc = pc, !.type = type])
  BY <1>2, <1>4 DEF Known
<1>5. QED
  BY <1>1, <1>3, <1>4

LEMMA BookedKeptByCalculators ==
    ASSUME ReleaseInv, BookedInv, NEW c \in Calculators,
           \/ \E o \in Orders : C!Claim(c, o)
           \/ C!SkipUnpaid(c) \/ C!VerifyPaid(c) \/ C!SkipUnearning(c) \/ C!ReadUpline(c)
           \/ C!CalculationFails(c) \/ C!CalculationAborts(c)
    PROVE  BookedInv'
<1>1. event' = event /\ ledger' = ledger /\ GrowsBy({})
  BY DEF C!Claim, C!SkipUnpaid, C!VerifyPaid, C!SkipUnearning, C!ReadUpline,
         C!CalculationFails, C!CalculationAborts, GrowsBy
<1>2. c \in C!Workers /\ DOMAIN work = C!Workers
  BY DEF C!Workers, ReleaseInv
<1>3. ASSUME NEW o \in Orders, C!Claim(c, o) PROVE RunsGoOn
  <2>1. PICK n : work' = [work EXCEPT ![c] = [op |-> "calc", pc |-> "claimed", o |-> o,
                                              errors |-> n, path |-> <<>>]]
    BY <1>3 DEF C!Claim
  <2>2. PICK t : t = [op |-> "calc", pc |-> "claimed", o |-> o, errors |-> n, path |-> <<>>]
    OBVIOUS
  <2>3. Known(t)
    BY <2>2 DEF Known
  <2>4. QED
    BY <1>2, <2>1, <2>2, <2>3, RunTurns
<1>4. ASSUME C!VerifyPaid(c) PROVE RunsGoOn
  <2>1. work' = [work EXCEPT ![c] = [work[c] EXCEPT !.pc = "paid"]]
    BY <1>2, <1>4 DEF C!VerifyPaid
  <2>2. PICK t : t = [work[c] EXCEPT !.pc = "paid"]
    OBVIOUS
  <2>3. Known(t)
    BY <1>2, <2>2, SameEvent
  <2>4. QED
    BY <1>2, <2>1, <2>2, <2>3, RunTurns
<1>5. ASSUME C!ReadUpline(c) PROVE RunsGoOn
  <2>1. PICK path : work' = [work EXCEPT ![c].pc = "planned", ![c].path = path]
    BY <1>5 DEF C!ReadUpline
  <2>2. work' = [work EXCEPT ![c] = [work[c] EXCEPT !.pc = "planned", !.path = path]]
    BY <1>2, <2>1
  <2>3. PICK t : t = [work[c] EXCEPT !.pc = "planned", !.path = path]
    OBVIOUS
  <2>4. Known(t)
    BY <1>2, <2>3, SameEvent
  <2>5. QED
    BY <1>2, <2>2, <2>3, <2>4, RunTurns
<1>6. ASSUME work' = [work EXCEPT ![c] = C!NoWork] PROVE RunsGoOn
  BY <1>2, <1>6, RunEnds
<1>7. RunsGoOn
  BY <1>3, <1>4, <1>5, <1>6
     DEF C!SkipUnpaid, C!SkipUnearning, C!CalculationFails, C!CalculationAborts,
         C!Publish, C!CountError, C!Finish
<1>8. QED
  BY <1>1, <1>7, BookedKept

LEMMA BookedKeptByCalculate ==
    ASSUME ReleaseInv, BookedInv, NEW c \in Calculators, C!Calculate(c)
    PROVE  BookedInv'
<1>1. PICK due : due = C!Due(c)
  OBVIOUS
<1>2. /\ \A e \in due : event[e].status = "absent"
      /\ event' = [e \in C!Events |->
                     IF e \in due THEN [status |-> "pending", age |-> "held"] ELSE event[e]]
      /\ C!WriteEntries({C!PendingEntry(e) : e \in due})
      /\ work' = [work EXCEPT ![c] = C!NoWork]
  BY <1>1 DEF C!Calculate, C!Publish, C!Finish
<1>3. PICK entries : entries = {C!PendingEntry(e) : e \in due}
  OBVIOUS
<1>4. ledger' = ledger \union entries
  BY <1>2, <1>3 DEF C!WriteEntries
<1>5. \A x \in entries : \E d \in due : x.key = <<"commission-pending", d>>
  BY <1>3 DEF C!PendingEntry, C!Entry
<1>6. ASSUME NEW e \in C!Events, e \notin due PROVE EventBooked(e)'
  <2>1. \A x \in ledger' : x \notin ledger => \A k \in EventKinds : x.key # <<k, e>>
    BY <1>4, <1>5, <1>6
  <2>2. event'[e] = event[e] /\ ledger \subseteq ledger'
    BY <1>2, <1>4, <1>6
  <2>3. QED
    BY <1>6, <2>1, <2>2, EventBookedKept DEF BookedInv
<1>7. ASSUME NEW e \in C!Events, e \in due PROVE EventBooked(e)'
  <2>1. /\ EventBooked(e) /\ ~Written("commission-pending", e) /\ ~Written("clawback", e)
    BY <1>2, <1>7 DEF BookedInv, EventBooked
  <2>2. PICK x : x = C!PendingEntry(e)
    OBVIOUS
  <2>3. x.key = <<"commission-pending", e>> /\ x.amount = C!Earned(e) /\ x \in entries
    BY <1>3, <1>7, <2>2 DEF C!PendingEntry, C!Entry
  <2>4. PICK rest : rest = {C!PendingEntry(d) : d \in due \ {e}}
    OBVIOUS
  <2>5. ledger' = (ledger \union {x}) \union rest
    BY <1>3, <1>4, <1>7, <2>2, <2>4
  <2>6. \A y \in rest : \A j \in EventKinds : y.key # <<j, e>>
    BY <2>4 DEF C!PendingEntry, C!Entry
  <2>7. "commission-pending" \in EventKinds /\ "clawback" \in EventKinds
    BY DEF EventKinds
  <2>8. x.amount \in Int
    BY <2>3, EarnedIsInt
  <2>9. /\ Counted(BookedFor(e))'
        /\ SumOf(BookedFor(e))' = SumOf(BookedFor(e)) + x.amount
        /\ Written("commission-pending", e)'
        /\ ~Written("clawback", e)'
    BY <2>1, <2>3, <2>5, <2>6, <2>7, <2>8, EventBookedGrows DEF EventBooked
  <2>10. event'[e].status = "pending"
    BY <1>2, <1>7
  <2>11. SumOf(BookedFor(e)) = 0
    BY <2>1 DEF EventBooked, Times
  <2>12. SumOf(BookedFor(e))' = C!Earned(e)
    BY <2>3, <2>8, <2>9, <2>11
  <2>13. QED
    BY <2>3, <2>8, <2>9, <2>10, <2>12 DEF EventBooked, Times, C!Earned
<1>8. RunsGoOn
  BY <1>2, RunEnds DEF C!Workers
<1>9. \A e \in C!Events : Exists(e) => Exists(e)'
  BY <1>2 DEF Exists
<1>10. \A w \in C!Workers : Known(work[w])'
  BY <1>8, <1>9, RunsStayKnown DEF RunsGoOn
<1>11. QED
  BY <1>6, <1>7, <1>10 DEF BookedInv

LEMMA BookedKeptByReleaser ==
    ASSUME ReleaseInv, BookedInv, NEW r \in Releasers,
           (\E e \in C!Events : C!BeginRelease(r, e)) \/ C!CommitRelease(r)
    PROVE  BookedInv'
<1>1. r \in C!Workers /\ DOMAIN work = C!Workers
  BY DEF C!Workers, ReleaseInv
<1>2. ASSUME NEW d \in C!Events, C!BeginRelease(r, d) PROVE BookedInv'
  <2>1. PICK t : t = [op |-> "release", pc |-> "read", e |-> d]
    OBVIOUS
  <2>2. /\ work' = [work EXCEPT ![r] = t] /\ event[d].status = "pending"
        /\ event' = event /\ GrowsBy({})
    BY <1>2, <2>1 DEF C!BeginRelease, GrowsBy
  <2>3. Known(t)
    BY <1>2, <2>1, <2>2 DEF Known, Exists, ClawbackTypes
  <2>4. QED
    BY <1>1, <2>2, <2>3, RunTurns, BookedKept
<1>3. CASE C!CommitRelease(r)
  <2>1. PICK d : d = work[r].e
    OBVIOUS
  <2>2. /\ work[r].op = "release"
        /\ C!CanWrite(C!ReleaseEntries(d)) /\ C!WriteEntries(C!ReleaseEntries(d))
        /\ event' = [event EXCEPT ![d].status = "available"]
        /\ work' = [work EXCEPT ![r] = C!NoWork]
    BY <1>3, <2>1 DEF C!CommitRelease, C!Finish
  <2>3. d \in C!Events /\ event[d].status # "absent"
    BY <1>1, <2>1, <2>2 DEF BookedInv, Known, Exists
  <2>4. PICK x, y : /\ x.key = <<"release-offset", d>> /\ x.amount = -C!Earned(d)
                    /\ y.key = <<"release-credit", d>> /\ y.amount = C!Earned(d)
                    /\ {x, y} = C!ReleaseEntries(d)
    BY DEF C!ReleaseEntries, C!Entry
  <2>5. ledger' = ledger \union {x, y}
    BY <2>2, <2>4 DEF C!WriteEntries
  <2>6. ~Written("release-offset", d) /\ ~Written("release-credit", d)
    BY <2>2, <2>4 DEF C!CanWrite, Written
  <2>7. ASSUME NEW e \in C!Events PROVE event'[e].status = "absent" <=> event[e].status = "absent"
    BY <2>2, <2>3 DEF ReleaseInv, EventRow
  <2>8. ASSUME NEW e \in C!Events, e # d PROVE EventBooked(e)'
    <3>1. \A z \in ledger' : z \notin ledger => \A k \in EventKinds : z.key # <<k, e>>
      BY <2>4, <2>5, <2>8
    <3>2. ledger \subseteq ledger'
      BY <2>5
    <3>3. QED
      BY <2>7, <3>1, <3>2, EventBookedKept DEF BookedInv
  <2>9. EventBooked(d)'
    <3>1. PICK S : S = BookedFor(d)
      OBVIOUS
    <3>2. BookedFor(d)' = (S \union {x}) \union {y}
      BY <2>4, <2>5, <3>1 DEF BookedFor, Refers, EventKinds
    <3>3. x \notin S /\ y \notin S \union {x}
      BY <2>4, <2>6, <3>1 DEF BookedFor, Written
    <3>4. EventBooked(d)
      BY <2>3 DEF BookedInv
    <3>5. Counted(S) /\ x.amount \in Int /\ y.amount \in Int
      BY <2>3, <2>4, <3>1, <3>4, EarnedIsInt DEF EventBooked
    <3>6. Counted(S \union {x}) /\ SumOf(S \union {x}) = SumOf(S) + x.amount
      BY <3>3, <3>5, SumGrows
    <3>7. /\ Counted((S \union {x}) \union {y})
          /\ SumOf((S \union {x}) \union {y}) = SumOf(S \union {x}) + y.amount
      BY <3>3, <3>5, <3>6, SumGrows
    <3>8. SumOf((S \union {x}) \union {y}) = SumOf(S)
      <4>1. SumOf(S) \in Int
        BY <3>5, SumIsInt
      <4>2. C!Earned(d) \in Int
        BY <2>3, EarnedIsInt
      <4>3. QED
        BY <2>4, <3>6, <3>7, <4>1, <4>2
    <3>9. Counted(BookedFor(d))' /\ SumOf(BookedFor(d))' = SumOf(BookedFor(d))
      BY <3>1, <3>2, <3>7, <3>8 DEF Counted, SumOf, Units
    <3>10. /\ Written("commission-pending", d)' <=> Written("commission-pending", d)
           /\ Written("clawback", d)' <=> Written("clawback", d)
      BY <2>4, <2>5 DEF Written
    <3>11. QED
      BY <2>3, <2>7, <3>4, <3>9, <3>10 DEF EventBooked, Times
  <2>10. \A e \in C!Events : Exists(e) => Exists(e)'
    BY <2>7 DEF Exists
  <2>11. \A w \in C!Workers : Known(work[w])'
    BY <1>1, <2>2, <2>10, RunEnds, RunsStayKnown DEF RunsGoOn
  <2>12. QED
    BY <2>8, <2>9, <2>11 DEF BookedInv
<1>4. QED
  BY <1>2, <1>3

LEMMA BookedKeptByClawer ==
    ASSUME ReleaseInv, BookedInv, NEW x \in Clawers,
           \/ \E e \in C!Events : C!ListForClawback(x, e)
           \/ C!BeginClawback(x) \/ C!CommitClawback(x)
    PROVE  BookedInv'
<1>1. x \in C!Workers /\ DOMAIN work = C!Workers
  BY DEF C!Workers, ReleaseInv
<1>2. ASSUME NEW d \in C!Events, C!ListForClawback(x, d) PROVE BookedInv'
  <2>1. PICK t : t = [op |-> "clawback", pc |-> "listed", e |-> d, type |-> "clawback"]
    OBVIOUS
  <2>2. /\ work' = [work EXCEPT ![x] = t] /\ event[d].status \in {"pending", "available"}
        /\ event' = event /\ GrowsBy({})
    BY <1>2, <2>1 DEF C!ListForClawback, GrowsBy
  <2>3. Known(t)
    BY <1>2, <2>1, <2>2 DEF Known, Exists, ClawbackTypes
  <2>4. QED
    BY <1>1, <2>2, <2>3, RunTurns, BookedKept
<1>3. CASE C!BeginClawback(x)
  <2>1. PICK type \in ClawbackTypes \union {work[x].type} :
            work' = [work EXCEPT ![x].pc = "read", ![x].type = type]
    BY <1>3 DEF C!BeginClawback, ClawbackTypes
  <2>2. work' = [work EXCEPT ![x] = [work[x] EXCEPT !.pc = "read", !.type = type]]
    BY <1>1, <2>1
  <2>3. event' = event /\ GrowsBy({})
    BY <1>3 DEF C!BeginClawback, GrowsBy
  <2>4. PICK t : t = [work[x] EXCEPT !.pc = "read", !.type = type]
    OBVIOUS
  <2>5. Known(t)
    BY <1>1, <2>4, SameEvent
  <2>6. RunsGoOn
    BY <1>1, <2>2, <2>4, <2>5, RunTurns
  <2>7. QED
    BY <2>3, <2>6, BookedKept
<1>4. CASE C!CommitClawback(x)
  <2>1. PICK d : d = work[x].e
    OBVIOUS
  <2>2. PICK y : y = C!ClawbackEntry(d, work[x].type)
    OBVIOUS
  <2>3. /\ work[x].op = "clawback" /\ C!CanWrite({y}) /\ ledger' = ledger \union {y}
        /\ event' = [event EXCEPT ![d].status = "clawed_back"]
        /\ work' = [work EXCEPT ![x] = C!NoWork]
    BY <1>4, <2>1, <2>2 DEF C!CommitClawback, C!Finish, C!WriteEntries
  <2>4. y.key = <<"clawback", d>> /\ y.amount = -C!Earned(d)
    BY <2>2 DEF C!ClawbackEntry, C!Entry
  <2>5. d \in C!Events /\ event[d].status # "absent"
    BY <1>1, <2>1, <2>3 DEF BookedInv, Known, Exists
  <2>6. ~Written("clawback", d)
    BY <2>3, <2>4 DEF C!CanWrite, Written
  <2>7. ASSUME NEW e \in C!Events PROVE event'[e].status = "absent" <=> event[e].status = "absent"
    BY <2>3, <2>5 DEF ReleaseInv, EventRow
  <2>8. ASSUME NEW e \in C!Events, e # d PROVE EventBooked(e)'
    <3>1. \A z \in ledger' : z \notin ledger => \A k \in EventKinds : z.key # <<k, e>>
      BY <2>3, <2>4, <2>8
    <3>2. ledger \subseteq ledger'
      BY <2>3
    <3>3. QED
      BY <2>7, <3>1, <3>2, EventBookedKept DEF BookedInv
  <2>9. EventBooked(d)'
    <3>1. EventBooked(d) /\ C!Earned(d) \in Int
      BY <2>5, EarnedIsInt DEF BookedInv
    <3>2. Written("commission-pending", d)
      BY <2>5, <3>1 DEF EventBooked
    <3>3. PICK rest : rest = {}
      OBVIOUS
    <3>4. ledger' = (ledger \union {y}) \union rest
      BY <2>3, <3>3
    <3>5. "commission-pending" \in EventKinds /\ "clawback" \in EventKinds
      BY DEF EventKinds
    <3>6. y.amount \in Int /\ Counted(BookedFor(d))
      BY <2>4, <3>1 DEF EventBooked
    <3>7. /\ Counted(BookedFor(d))'
          /\ SumOf(BookedFor(d))' = SumOf(BookedFor(d)) + y.amount
          /\ Written("clawback", d)'
          /\ Written("commission-pending", d)'
      BY <2>4, <2>6, <3>2, <3>3, <3>4, <3>5, <3>6, EventBookedGrows
    <3>8. SumOf(BookedFor(d)) = C!Earned(d)
      BY <2>6, <3>1, <3>2 DEF EventBooked, Times
    <3>9. SumOf(BookedFor(d))' = 0
      BY <2>4, <3>1, <3>7, <3>8
    <3>10. QED
      BY <2>5, <2>7, <3>1, <3>7, <3>9 DEF EventBooked, Times, C!Earned
  <2>10. \A e \in C!Events : Exists(e) => Exists(e)'
    BY <2>7 DEF Exists
  <2>11. \A w \in C!Workers : Known(work[w])'
    BY <1>1, <2>3, <2>10, RunEnds, RunsStayKnown DEF RunsGoOn
  <2>12. QED
    BY <2>8, <2>9, <2>11 DEF BookedInv
<1>5. QED
  BY <1>2, <1>3, <1>4

LEMMA BookedStep == ReleaseInv /\ BookedInv /\ [Next]_vars => BookedInv'
<1> SUFFICES ASSUME ReleaseInv, BookedInv, [Next]_vars PROVE BookedInv'
  OBVIOUS
<1>1. work' = work => RunsGoOn
  BY DEF RunsGoOn
<1>2. ASSUME event' = event, ledger' = ledger, work' = work PROVE BookedInv'
  <2>1. GrowsBy({})
    BY <1>2 DEF GrowsBy
  <2>2. QED
    BY <1>1, <1>2, <2>1, BookedKept
<1>3. CASE UNCHANGED vars
  BY <1>2, <1>3 DEF vars, commissionVars
<1>4. CASE P!PayoutNext /\ UNCHANGED commissionVars
  <2>1. GrowsBy(PayoutKinds) /\ event' = event /\ work' = work
    BY <1>4, PayoutWrites DEF commissionVars
  <2>2. PayoutKinds \intersect EventKinds = {}
    BY DEF PayoutKinds
  <2>3. QED
    BY <1>1, <2>1, <2>2, BookedKept
<1>5. CASE C!CommissionNext
  <2>1. ASSUME NEW o \in Orders, NEW path \in C!Paths, C!CorrectUpline(o, path)
        PROVE  BookedInv'
    BY <1>2, <2>1 DEF C!CorrectUpline
  <2>2. ASSUME NEW o \in Orders, C!OrderPaid(o) \/ C!OrderMoves(o) PROVE BookedInv'
    BY <1>2, <2>2 DEF C!OrderPaid, C!OrderMoves
  <2>3. CASE C!ChangePolicy \/ \E u \in Users : C!Requalify(u)
    BY <1>2, <2>3 DEF C!ChangePolicy, C!Requalify, C!commissionVars
  <2>4. ASSUME NEW w \in C!Workers, C!Stop(w) PROVE BookedInv'
    <3>1. event' = event /\ GrowsBy({}) /\ work' = [work EXCEPT ![w] = C!NoWork]
      BY <2>4 DEF C!Stop, C!Finish, GrowsBy
    <3>2. QED
      BY <3>1, RunEnds, BookedKept
  <2>5. ASSUME NEW c \in Calculators, NEW o \in Orders, C!Claim(c, o) PROVE BookedInv'
    BY <2>5, BookedKeptByCalculators
  <2>6. ASSUME NEW c \in Calculators,
               \/ C!SkipUnpaid(c) \/ C!VerifyPaid(c) \/ C!SkipUnearning(c) \/ C!ReadUpline(c)
               \/ C!CalculationFails(c) \/ C!CalculationAborts(c)
        PROVE  BookedInv'
    BY <2>6, BookedKeptByCalculators
  <2>7. ASSUME NEW d \in C!Events, C!TimePasses(d) PROVE BookedInv'
    <3>1. /\ event' = [event EXCEPT ![d].age = IF @ = "held" THEN "due" ELSE "closed"]
          /\ work' = work /\ GrowsBy({})
      BY <2>7 DEF C!TimePasses, GrowsBy
    <3>2. ASSUME NEW e \in C!Events
          PROVE  event'[e].status = "absent" <=> event[e].status = "absent"
      BY <3>1 DEF ReleaseInv, EventRow
    <3>3. QED
      BY <1>1, <3>1, <3>2, BookedKept
  <2>8. QED
    BY <1>5, <2>1, <2>2, <2>3, <2>4, <2>5, <2>6, <2>7, BookedKeptByCalculate,
       BookedKeptByReleaser, BookedKeptByClawer
       DEF C!CommissionNext
<1>6. QED
  BY <1>3, <1>4, <1>5 DEF Next

\* What the ledger books for a commission event, pending and available together, is
\* the commission once, and nothing any more after a clawback: whichever of release
\* and clawback comes first, however they and the outbox runs interleave or stop
\* half-way (CommissionCalculationService.processOutboxEvent,
\* CommissionReleaseJob.releaseEvent, ClawbackJob.clawbackForOrder).
THEOREM BookedOnce == Spec => []CommissionBookedOnce
<1>1. BookedInv => CommissionBookedOnce
  <2> SUFFICES ASSUME BookedInv, NEW e \in C!Events
               PROVE  SumOf(BookedFor(e)) =
                         IF event[e].status = "absent" \/ Written("clawback", e)
                         THEN 0 ELSE C!Earned(e)
    BY DEF CommissionBookedOnce
  <2>1. EventBooked(e) /\ C!Earned(e) \in Int
    BY EarnedIsInt DEF BookedInv
  <2>2. QED
    BY <2>1 DEF EventBooked, Times
<1>2. ReleaseInv /\ BookedInv /\ [Next]_vars => ReleaseInv' /\ BookedInv'
  BY ReleaseStep, BookedStep
<1>3. QED
  BY <1>1, <1>2, ReleaseInit, BookedInit, PTL DEF Spec

(***************************************************************************)
(* What a request books, and what a user is paid.  Inductive: what is      *)
(* reserved of a user's balance are the debits of the requests that were   *)
(* not given back, and no more was given back than was debited; a user has *)
(* one active request at most; a request that was, or is being, approved   *)
(* is covered by what the user earned and was not sent yet, because the    *)
(* check of the approval counts every debit.                               *)
(***************************************************************************)
Spendable(u) == {x \in ledger : x.user = u /\ x.type # "commission_pending"}

Credited(u) == Balance(u, {"commission_available"})
TakenBack(u) == Balance(u, ClawbackTypes)
SentTo(u) == Balance(u, {"payout_sent"})
Reserved(u) == Balance(u, {"payout_requested", "payout_failed"})

RequestRow == [status: {"requested", "approved", "rejected", "sent", "failed"},
               user: Users, amount: PayoutAmounts]

\* The one entry that debited a request.
DebitOf(p, d) ==
    /\ d \in ledger /\ d.key = <<"payout-requested", p>>
    /\ d.user = payout[p].user /\ d.amount = -payout[p].amount
    /\ \A x \in ledger : x.key = <<"payout-requested", p>> => x = d

RequestBooked(p) ==
    /\ payout[p] = P!Absent \/ payout[p] \in RequestRow
    /\ payout[p].status = "absent" => BookedOn(p) = {}
    /\ payout[p].status # "absent" => \E d : DebitOf(p, d)
    /\ Counted(BookedOn(p))
    /\ payout[p].status \in P!Active => SumOf(BookedOn(p)) = -payout[p].amount
    /\ payout[p].status = "rejected" => SumOf(BookedOn(p)) = 0
    /\ payout[p].status = "sent" => SumOf(BookedOn(p)) = -2 * payout[p].amount
    /\ payout[p].status = "failed" =>
          SumOf(BookedOn(p)) = IF Written("payout-sent", p) THEN -payout[p].amount ELSE 0

OpenDebits(u) ==
    {x \in ledger :
        x.user = u /\ \E p \in Payouts : x.key = <<"payout-requested", p>> /\ ~GivenBack(p)}

Cleared(p) ==
    \/ payout[p].status = "approved"
    \/ \E a \in P!Actors : task[a].op = "approve" /\ task[a].p = p

UserPaid(u) ==
    /\ Counted(Spendable(u))
    /\ TakenBack(u) <= 0
    /\ Credited(u) + SentTo(u) >= 0
    /\ Counted(OpenDebits(u)) /\ Reserved(u) = SumOf(OpenDebits(u))
    /\ \A p, q \in P!ActiveOf(u) : p = q
    /\ \A p \in P!ActiveOf(u) : Cleared(p) => Credited(u) + SentTo(u) >= payout[p].amount

Asked(t) == t.op = "request" => t.p \in Payouts /\ t.user \in Users /\ t.amount \in PayoutAmounts

MoneyInv ==
    /\ \A p \in Payouts : RequestBooked(p)
    /\ \A u \in Users : UserPaid(u)
    /\ \A a \in P!Actors : Asked(task[a])

\* The types of entries a user's withdrawable balance is made of.
SpendableTypes == EntryTypes \ {"commission_pending"}

LEMMA BalanceIsInt ==
    ASSUME NEW u, Counted(Spendable(u)), NEW types, types \subseteq SpendableTypes
    PROVE  Balance(u, types) \in Int
<1>1. PICK S : S = {x \in ledger : x.user = u /\ x.type \in types}
  OBVIOUS
<1>2. S \subseteq Spendable(u)
  BY <1>1 DEF Spendable, SpendableTypes
<1>3. SumOf(S) \in Int
  BY <1>2, CountedPart, SumIsInt
<1>4. QED
  BY <1>1, <1>3 DEF Balance

\* Balances of disjoint sets of types add up.
LEMMA BalanceSplits ==
    ASSUME NEW u, Counted(Spendable(u)),
           NEW s, s \subseteq SpendableTypes, NEW t, t \subseteq SpendableTypes,
           s \intersect t = {}
    PROVE  Balance(u, s \union t) = Balance(u, s) + Balance(u, t)
<1>1. PICK S, T : /\ S = {x \in ledger : x.user = u /\ x.type \in s}
                  /\ T = {x \in ledger : x.user = u /\ x.type \in t}
  OBVIOUS
<1>2. S \subseteq Spendable(u) /\ T \subseteq Spendable(u) /\ S \intersect T = {}
  BY <1>1 DEF Spendable, SpendableTypes
<1>3. SumOf(S \union T) = SumOf(S) + SumOf(T)
  BY <1>2, CountedPart, SumOfUnion
<1>4. S \union T = {x \in ledger : x.user = u /\ x.type \in s \union t}
  BY <1>1
<1>5. QED
  BY <1>1, <1>3, <1>4 DEF Balance

\* Pending entries count for nothing here.
LEMMA BalanceKept ==
    ASSUME NEW rest, ledger' = ledger \union rest,
           \A y \in rest : y.type = "commission_pending",
           NEW u
    PROVE  /\ Counted(Spendable(u)) => Counted(Spendable(u))'
           /\ \A types : types \subseteq SpendableTypes => Balance(u, types)' = Balance(u, types)
<1>1. Spendable(u)' = Spendable(u)
  BY DEF Spendable
<1>2. Counted(Spendable(u)) => Counted(Spendable(u))'
  BY <1>1 DEF Counted, Units
<1>3. ASSUME NEW types, types \subseteq SpendableTypes PROVE Balance(u, types)' = Balance(u, types)
  <2>1. {x \in ledger : x.user = u /\ x.type \in types}'
            = {x \in ledger : x.user = u /\ x.type \in types}
    BY <1>3 DEF SpendableTypes
  <2>2. QED
    BY <2>1 DEF Balance, SumOf, Units
<1>4. QED
  BY <1>2, <1>3

\* One other entry changes the balances it belongs to by its amount.
LEMMA BalanceGrows ==
    ASSUME NEW x, x \notin ledger, x.amount \in Int,
           NEW rest, ledger' = (ledger \union {x}) \union rest,
           \A y \in rest : y.type = "commission_pending",
           NEW u, Counted(Spendable(u))
    PROVE  /\ Counted(Spendable(u))'
           /\ \A types : types \subseteq SpendableTypes =>
                 Balance(u, types)' =
                    Balance(u, types) + Times(x.user = u /\ x.type \in types, x.amount)
<1>1. Counted(Spendable(u))'
  <2>1. PICK S : S = Spendable(u)
    OBVIOUS
  <2>2. Counted(S \union {x})
    BY <2>1, SumOfOne, SumGrows DEF Spendable
  <2>3. Spendable(u)' \subseteq S \union {x}
    BY <2>1 DEF Spendable
  <2>4. PICK T : T = Spendable(u)'
    OBVIOUS
  <2>5. Counted(T)
    BY <2>2, <2>3, <2>4, CountedPart
  <2>6. QED
    BY <2>4, <2>5 DEF Counted, Units
<1>2. ASSUME NEW types, types \subseteq SpendableTypes
      PROVE  Balance(u, types)' =
                Balance(u, types) + Times(x.user = u /\ x.type \in types, x.amount)
  <2>1. PICK S : S = {y \in ledger : y.user = u /\ y.type \in types}
    OBVIOUS
  <2>2. Counted(S) /\ x \notin S
    <3>1. S \subseteq Spendable(u) /\ x \notin S
      BY <1>2, <2>1 DEF Spendable, SpendableTypes
    <3>2. QED
      BY <3>1, CountedPart
  <2>3. PICK T : T = {y \in ledger : y.user = u /\ y.type \in types}'
    OBVIOUS
  <2>4. SumOf(S) \in Int
    BY <2>2, SumIsInt
  <2>5. SumOf(T) = SumOf(S) + Times(x.user = u /\ x.type \in types, x.amount)
    <3>1. CASE x.user = u /\ x.type \in types
      <4>1. T = S \union {x}
        BY <1>2, <2>1, <2>3, <3>1 DEF SpendableTypes
      <4>2. SumOf(S \union {x}) = SumOf(S) + x.amount
        BY <2>2, SumGrows
      <4>3. QED
        BY <3>1, <4>1, <4>2 DEF Times
    <3>2. CASE ~(x.user = u /\ x.type \in types)
      <4>1. T = S
        BY <1>2, <2>1, <2>3, <3>2 DEF SpendableTypes
      <4>2. QED
        BY <2>4, <3>2, <4>1 DEF Times
    <3>3. QED
      BY <3>1, <3>2
  <2>6. Balance(u, types) = SumOf(S) /\ Balance(u, types)' = SumOf(T)
    BY <2>1, <2>3 DEF Balance, SumOf, Units
  <2>7. QED
    BY <2>5, <2>6
<1>3. QED
  BY <1>1, <1>2

LEMMA TotalsAreInt ==
    ASSUME NEW u, Counted(Spendable(u))
    PROVE  /\ Credited(u) \in Int /\ TakenBack(u) \in Int
           /\ SentTo(u) \in Int /\ Reserved(u) \in Int
<1>1. /\ {"commission_available"} \subseteq SpendableTypes /\ ClawbackTypes \subseteq SpendableTypes
      /\ {"payout_sent"} \subseteq SpendableTypes
      /\ {"payout_requested", "payout_failed"} \subseteq SpendableTypes
  BY DEF SpendableTypes, EntryTypes, ClawbackTypes
<1>2. QED
  BY <1>1, BalanceIsInt DEF Credited, TakenBack, SentTo, Reserved

\* How one entry that is not pending changes the totals of a user.
LEMMA TotalsGrow ==
    ASSUME NEW x, x \notin ledger, x.amount \in Int,
           NEW rest, ledger' = (ledger \union {x}) \union rest,
           \A y \in rest : y.type = "commission_pending",
           NEW u, Counted(Spendable(u))
    PROVE  /\ Counted(Spendable(u))'
           /\ Credited(u)' = Credited(u) + Times(x.user = u /\ x.type = "commission_available", x.amount)
           /\ TakenBack(u)' = TakenBack(u) + Times(x.user = u /\ x.type \in ClawbackTypes, x.amount)
           /\ SentTo(u)' = SentTo(u) + Times(x.user = u /\ x.type = "payout_sent", x.amount)
           /\ Reserved(u)' = Reserved(u)
                 + Times(x.user = u /\ x.type \in {"payout_requested", "payout_failed"}, x.amount)
<1>1. /\ {"commission_available"} \subseteq SpendableTypes /\ ClawbackTypes \subseteq SpendableTypes
      /\ {"payout_sent"} \subseteq SpendableTypes
      /\ {"payout_requested", "payout_failed"} \subseteq SpendableTypes
  BY DEF SpendableTypes, EntryTypes, ClawbackTypes
<1>2. /\ Counted(Spendable(u))'
      /\ \A types : types \subseteq SpendableTypes =>
            Balance(u, types)' =
               Balance(u, types) + Times(x.user = u /\ x.type \in types, x.amount)
  BY BalanceGrows
<1>3. Credited(u)' = Credited(u) + Times(x.user = u /\ x.type = "commission_available", x.amount)
  BY <1>1, <1>2 DEF Credited, Times
<1>4. SentTo(u)' = SentTo(u) + Times(x.user = u /\ x.type = "payout_sent", x.amount)
  BY <1>1, <1>2 DEF SentTo, Times
<1>5. QED
  BY <1>1, <1>2, <1>3, <1>4 DEF TakenBack, Reserved

LEMMA TotalsKept ==
    ASSUME NEW rest, ledger' = ledger \union rest,
           \A y \in rest : y.type = "commission_pending", NEW u
    PROVE  /\ Counted(Spendable(u)) => Counted(Spendable(u))'
           /\ Credited(u)' = Credited(u) /\ TakenBack(u)' = TakenBack(u)
           /\ SentTo(u)' = SentTo(u) /\ Reserved(u)' = Reserved(u)
<1>1. /\ {"commission_available"} \subseteq SpendableTypes /\ ClawbackTypes \subseteq SpendableTypes
      /\ {"payout_sent"} \subseteq SpendableTypes
      /\ {"payout_requested", "payout_failed"} \subseteq SpendableTypes
  BY DEF SpendableTypes, EntryTypes, ClawbackTypes
<1>2. QED
  BY <1>1, BalanceKept DEF Credited, TakenBack, SentTo, Reserved

\* What the commission engine does to the totals of a user: it credits, it takes
\* back, and it leaves the payouts alone.
TotalsMove(u) ==
    /\ Counted(Spendable(u))'
    /\ Credited(u)' >= Credited(u) /\ TakenBack(u)' <= TakenBack(u)
    /\ SentTo(u)' = SentTo(u) /\ Reserved(u)' = Reserved(u)

LEMMA CommissionMovesTotals ==
    ASSUME ReleaseInv, BookedInv, C!CommissionNext, NEW u, Counted(Spendable(u))
    PROVE  TotalsMove(u)
<1>1. ASSUME NEW rest, ledger' = ledger \union rest,
             \A y \in rest : y.type = "commission_pending"
      PROVE  TotalsMove(u)
  BY <1>1, TotalsKept, TotalsAreInt DEF TotalsMove
<1>2. CASE UNCHANGED ledger
  <2>1. PICK rest : rest = {}
    OBVIOUS
  <2>2. ledger' = ledger \union rest /\ \A y \in rest : y.type = "commission_pending"
    BY <1>2, <2>1
  <2>3. QED
    BY <1>1, <2>2
<1>3. ASSUME NEW c \in Calculators, C!Calculate(c) PROVE TotalsMove(u)
  <2>1. PICK due : due = C!Due(c)
    OBVIOUS
  <2>2. PICK rest : rest = {C!PendingEntry(e) : e \in due}
    OBVIOUS
  <2>3. ledger' = ledger \union rest
    BY <1>3, <2>1, <2>2 DEF C!Calculate, C!WriteEntries
  <2>4. \A y \in rest : y.type = "commission_pending"
    BY <2>2 DEF C!PendingEntry, C!Entry
  <2>5. QED
    BY <1>1, <2>3, <2>4
<1>4. ASSUME NEW r \in Releasers, C!CommitRelease(r) PROVE TotalsMove(u)
  <2>1. PICK d : d = work[r].e
    OBVIOUS
  <2>2. work[r].op = "release" /\ C!CanWrite(C!ReleaseEntries(d))
        /\ C!WriteEntries(C!ReleaseEntries(d))
    BY <1>4, <2>1 DEF C!CommitRelease
  <2>3. d \in C!Events
    BY <2>1, <2>2 DEF BookedInv, Known, Exists, C!Workers
  <2>4. C!Earned(d) \in Nat
    BY <2>3, EarningsAssumption DEF C!Events, C!Earned
  <2>5. PICK y, x : /\ y.type = "commission_pending"
                    /\ x.type = "commission_available" /\ x.amount = C!Earned(d)
                    /\ {y, x} = C!ReleaseEntries(d)
    BY DEF C!ReleaseEntries, C!Entry
  <2>6. x \notin ledger
    BY <2>2, <2>5 DEF C!CanWrite
  <2>7. PICK rest : rest = {y}
    OBVIOUS
  <2>8. ledger' = (ledger \union {x}) \union rest /\ \A z \in rest : z.type = "commission_pending"
    BY <2>2, <2>5, <2>7 DEF C!WriteEntries
  <2>9. x.amount \in Int
    BY <2>4, <2>5
  <2>10. /\ Counted(Spendable(u))'
         /\ Credited(u)' = Credited(u) + Times(x.user = u /\ x.type = "commission_available", x.amount)
         /\ TakenBack(u)' = TakenBack(u) + Times(x.user = u /\ x.type \in ClawbackTypes, x.amount)
         /\ SentTo(u)' = SentTo(u) + Times(x.user = u /\ x.type = "payout_sent", x.amount)
         /\ Reserved(u)' = Reserved(u)
               + Times(x.user = u /\ x.type \in {"payout_requested", "payout_failed"}, x.amount)
    BY <2>6, <2>8, <2>9, TotalsGrow
  <2>11. x.type \notin ClawbackTypes
    BY <2>5 DEF ClawbackTypes
  <2>12. QED
    BY <2>4, <2>5, <2>10, <2>11, TotalsAreInt DEF TotalsMove, Times
<1>5. ASSUME NEW w \in Clawers, C!CommitClawback(w) PROVE TotalsMove(u)
  <2>1. PICK d, type : d = work[w].e /\ type = work[w].type
    OBVIOUS
  <2>2. PICK x : x = C!ClawbackEntry(d, type)
    OBVIOUS
  <2>3. work[w].op = "clawback" /\ C!CanWrite({x}) /\ ledger' = ledger \union {x}
    BY <1>5, <2>1, <2>2 DEF C!CommitClawback, C!WriteEntries
  <2>4. d \in C!Events /\ type \in ClawbackTypes
    BY <2>1, <2>3 DEF BookedInv, Known, Exists, C!Workers
  <2>5. C!Earned(d) \in Nat
    BY <2>4, EarningsAssumption DEF C!Events, C!Earned
  <2>6. x.type = type /\ x.amount = -C!Earned(d)
    BY <2>2 DEF C!ClawbackEntry, C!Entry
  <2>7. x \notin ledger /\ x.amount \in Int
    BY <2>3, <2>5, <2>6 DEF C!CanWrite
  <2>8. PICK rest : rest = {}
    OBVIOUS
  <2>9. ledger' = (ledger \union {x}) \union rest /\ \A z \in rest : z.type = "commission_pending"
    BY <2>3, <2>8
  <2>10. /\ Counted(Spendable(u))'
         /\ Credited(u)' = Credited(u) + Times(x.user = u /\ x.type = "commission_available", x.amount)
         /\ TakenBack(u)' = TakenBack(u) + Times(x.user = u /\ x.type \in ClawbackTypes, x.amount)
         /\ SentTo(u)' = SentTo(u) + Times(x.user = u /\ x.type = "payout_sent", x.amount)
         /\ Reserved(u)' = Reserved(u)
               + Times(x.user = u /\ x.type \in {"payout_requested", "payout_failed"}, x.amount)
    BY <2>7, <2>9, TotalsGrow
  <2>11. x.type \notin {"commission_available", "payout_sent", "payout_requested", "payout_failed"}
    BY <2>4, <2>6 DEF ClawbackTypes
  <2>12. QED
    BY <2>5, <2>6, <2>10, <2>11, TotalsAreInt DEF TotalsMove, Times
<1>6. QED
  BY <1>2, <1>3, <1>4, <1>5
     DEF C!CommissionNext, C!OrderPaid, C!OrderMoves, C!CorrectUpline, C!Requalify,
         C!ChangePolicy, C!TimePasses, C!Claim, C!SkipUnpaid, C!VerifyPaid,
         C!SkipUnearning, C!ReadUpline, C!CalculationFails, C!CalculationAborts,
         C!BeginRelease, C!ListForClawback, C!BeginClawback, C!Stop

\* Primed expressions match no lemma about unprimed ones: this one is stated again.
LEMMA TotalsIntNext ==
    ASSUME NEW u, Counted(Spendable(u))'
    PROVE  Credited(u)' \in Int /\ TakenBack(u)' \in Int
<1>1. ASSUME NEW types, types \subseteq SpendableTypes PROVE Balance(u, types)' \in Int
  <2>1. PICK S, T : S = {x \in ledger : x.user = u /\ x.type \in types}' /\ T = Spendable(u)'
    OBVIOUS
  <2>2. S \subseteq T
    BY <1>1, <2>1 DEF Spendable, SpendableTypes
  <2>3. Counted(T)
    BY <2>1 DEF Counted, Units
  <2>4. SumOf(S) \in Int
    BY <2>2, <2>3, CountedPart, SumIsInt
  <2>5. QED
    BY <2>1, <2>4 DEF Balance, SumOf, Units
<1>2. {"commission_available"} \subseteq SpendableTypes /\ ClawbackTypes \subseteq SpendableTypes
  BY DEF SpendableTypes, EntryTypes, ClawbackTypes
<1>3. QED
  BY <1>1, <1>2 DEF Credited, TakenBack

\* A step that leaves the requests of a user alone and clears none that the user's
\* commissions do not cover.
LEMMA UserPaidKept ==
    ASSUME NEW u, UserPaid(u), TotalsMove(u),
           P!ActiveOf(u)' = P!ActiveOf(u), OpenDebits(u)' = OpenDebits(u),
           \A p \in P!ActiveOf(u) :
              /\ payout'[p].amount = payout[p].amount /\ payout[p].amount \in Int
              /\ Cleared(p)' => Cleared(p) \/ Credited(u) + SentTo(u) >= payout[p].amount
    PROVE  UserPaid(u)'
<1>1. /\ Credited(u) \in Int /\ TakenBack(u) \in Int /\ SentTo(u) \in Int /\ Reserved(u) \in Int
  BY TotalsAreInt DEF UserPaid
<1>2. /\ Credited(u)' \in Int /\ TakenBack(u)' \in Int
  BY TotalsIntNext DEF TotalsMove
<1>3. /\ Counted(Spendable(u))' /\ TakenBack(u)' <= 0 /\ Credited(u)' + SentTo(u)' >= 0
  BY <1>1, <1>2 DEF UserPaid, TotalsMove
<1>4. Counted(OpenDebits(u))' /\ Reserved(u)' = SumOf(OpenDebits(u))'
  <2>1. Counted(OpenDebits(u)) /\ Reserved(u) = SumOf(OpenDebits(u))
    BY DEF UserPaid
  <2>2. Counted(OpenDebits(u))' /\ SumOf(OpenDebits(u))' = SumOf(OpenDebits(u))
    BY <2>1 DEF Counted, SumOf, Units
  <2>3. QED
    BY <2>1, <2>2 DEF TotalsMove
<1>5. \A p, q \in P!ActiveOf(u)' : p = q
  BY DEF UserPaid
<1>6. ASSUME NEW p \in P!ActiveOf(u)
      PROVE  Cleared(p)' => Credited(u)' + SentTo(u)' >= payout'[p].amount
  <2>1. Cleared(p)' => Credited(u) + SentTo(u) >= payout[p].amount
    BY <1>6 DEF UserPaid
  <2>2. QED
    BY <1>1, <1>2, <1>6, <2>1 DEF TotalsMove
<1>7. QED
  BY <1>3, <1>4, <1>5, <1>6 DEF UserPaid

LEMMA RequestBookedKept ==
    ASSUME NEW p, RequestBooked(p), payout'[p] = payout[p], ledger \subseteq ledger',
           \A x \in ledger' : x \notin ledger => \A k \in PayoutKinds : x.key # <<k, p>>
    PROVE  RequestBooked(p)'
<1>1. BookedOn(p)' = BookedOn(p)
  BY DEF BookedOn, Refers
<1>2. (Counted(BookedOn(p)) <=> Counted(BookedOn(p))') /\ SumOf(BookedOn(p))' = SumOf(BookedOn(p))
  BY <1>1 DEF Counted, SumOf, Units
<1>3. /\ "payout-requested" \in PayoutKinds /\ "payout-sent" \in PayoutKinds
  BY DEF PayoutKinds, EntryKinds, EventKinds
<1>4. Written("payout-sent", p)' <=> Written("payout-sent", p)
  BY <1>3 DEF Written
<1>5. ASSUME NEW d, DebitOf(p, d) PROVE DebitOf(p, d)'
  BY <1>3, <1>5 DEF DebitOf
<1>6. QED
  BY <1>1, <1>2, <1>4, <1>5 DEF RequestBooked

LEMMA BookedOnGrows ==
    ASSUME NEW p, Counted(BookedOn(p)), NEW x, NEW k \in PayoutKinds, x.key = <<k, p>>,
           x.amount \in Int, ~Written(k, p), ledger' = ledger \union {x}
    PROVE  Counted(BookedOn(p))' /\ SumOf(BookedOn(p))' = SumOf(BookedOn(p)) + x.amount
<1>1. PICK S : S = BookedOn(p)
  OBVIOUS
<1>2. BookedOn(p)' = S \union {x}
  BY <1>1 DEF BookedOn, Refers
<1>3. x \notin S
  BY <1>1 DEF BookedOn, Written
<1>4. Counted(S \union {x}) /\ SumOf(S \union {x}) = SumOf(S) + x.amount
  BY <1>1, <1>3, SumGrows
<1>5. QED
  BY <1>1, <1>2, <1>4 DEF Counted, SumOf, Units

LEMMA RowsAreTyped ==
    ASSUME MoneyInv, NEW p \in Payouts, payout[p].status # "absent"
    PROVE  /\ payout[p] \in RequestRow
           /\ payout[p].user \in Users /\ payout[p].amount \in Nat \ {0}
<1>1. payout[p] = P!Absent \/ payout[p] \in RequestRow
  BY DEF MoneyInv, RequestBooked
<1>2. payout[p] \in RequestRow
  BY <1>1 DEF P!Absent
<1>3. payout[p].user \in Users /\ payout[p].amount \in PayoutAmounts
  BY <1>2 DEF RequestRow
<1>4. QED
  BY <1>2, <1>3, EarningsAssumption

\* What was debited and not given back is never positive.
LEMMA ReservedFalls ==
    ASSUME MoneyInv, NEW u \in Users
    PROVE  Reserved(u) \in Int /\ Reserved(u) <= 0
<1>1. PICK S : S = OpenDebits(u)
  OBVIOUS
<1>2. Counted(S) /\ Reserved(u) = SumOf(S)
  BY <1>1 DEF MoneyInv, UserPaid
<1>3. ASSUME NEW x \in S PROVE x.amount \in Int /\ x.amount <= 0
  <2>1. PICK p \in Payouts : x.key = <<"payout-requested", p>> /\ x \in ledger
    BY <1>1, <1>3 DEF OpenDebits
  <2>2. x \in BookedOn(p)
    BY <2>1 DEF BookedOn, Refers, PayoutKinds, EntryKinds, EventKinds
  <2>3. payout[p].status # "absent"
    BY <2>2 DEF MoneyInv, RequestBooked
  <2>4. PICK d : DebitOf(p, d)
    BY <2>3 DEF MoneyInv, RequestBooked
  <2>5. x.amount = -payout[p].amount
    BY <2>1, <2>4 DEF DebitOf
  <2>6. QED
    BY <2>3, <2>5, RowsAreTyped
<1>4. Units(S, 1) = {}
  <2>1. ASSUME NEW x \in S PROVE 1..(1 * x.amount) = {}
    BY <1>3, <2>1
  <2>2. QED
    BY <2>1 DEF Units
<1>5. Cardinality(Units(S, 1)) = 0
  BY <1>4, FS_EmptySet
<1>6. IsFiniteSet(Units(S, -1))
  BY <1>2 DEF Counted
<1>7. Cardinality(Units(S, -1)) \in Nat
  BY <1>6, FS_CardinalityType
<1>8. QED
  BY <1>2, <1>5, <1>7 DEF SumOf

\* An entry of a request leaves the debits of the other users alone.
LEMMA OthersDebits ==
    ASSUME MoneyInv, NEW p \in Payouts, NEW x, NEW kind, x.key = <<kind, p>>,
           ledger' = ledger \union {x},
           payout[p].status # "absent" => payout[p].user = x.user,
           NEW u, u # x.user
    PROVE  OpenDebits(u)' = OpenDebits(u)
<1>1. ASSUME NEW q \in Payouts, q # p PROVE GivenBack(q)' <=> GivenBack(q)
  BY <1>1 DEF GivenBack, Written
<1>2. ASSUME NEW y \in ledger, y.key = <<"payout-requested", p>> PROVE y.user # u
  <2>1. y \in BookedOn(p)
    BY <1>2 DEF BookedOn, Refers, PayoutKinds, EntryKinds, EventKinds
  <2>2. payout[p].status # "absent"
    BY <2>1 DEF MoneyInv, RequestBooked
  <2>3. PICK d : DebitOf(p, d)
    BY <2>2 DEF MoneyInv, RequestBooked
  <2>4. QED
    BY <1>2, <2>2, <2>3 DEF DebitOf
<1>3. QED
  BY <1>1, <1>2 DEF OpenDebits

Covered(p) ==
    Credited(payout[p].user) + SentTo(payout[p].user) >= payout[p].amount

\* Steps that move no request.
LEMMA MoneyKept ==
    ASSUME MoneyInv, payout' = payout, ledger \subseteq ledger',
           \A x \in ledger' : x \notin ledger =>
              \A p \in Payouts : \A k \in PayoutKinds : x.key # <<k, p>>,
           \A u \in Users : TotalsMove(u),
           \A a \in P!Actors :
              \/ task'[a] = task[a]
              \/ Asked(task'[a]) /\ (task'[a].op = "approve" => Covered(task'[a].p))
    PROVE  MoneyInv'
<1>1. \A p \in Payouts : RequestBooked(p)'
  BY RequestBookedKept DEF MoneyInv
<1>2. ASSUME NEW u \in Users PROVE UserPaid(u)'
  <2>1. UserPaid(u)
    BY DEF MoneyInv
  <2>2. P!ActiveOf(u)' = P!ActiveOf(u) /\ OpenDebits(u)' = OpenDebits(u)
    <3>1. /\ "payout-requested" \in PayoutKinds /\ "payout-rejected" \in PayoutKinds
          /\ "payout-batch-failed" \in PayoutKinds
      BY DEF PayoutKinds, EntryKinds, EventKinds
    <3>2. ASSUME NEW p \in Payouts PROVE GivenBack(p)' <=> GivenBack(p)
      BY <3>1 DEF GivenBack, Written
    <3>3. OpenDebits(u)' = OpenDebits(u)
      BY <3>1, <3>2 DEF OpenDebits
    <3>4. QED
      BY <3>3 DEF P!ActiveOf
  <2>3. ASSUME NEW p \in P!ActiveOf(u)
        PROVE  /\ payout[p].amount \in Int
               /\ Cleared(p)' => Cleared(p) \/ Credited(u) + SentTo(u) >= payout[p].amount
    <3>1. p \in Payouts /\ payout[p].status # "absent" /\ payout[p].user = u
      BY <2>3 DEF P!ActiveOf, P!Active
    <3>2. payout[p].amount \in Int
      BY <3>1, RowsAreTyped
    <3>3. ASSUME Cleared(p)', ~Cleared(p) PROVE Covered(p)
      BY <3>3 DEF Cleared
    <3>4. QED
      BY <3>1, <3>2, <3>3 DEF Covered
  <2>4. QED
    BY <2>1, <2>2, <2>3, UserPaidKept
<1>3. \A a \in P!Actors : Asked(task[a])'
  BY DEF MoneyInv, Asked
<1>4. QED
  BY <1>1, <1>2, <1>3 DEF MoneyInv

\* A step that moves one request of a user.
LEMMA MoneyMoves ==
    ASSUME PayoutInv, MoneyInv, NEW p \in Payouts, NEW row \in RequestRow,
           payout' = [payout EXCEPT ![p] = row],
           payout[p] = P!Absent \/ payout[p].user = row.user,
           NEW a \in P!Actors, NEW t, task' = [task EXCEPT ![a] = t],
           t.op \notin {"request", "approve"},
           ledger \subseteq ledger',
           \A x \in ledger' : x \notin ledger => \E k : x.key = <<k, p>>,
           \A u \in Users : u # row.user => TotalsMove(u) /\ OpenDebits(u)' = OpenDebits(u),
           RequestBooked(p)', UserPaid(row.user)'
    PROVE  MoneyInv'
<1>1. ASSUME NEW q \in Payouts, q # p PROVE payout'[q] = payout[q]
  BY <1>1 DEF PayoutInv
<1>2. payout'[p] = row
  BY DEF PayoutInv
<1>3. ASSUME NEW q \in Payouts, q # p PROVE RequestBooked(q)'
  <2>1. \A x \in ledger' : x \notin ledger => \A k \in PayoutKinds : x.key # <<k, q>>
    BY <1>3
  <2>2. QED
    BY <1>1, <1>3, <2>1, RequestBookedKept DEF MoneyInv
<1>4. task'[a] = t /\ \A b \in P!Actors : b # a => task'[b] = task[b]
  BY DEF PayoutInv
<1>5. ASSUME NEW u \in Users, u # row.user PROVE UserPaid(u)'
  <2>1. P!ActiveOf(u)' = P!ActiveOf(u)
    BY <1>1, <1>2, <1>5 DEF P!ActiveOf, P!Absent, P!Active
  <2>2. ASSUME NEW q \in P!ActiveOf(u)
        PROVE  /\ payout'[q].amount = payout[q].amount /\ payout[q].amount \in Int
               /\ Cleared(q)' => Cleared(q)
    <3>1. q \in Payouts /\ payout[q].status # "absent" /\ payout[q].user = u
      BY <2>2 DEF P!ActiveOf, P!Active
    <3>2. q # p
      BY <1>5, <3>1 DEF P!Absent
    <3>3. payout'[q] = payout[q]
      BY <1>1, <3>1, <3>2
    <3>4. Cleared(q)' => Cleared(q)
      BY <1>4, <3>3 DEF Cleared
    <3>5. QED
      BY <3>1, <3>3, <3>4, RowsAreTyped
  <2>3. UserPaid(u) /\ TotalsMove(u)
    BY <1>5 DEF MoneyInv
  <2>4. QED
    BY <2>1, <2>2, <2>3, UserPaidKept
<1>6. \A b \in P!Actors : Asked(task[b])'
  BY <1>4 DEF MoneyInv, Asked
<1>7. QED
  BY <1>3, <1>5, <1>6 DEF MoneyInv

\* The entry of a request: what it changes for its user, and for the others.
LEMMA PayoutEntryMoves ==
    ASSUME MoneyInv, NEW x, x \notin ledger, x.amount \in Int, ledger' = ledger \union {x},
           x.type \in {"payout_requested", "payout_failed", "payout_sent"}
    PROVE  /\ \A u \in Users : u # x.user => TotalsMove(u)
           /\ \A u \in Users : u = x.user =>
                 /\ Counted(Spendable(u))'
                 /\ Credited(u)' = Credited(u) /\ TakenBack(u)' = TakenBack(u)
                 /\ SentTo(u)' = SentTo(u) + Times(x.type = "payout_sent", x.amount)
                 /\ Reserved(u)' = Reserved(u) + Times(x.type # "payout_sent", x.amount)
<1>1. PICK rest : rest = {}
  OBVIOUS
<1>2. ledger' = (ledger \union {x}) \union rest /\ \A y \in rest : y.type = "commission_pending"
  BY <1>1
<1>3. x.type # "commission_available" /\ x.type \notin ClawbackTypes
  BY DEF ClawbackTypes
<1>4. ASSUME NEW u \in Users
      PROVE  /\ Counted(Spendable(u))'
             /\ Credited(u)' = Credited(u) /\ TakenBack(u)' = TakenBack(u)
             /\ SentTo(u)' = SentTo(u) + Times(x.user = u /\ x.type = "payout_sent", x.amount)
             /\ Reserved(u)' = Reserved(u) + Times(x.user = u /\ x.type # "payout_sent", x.amount)
  <2>1. Counted(Spendable(u))
    BY DEF MoneyInv, UserPaid
  <2>2. /\ Counted(Spendable(u))'
        /\ Credited(u)' = Credited(u) + Times(x.user = u /\ x.type = "commission_available", x.amount)
        /\ TakenBack(u)' = TakenBack(u) + Times(x.user = u /\ x.type \in ClawbackTypes, x.amount)
        /\ SentTo(u)' = SentTo(u) + Times(x.user = u /\ x.type = "payout_sent", x.amount)
        /\ Reserved(u)' = Reserved(u)
              + Times(x.user = u /\ x.type \in {"payout_requested", "payout_failed"}, x.amount)
    BY <1>2, <2>1, TotalsGrow
  <2>3. QED
    BY <1>3, <2>1, <2>2, TotalsAreInt DEF Times
<1>5. ASSUME NEW u \in Users, u # x.user PROVE TotalsMove(u)
  <2>1. Counted(Spendable(u))
    BY DEF MoneyInv, UserPaid
  <2>2. QED
    BY <1>4, <1>5, <2>1, TotalsAreInt DEF TotalsMove, Times
<1>6. QED
  BY <1>4, <1>5 DEF Times

LEMMA MoneyInit == Init => MoneyInv
<1> SUFFICES ASSUME Init PROVE MoneyInv
  OBVIOUS
<1>1. /\ ledger = {} /\ payout = [p \in Payouts |-> P!Absent]
      /\ task = [a \in P!Actors |-> P!NoTask]
  BY DEF Init, P!PayoutInit
<1>2. ASSUME NEW p \in Payouts PROVE RequestBooked(p)
  <2>1. BookedOn(p) = {}
    BY <1>1 DEF BookedOn
  <2>2. QED
    BY <1>1, <2>1, SumOfNone DEF RequestBooked, P!Absent, P!Active
<1>3. ASSUME NEW u \in Users PROVE UserPaid(u)
  <2>1. Spendable(u) = {} /\ P!ActiveOf(u) = {}
    BY <1>1 DEF Spendable, P!ActiveOf, P!Absent, P!Active
  <2>2. \A types : Balance(u, types) = 0
    <3>1. ASSUME NEW types PROVE {x \in ledger : x.user = u /\ x.type \in types} = {}
      BY <1>1
    <3>2. QED
      BY <3>1, SumOfNone DEF Balance
  <2>3. OpenDebits(u) = {}
    BY <1>1 DEF OpenDebits
  <2>4. QED
    BY <2>1, <2>2, <2>3, SumOfNone DEF UserPaid, Credited, TakenBack, SentTo, Reserved
<1>4. \A a \in P!Actors : Asked(task[a])
  BY <1>1 DEF P!NoTask, Asked
<1>5. QED
  BY <1>2, <1>3, <1>4 DEF MoneyInv

LEMMA MoneyKeptByRequest ==
    ASSUME PayoutInv, MoneyInv, NEW a \in Requesters, P!CommitRequest(a)
    PROVE  MoneyInv'
<1>1. a \in P!Actors
  BY DEF P!Actors
<1>2. PICK p, u, n : p = task[a].p /\ u = task[a].user /\ n = task[a].amount
  OBVIOUS
<1>3. PICK row : row = [status |-> "requested", user |-> u, amount |-> n]
  OBVIOUS
<1>4. PICK x : x = P!PayoutEntry("payout-requested", p, "payout_requested", row, -1)
  OBVIOUS
<1>5. /\ task[a].op = "request" /\ payout[p] = P!Absent /\ P!ActiveOf(u) = {}
      /\ payout' = [payout EXCEPT ![p] = row] /\ ledger' = ledger \union {x}
      /\ task' = [task EXCEPT ![a] = P!NoTask]
  BY <1>2, <1>3, <1>4 DEF P!CommitRequest, P!WriteEntries, P!Done
<1>6. p \in Payouts /\ u \in Users /\ n \in PayoutAmounts
  BY <1>1, <1>2, <1>5 DEF MoneyInv, Asked
<1>7. n \in Nat \ {0} /\ row \in RequestRow /\ row.user = u /\ row.amount = n
      /\ row.status = "requested"
  BY <1>3, <1>6, EarningsAssumption DEF RequestRow
<1>8. /\ x.key = <<"payout-requested", p>> /\ x.type = "payout_requested"
      /\ x.user = u /\ x.amount = -n
  BY <1>4, <1>7 DEF P!PayoutEntry, P!Entry
<1>9. payout'[p] = row
  BY <1>5, <1>6 DEF PayoutInv
<1>10. "payout-requested" \in PayoutKinds
  BY DEF PayoutKinds, EntryKinds, EventKinds
<1>11. BookedOn(p) = {}
  BY <1>5, <1>6 DEF MoneyInv, RequestBooked, P!Absent
<1>12. ~Written("payout-requested", p) /\ x \notin ledger /\ x.amount \in Int
  BY <1>7, <1>8, <1>10, <1>11 DEF Written, BookedOn, Refers
<1>13. RequestBooked(p)'
  <2>1. Counted(BookedOn(p)) /\ SumOf(BookedOn(p)) = 0
    BY <1>11, SumOfNone
  <2>2. Counted(BookedOn(p))' /\ SumOf(BookedOn(p))' = SumOf(BookedOn(p)) + x.amount
    BY <1>5, <1>8, <1>10, <1>12, <2>1, BookedOnGrows
  <2>3. SumOf(BookedOn(p))' = -n
    BY <1>7, <1>8, <2>1, <2>2
  <2>4. \A y \in ledger : y.key # <<"payout-requested", p>>
    BY <1>12 DEF Written
  <2>5. DebitOf(p, x)'
    BY <1>5, <1>7, <1>8, <1>9, <2>4 DEF DebitOf
  <2>6. QED
    BY <1>7, <1>9, <2>2, <2>3, <2>5 DEF RequestBooked, P!Active
<1>14. /\ \A v \in Users : v # u => TotalsMove(v)
       /\ Counted(Spendable(u))'
       /\ Credited(u)' = Credited(u) /\ TakenBack(u)' = TakenBack(u)
       /\ SentTo(u)' = SentTo(u) + Times(x.type = "payout_sent", x.amount)
       /\ Reserved(u)' = Reserved(u) + Times(x.type # "payout_sent", x.amount)
  BY <1>5, <1>6, <1>8, <1>12, PayoutEntryMoves
<1>15. UserPaid(u)'
  <2>1. UserPaid(u)
    BY <1>6 DEF MoneyInv
  <2>2. /\ Credited(u) \in Int /\ TakenBack(u) \in Int /\ SentTo(u) \in Int /\ Reserved(u) \in Int
    BY <2>1, TotalsAreInt DEF UserPaid
  <2>3. /\ SentTo(u)' = SentTo(u) /\ Reserved(u)' = Reserved(u) - n
    BY <1>7, <1>8, <1>14, <2>2 DEF Times
  <2>4. P!ActiveOf(u)' = {p}
    <3>1. ASSUME NEW q \in Payouts, q # p PROVE payout'[q] = payout[q]
      BY <1>5, <3>1 DEF PayoutInv
    <3>2. QED
      BY <1>5, <1>6, <1>7, <1>9, <3>1 DEF P!ActiveOf, P!Active
  <2>5. ~Cleared(p)'
    <3>1. ASSUME NEW b \in P!Actors, task'[b].op = "approve", task'[b].p = p PROVE FALSE
      <4>1. b # a
        BY <1>1, <1>5, <3>1 DEF PayoutInv, P!NoTask
      <4>2. task[b].op = "approve" /\ task[b].p = p
        BY <1>5, <3>1, <4>1 DEF PayoutInv
      <4>3. payout[p].status = "requested"
        BY <4>2 DEF PayoutInv, TaskOK
      <4>4. QED
        BY <1>5, <4>3 DEF P!Absent
    <3>2. QED
      BY <1>7, <1>9, <3>1 DEF Cleared
  <2>6. Counted(OpenDebits(u))' /\ Reserved(u)' = SumOf(OpenDebits(u))'
    <3>1. PICK S : S = OpenDebits(u)
      OBVIOUS
    <3>2. ~Written("payout-rejected", p) /\ ~Written("payout-batch-failed", p)
      BY <1>11 DEF BookedOn, Refers, Written, PayoutKinds, EntryKinds, EventKinds
    <3>3. /\ ~GivenBack(p)' /\ \A q \in Payouts : GivenBack(q)' <=> GivenBack(q)
      BY <1>5, <1>8, <3>2 DEF GivenBack, Written
    <3>4. OpenDebits(u)' = S \union {x}
      BY <1>5, <1>6, <1>8, <3>1, <3>3 DEF OpenDebits
    <3>5. Counted(S) /\ Reserved(u) = SumOf(S) /\ x \notin S
      BY <1>12, <2>1, <3>1 DEF UserPaid, OpenDebits
    <3>6. Counted(S \union {x}) /\ SumOf(S \union {x}) = SumOf(S) + x.amount
      BY <1>12, <3>5, SumGrows
    <3>7. SumOf(OpenDebits(u))' = SumOf(S \union {x})
      BY <3>4 DEF SumOf, Units
    <3>8. Counted(OpenDebits(u))'
      BY <3>4, <3>6 DEF Counted, Units
    <3>9. QED
      BY <1>7, <1>8, <2>2, <2>3, <3>5, <3>6, <3>7, <3>8
  <2>7. QED
    BY <1>14, <2>1, <2>3, <2>4, <2>5, <2>6 DEF UserPaid
<1>16. P!NoTask.op \notin {"request", "approve"}
  BY DEF P!NoTask
<1>17. /\ ledger \subseteq ledger' /\ \A y \in ledger' : y \notin ledger => \E k : y.key = <<k, p>>
  BY <1>5, <1>8
<1>18. \A v \in Users : v # u => OpenDebits(v)' = OpenDebits(v)
  BY <1>5, <1>6, <1>8, OthersDebits DEF P!Absent
<1>19. QED
  BY <1>1, <1>5, <1>6, <1>7, <1>13, <1>14, <1>15, <1>16, <1>17, <1>18, MoneyMoves

\* A request that ends: rejected or failed, it is credited back, even if it was sent;
\* sent, it is debited once more, which its approval has left room for.
LEMMA MoneyKeptByEnd ==
    ASSUME PayoutInv, MoneyInv, NEW p \in Payouts,
           NEW status, payout' = [payout EXCEPT ![p].status = status],
           NEW kind \in PayoutKinds, ~Written(kind, p),
           NEW x, ledger' = ledger \union {x}, x.key = <<kind, p>>, x.user = payout[p].user,
           \/ /\ status = "sent" /\ payout[p].status = "approved" /\ kind = "payout-sent"
              /\ x.type = "payout_sent" /\ x.amount = -payout[p].amount
           \/ /\ status = "rejected" /\ kind = "payout-rejected"
              /\ payout[p].status \in P!Active
              /\ x.type = "payout_failed" /\ x.amount = payout[p].amount
           \/ /\ status = "failed" /\ kind = "payout-batch-failed"
              /\ payout[p].status \in P!Active \union {"sent"}
              /\ x.type = "payout_failed" /\ x.amount = payout[p].amount,
           NEW a \in P!Actors, NEW t, task' = [task EXCEPT ![a] = t],
           t.op \notin {"request", "approve"}
    PROVE  MoneyInv'
<1>1. PICK u, n : u = payout[p].user /\ n = payout[p].amount
  OBVIOUS
<1>2. u \in Users /\ n \in Nat \ {0} /\ payout[p] \in RequestRow
  BY <1>1, RowsAreTyped DEF P!Active
<1>3. PICK row : row = [payout[p] EXCEPT !.status = status]
  OBVIOUS
<1>4. row \in RequestRow /\ row.user = u /\ row.amount = n /\ row.status = status
  BY <1>1, <1>2, <1>3 DEF RequestRow
<1>5. payout' = [payout EXCEPT ![p] = row] /\ payout'[p] = row
  BY <1>3 DEF PayoutInv
<1>6. x \notin ledger /\ x.amount \in Int
  BY <1>1, <1>2 DEF Written
<1>7. payout[p].status \in P!Active \union {"sent"} /\ status \in {"sent", "rejected", "failed"}
  BY DEF P!Active
<1>8. ~GivenBack(p)
  BY <1>7 DEF PayoutInv, EntriesSay, GivenBack, P!Active
<1>9. PICK d : DebitOf(p, d)
  BY <1>7 DEF MoneyInv, RequestBooked, P!Active
<1>10. kind # "payout-requested" /\ status # "absent"
  BY <1>7
<1>11. RequestBooked(p)'
  <2>1. /\ Counted(BookedOn(p))
        /\ payout[p].status \in P!Active => SumOf(BookedOn(p)) = -n
        /\ payout[p].status = "sent" => SumOf(BookedOn(p)) = -2 * n
    BY <1>1 DEF MoneyInv, RequestBooked
  <2>2. Counted(BookedOn(p))' /\ SumOf(BookedOn(p))' = SumOf(BookedOn(p)) + x.amount
    BY <1>6, <2>1, BookedOnGrows
  <2>3. /\ status = "sent" => SumOf(BookedOn(p))' = -2 * n
        /\ status = "rejected" => SumOf(BookedOn(p))' = 0
    <3>1. ASSUME status = "sent" PROVE SumOf(BookedOn(p))' = -2 * n
      <4>1. x.amount = -n /\ SumOf(BookedOn(p)) = -n
        BY <1>1, <2>1, <3>1 DEF P!Active
      <4>2. QED
        BY <1>2, <2>2, <4>1
    <3>2. ASSUME status = "rejected" PROVE SumOf(BookedOn(p))' = 0
      <4>1. x.amount = n /\ SumOf(BookedOn(p)) = -n
        BY <1>1, <2>1, <3>2
      <4>2. QED
        BY <1>2, <2>2, <4>1
    <3>3. QED
      BY <3>1, <3>2
  <2>4. status = "failed" =>
           SumOf(BookedOn(p))' = IF Written("payout-sent", p)' THEN -n ELSE 0
    <3> SUFFICES ASSUME status = "failed"
                 PROVE  SumOf(BookedOn(p))' = IF Written("payout-sent", p)' THEN -n ELSE 0
      OBVIOUS
    <3>1. x.amount = n /\ kind # "payout-sent"
      BY <1>1
    <3>2. Written("payout-sent", p)' <=> Written("payout-sent", p)
      BY <3>1 DEF Written
    <3>3. Written("payout-sent", p) <=> payout[p].status = "sent"
      BY <1>7 DEF PayoutInv, EntriesSay, P!Active
    <3>4. CASE payout[p].status = "sent"
      <4>1. SumOf(BookedOn(p))' = -n
        BY <1>2, <2>1, <2>2, <3>1, <3>4
      <4>2. QED
        BY <3>2, <3>3, <3>4, <4>1
    <3>5. CASE payout[p].status \in P!Active
      <4>1. SumOf(BookedOn(p))' = 0
        BY <1>2, <2>1, <2>2, <3>1, <3>5
      <4>2. ~Written("payout-sent", p)
        BY <3>3, <3>5 DEF P!Active
      <4>3. QED
        BY <3>2, <4>1, <4>2
    <3>6. QED
      BY <1>7, <3>4, <3>5
  <2>5. DebitOf(p, d)'
    BY <1>1, <1>4, <1>5, <1>9, <1>10 DEF DebitOf
  <2>6. QED
    BY <1>4, <1>5, <1>7, <2>2, <2>3, <2>4, <2>5 DEF RequestBooked, P!Active
<1>12. /\ \A v \in Users : v # u => TotalsMove(v)
       /\ Counted(Spendable(u))'
       /\ Credited(u)' = Credited(u) /\ TakenBack(u)' = TakenBack(u)
       /\ SentTo(u)' = SentTo(u) + Times(x.type = "payout_sent", x.amount)
       /\ Reserved(u)' = Reserved(u) + Times(x.type # "payout_sent", x.amount)
  BY <1>1, <1>2, <1>6, PayoutEntryMoves
<1>13. \A v \in Users : v # u => OpenDebits(v)' = OpenDebits(v)
  BY <1>1, OthersDebits
<1>14. UserPaid(u)
  BY <1>2 DEF MoneyInv
<1>15. /\ Credited(u) \in Int /\ TakenBack(u) \in Int /\ SentTo(u) \in Int /\ Reserved(u) \in Int
  BY <1>14, TotalsAreInt DEF UserPaid
<1>16. ASSUME NEW q \in Payouts, q # p PROVE payout'[q] = payout[q]
  BY <1>5, <1>16 DEF PayoutInv
<1>17. P!ActiveOf(u)' = P!ActiveOf(u) \ {p}
  BY <1>4, <1>5, <1>7, <1>16 DEF P!ActiveOf, P!Active
<1>18. \A q, r \in P!ActiveOf(u)' : q = r
  BY <1>14, <1>17 DEF UserPaid
<1>19. UserPaid(u)'
  <2>1. PICK S, T : S = OpenDebits(u)' /\ T = OpenDebits(u)
    OBVIOUS
  <2>2. /\ Counted(T) /\ Reserved(u) = SumOf(T)
        /\ SumOf(OpenDebits(u))' = SumOf(S) /\ (Counted(S) => Counted(OpenDebits(u))')
    BY <1>14, <2>1 DEF UserPaid, SumOf, Counted, Units
  <2>3. CASE status = "sent"
    <3>1. SentTo(u)' = SentTo(u) - n /\ Reserved(u)' = Reserved(u)
      BY <1>1, <1>2, <1>12, <1>15, <2>3 DEF Times
    <3>2. p \in P!ActiveOf(u) /\ payout[p].status = "approved" /\ kind = "payout-sent"
      BY <1>1, <2>3 DEF P!ActiveOf, P!Active
    <3>3. Credited(u) + SentTo(u) >= n
      BY <1>1, <1>14, <3>2 DEF UserPaid, Cleared
    <3>4. P!ActiveOf(u)' = {}
      BY <1>14, <1>17, <3>2 DEF UserPaid
    <3>5. S = T
      <4>1. \A q \in Payouts : GivenBack(q)' <=> GivenBack(q)
        BY <3>2 DEF GivenBack, Written
      <4>2. QED
        BY <2>1, <3>2, <4>1 DEF OpenDebits
    <3>6. Credited(u)' + SentTo(u)' >= 0
      BY <1>2, <1>12, <1>15, <3>1, <3>3
    <3>7. QED
      BY <1>12, <1>14, <1>18, <2>2, <3>1, <3>4, <3>5, <3>6 DEF UserPaid
  <2>4. CASE status \in {"rejected", "failed"}
    <3>1. SentTo(u)' = SentTo(u) /\ Reserved(u)' = Reserved(u) + n
      BY <1>1, <1>2, <1>12, <1>15, <2>4 DEF Times
    <3>2. T = S \union {d} /\ d \notin S /\ d.amount = -n
      <4>1. GivenBack(p)' /\ \A q \in Payouts : q # p => (GivenBack(q)' <=> GivenBack(q))
        BY <2>4 DEF GivenBack, Written
      <4>2. \A y \in ledger' : y.key = <<"payout-requested", p>> => y = d
        BY <1>9, <1>10 DEF DebitOf
      <4>3. d \in ledger /\ d.key = <<"payout-requested", p>> /\ d.user = u /\ d.amount = -n
        BY <1>1, <1>9 DEF DebitOf
      <4>4. \A q : d.key = <<"payout-requested", q>> => q = p
        BY <4>3
      <4>5. d \in T /\ d \notin S
        BY <1>8, <2>1, <4>1, <4>3, <4>4 DEF OpenDebits
      <4>6. ASSUME NEW y, y # d PROVE y \in S <=> y \in T
        BY <1>10, <2>1, <4>1, <4>2, <4>3, <4>6 DEF OpenDebits
      <4>7. QED
        BY <4>3, <4>5, <4>6
    <3>3. Counted(S)
      BY <2>2, <3>2, CountedPart
    <3>4. SumOf(T) = SumOf(S) + d.amount
      BY <1>2, <3>2, <3>3, SumGrows
    <3>5. Reserved(u)' = SumOf(OpenDebits(u))' /\ Counted(OpenDebits(u))'
      <4>1. SumOf(S) \in Int
        BY <3>3, SumIsInt
      <4>2. QED
        BY <1>2, <2>2, <3>1, <3>2, <3>3, <3>4, <4>1
    <3>6. ASSUME NEW q \in P!ActiveOf(u)', Cleared(q)'
          PROVE  Credited(u)' + SentTo(u)' >= payout'[q].amount
      <4>1. q \in P!ActiveOf(u) /\ q \in Payouts /\ q # p
        BY <1>17, <3>6 DEF P!ActiveOf
      <4>2. payout'[q] = payout[q]
        BY <1>16, <4>1
      <4>3. Cleared(q)
        BY <3>6, <4>2 DEF Cleared, PayoutInv
      <4>4. QED
        BY <1>12, <1>14, <3>1, <4>1, <4>2, <4>3 DEF UserPaid
    <3>7. QED
      BY <1>12, <1>14, <1>18, <3>1, <3>5, <3>6 DEF UserPaid
  <2>5. QED
    BY <1>7, <2>3, <2>4
<1>20. /\ ledger \subseteq ledger' /\ \A y \in ledger' : y \notin ledger => \E k : y.key = <<k, p>>
  OBVIOUS
<1>21. QED
  BY <1>1, <1>4, <1>5, <1>11, <1>12, <1>13, <1>19, <1>20, MoneyMoves

LEMMA SameSize == \A S : P!Cardinality(S) = Cardinality(S)
  BY DEF P!Cardinality, P!IsFiniteSet, Cardinality, IsFiniteSet

\* The balance the approval looks at counts every debit and no pending commission.
LEMMA AvailableIsCovered ==
    ASSUME NEW u, Counted(Spendable(u)), NEW n \in Nat, P!AvailableBalance(u) >= n,
           TakenBack(u) <= 0, Reserved(u) <= 0
    PROVE  Credited(u) + SentTo(u) >= n
<1>1. P!AvailableBalance(u) = Balance(u, SpendableTypes)
  <2>1. P!EntryTypes = EntryTypes
    BY DEF P!EntryTypes, EntryTypes
  <2>2. PICK S : S = {x \in ledger : x.user = u /\ x.type \in SpendableTypes}
    OBVIOUS
  <2>3. P!Units(S, 1) = Units(S, 1) /\ P!Units(S, -1) = Units(S, -1)
    BY DEF P!Units, Units
  <2>4. P!SumOf(S) = SumOf(S)
    BY <2>3, SameSize DEF P!SumOf, SumOf
  <2>5. P!AvailableBalance(u) = P!SumOf(S)
    BY <2>1, <2>2 DEF P!AvailableBalance, P!Balance, SpendableTypes
  <2>6. QED
    BY <2>2, <2>4, <2>5 DEF Balance
<1>2. PICK A, B, D, E :
        /\ A = {"commission_available"} /\ B = ClawbackTypes
        /\ D = {"payout_sent"} /\ E = {"payout_requested", "payout_failed"}
  OBVIOUS
<1>3. /\ A \subseteq SpendableTypes /\ B \subseteq SpendableTypes
      /\ D \subseteq SpendableTypes /\ E \subseteq SpendableTypes
      /\ SpendableTypes = (A \union B) \union (D \union E)
      /\ A \intersect B = {} /\ D \intersect E = {} /\ (A \union B) \intersect (D \union E) = {}
  BY <1>2 DEF SpendableTypes, EntryTypes, ClawbackTypes
<1>4. Balance(u, A \union B) = Balance(u, A) + Balance(u, B)
  BY <1>3, BalanceSplits
<1>5. Balance(u, D \union E) = Balance(u, D) + Balance(u, E)
  BY <1>3, BalanceSplits
<1>6. Balance(u, (A \union B) \union (D \union E)) = Balance(u, A \union B) + Balance(u, D \union E)
  BY <1>3, BalanceSplits
<1>7. P!AvailableBalance(u) = (Credited(u) + TakenBack(u)) + (SentTo(u) + Reserved(u))
  BY <1>1, <1>2, <1>3, <1>4, <1>5, <1>6 DEF Credited, TakenBack, SentTo, Reserved
<1>8. QED
  BY <1>7, TotalsAreInt

LEMMA MoneyKeptByReview ==
    ASSUME PayoutInv, OneReviewer, MoneyInv, NEW a \in Reviewers,
           P!CommitApprove(a) \/ P!CommitReject(a)
    PROVE  MoneyInv'
<1>1. a \in P!Actors
  BY DEF P!Actors
<1>2. PICK p : p = task[a].p
  OBVIOUS
<1>3. task[a].op \in {"approve", "reject"} /\ p \in Payouts /\ payout[p].status = "requested"
      /\ task' = [task EXCEPT ![a] = P!NoTask]
  BY <1>1, <1>2 DEF PayoutInv, TaskOK, P!CommitApprove, P!CommitReject, P!Done
<1>4. P!NoTask.op \notin {"request", "approve"}
  BY DEF P!NoTask
<1>5. CASE P!CommitReject(a)
  <2>1. PICK x : x = P!PayoutEntry("payout-rejected", p, "payout_failed", payout[p], 1)
    OBVIOUS
  <2>2. /\ P!CanWrite({x}) /\ ledger' = ledger \union {x}
        /\ payout' = [payout EXCEPT ![p].status = "rejected"]
    BY <1>2, <1>5, <2>1 DEF P!CommitReject, P!WriteEntries, P!SetStatus
  <2>3. payout[p].amount \in Nat
    BY <1>3, RowsAreTyped
  <2>4. /\ x.key = <<"payout-rejected", p>> /\ x.type = "payout_failed"
        /\ x.user = payout[p].user /\ x.amount = payout[p].amount
    BY <2>1, <2>3 DEF P!PayoutEntry, P!Entry
  <2>5. ~Written("payout-rejected", p)
    BY <2>2, <2>4 DEF P!CanWrite, Written
  <2>6. "payout-rejected" \in PayoutKinds /\ payout[p].status \in P!Active
    BY <1>3 DEF PayoutKinds, EntryKinds, EventKinds, P!Active
  <2>7. QED
    BY <1>1, <1>3, <1>4, <2>2, <2>4, <2>5, <2>6, MoneyKeptByEnd
<1>6. CASE P!CommitApprove(a)
  <2>1. payout' = [payout EXCEPT ![p].status = "approved"] /\ ledger' = ledger
        /\ task[a].op = "approve"
    BY <1>2, <1>6 DEF P!CommitApprove, P!SetStatus
  <2>2. PICK u, n : u = payout[p].user /\ n = payout[p].amount
    OBVIOUS
  <2>3. u \in Users /\ n \in Nat \ {0} /\ payout[p] \in RequestRow
    BY <1>3, <2>2, RowsAreTyped
  <2>4. PICK row : row = [payout[p] EXCEPT !.status = "approved"]
    OBVIOUS
  <2>5. row \in RequestRow /\ row.user = u /\ row.amount = n /\ row.status = "approved"
    BY <2>2, <2>3, <2>4 DEF RequestRow
  <2>6. payout' = [payout EXCEPT ![p] = row] /\ payout'[p] = row
    BY <1>3, <2>1, <2>4 DEF PayoutInv
  <2>7. RequestBooked(p)'
    <3>1. Counted(BookedOn(p)) /\ SumOf(BookedOn(p)) = -n
      BY <1>3, <2>2 DEF MoneyInv, RequestBooked, P!Active
    <3>2. BookedOn(p)' = BookedOn(p)
      BY <2>1 DEF BookedOn
    <3>3. Counted(BookedOn(p))' /\ SumOf(BookedOn(p))' = -n
      BY <3>1, <3>2 DEF Counted, SumOf, Units
    <3>4. PICK d : DebitOf(p, d)
      BY <1>3 DEF MoneyInv, RequestBooked
    <3>5. DebitOf(p, d)'
      BY <2>1, <2>2, <2>5, <2>6, <3>4 DEF DebitOf
    <3>6. QED
      BY <2>5, <2>6, <3>3, <3>5 DEF RequestBooked, P!Active
  <2>8. PICK rest : rest = {}
    OBVIOUS
  <2>9. ledger' = ledger \union rest /\ \A y \in rest : y.type = "commission_pending"
    BY <2>1, <2>8
  <2>10. ASSUME NEW v \in Users PROVE TotalsMove(v)
    <3>1. Counted(Spendable(v))
      BY DEF MoneyInv, UserPaid
    <3>2. QED
      BY <2>9, <3>1, TotalsKept, TotalsAreInt DEF TotalsMove
  <2>11. UserPaid(u)'
    <3>1. UserPaid(u) /\ TotalsMove(u)
      BY <2>3, <2>10 DEF MoneyInv
    <3>2. ASSUME NEW q \in Payouts, q # p PROVE payout'[q] = payout[q]
      BY <2>6, <3>2 DEF PayoutInv
    <3>3. P!ActiveOf(u)' = P!ActiveOf(u)
      BY <1>3, <2>2, <2>5, <2>6, <3>2 DEF P!ActiveOf, P!Active
    <3>4. ASSUME NEW q \in P!ActiveOf(u)
          PROVE  /\ payout'[q].amount = payout[q].amount /\ payout[q].amount \in Int
                 /\ Cleared(q)' => Cleared(q)
      <4>1. q \in Payouts /\ payout[q].status # "absent"
        BY <3>4 DEF P!ActiveOf, P!Active
      <4>2. payout'[q].amount = payout[q].amount /\ payout[q].amount \in Int
        BY <2>2, <2>5, <2>6, <3>2, <4>1, RowsAreTyped
      <4>3. ASSUME Cleared(q)' PROVE Cleared(q)
        <5>1. CASE q = p
          BY <1>1, <1>2, <2>1, <5>1 DEF Cleared
        <5>2. CASE q # p
          BY <1>3, <1>4, <3>2, <4>1, <4>3, <5>2 DEF PayoutInv, Cleared
        <5>3. QED
          BY <5>1, <5>2
      <4>4. QED
        BY <4>2, <4>3
    <3>5. OpenDebits(u)' = OpenDebits(u)
      BY <2>1 DEF OpenDebits, GivenBack, Written
    <3>6. QED
      BY <3>1, <3>3, <3>4, <3>5, UserPaidKept
  <2>12. /\ ledger \subseteq ledger' /\ \A y \in ledger' : y \notin ledger => \E k : y.key = <<k, p>>
    BY <2>1
  <2>13. \A v \in Users : OpenDebits(v)' = OpenDebits(v)
    BY <2>1 DEF OpenDebits, GivenBack, Written
  <2>14. QED
    BY <1>1, <1>3, <1>4, <2>2, <2>5, <2>6, <2>7, <2>10, <2>11, <2>12, <2>13, MoneyMoves
<1>7. QED
  BY <1>5, <1>6

LEMMA MoneyKeptByPayment ==
    ASSUME PayoutInv, MoneyInv, NEW b \in Runners,
           P!SendPayout(b) \/ P!RecoverPayout(b)
    PROVE  MoneyInv'
<1>1. b \in P!Actors
  BY DEF P!Actors
<1>2. PICK p : p = task[b].p
  OBVIOUS
<1>3. PICK t : task' = [task EXCEPT ![b] = t] /\ t.op \notin {"request", "approve"}
  <2>1. PICK t1, t2 : /\ t1 = [op |-> "open", todo |-> task[b].todo]
                      /\ t2 = [op |-> "recovering", p |-> p, todo |-> task[b].todo]
    OBVIOUS
  <2>2. task' = [task EXCEPT ![b] = t1] \/ task' = [task EXCEPT ![b] = t2]
    BY <1>2, <2>1 DEF P!SendPayout, P!RecoverPayout, P!Proceed, P!Step
  <2>3. t1.op = "open" /\ t2.op = "recovering"
    BY <2>1
  <2>4. QED
    BY <2>2, <2>3
<1>4. /\ p \in Payouts /\ payout[p].status \in Dispatched
      /\ task[b].op = "sending" => payout[p].status = "approved"
  BY <1>1, <1>2 DEF PayoutInv, TaskOK, P!SendPayout, P!RecoverPayout
<1>5. payout[p].status # "absent"
  BY <1>4 DEF Dispatched
<1>6. payout[p].amount \in Nat
  BY <1>4, <1>5, RowsAreTyped
<1>7. "payout-sent" \in PayoutKinds /\ "payout-batch-failed" \in PayoutKinds
  BY DEF PayoutKinds, EntryKinds, EventKinds
<1>8. CASE P!SendPayout(b)
  <2>1. PICK x : x = P!PayoutEntry("payout-sent", p, "payout_sent", payout[p], -1)
    OBVIOUS
  <2>2. /\ P!CanWrite({x}) /\ ledger' = ledger \union {x}
        /\ payout' = [payout EXCEPT ![p].status = "sent"] /\ task[b].op = "sending"
    BY <1>2, <1>8, <2>1 DEF P!SendPayout, P!WriteEntries, P!SetStatus
  <2>3. /\ x.key = <<"payout-sent", p>> /\ x.type = "payout_sent"
        /\ x.user = payout[p].user /\ x.amount = -payout[p].amount
    BY <1>6, <2>1 DEF P!PayoutEntry, P!Entry
  <2>4. ~Written("payout-sent", p)
    BY <2>2, <2>3 DEF P!CanWrite, Written
  <2>5. QED
    BY <1>1, <1>3, <1>4, <1>7, <2>2, <2>3, <2>4, MoneyKeptByEnd
<1>9. CASE P!RecoverPayout(b)
  <2>1. PICK x : x = P!PayoutEntry("payout-batch-failed", p, "payout_failed", payout[p], 1)
    OBVIOUS
  <2>2. /\ P!CanWrite({x}) /\ ledger' = ledger \union {x}
        /\ payout' = [payout EXCEPT ![p].status = "failed"]
    BY <1>2, <1>9, <2>1 DEF P!RecoverPayout, P!WriteEntries, P!SetStatus
  <2>3. /\ x.key = <<"payout-batch-failed", p>> /\ x.type = "payout_failed"
        /\ x.user = payout[p].user /\ x.amount = payout[p].amount
    BY <1>6, <2>1 DEF P!PayoutEntry, P!Entry
  <2>4. ~Written("payout-batch-failed", p)
    BY <2>2, <2>3 DEF P!CanWrite, Written
  <2>5. payout[p].status \in P!Active \union {"sent"}
    BY <1>4, <2>4 DEF PayoutInv, EntriesSay, Dispatched, P!Active
  <2>6. QED
    BY <1>1, <1>3, <1>4, <1>7, <2>2, <2>3, <2>4, <2>5, MoneyKeptByEnd
<1>10. QED
  BY <1>8, <1>9

\* The steps of calls that change no request and write nothing.
LEMMA MoneyKeptByReading ==
    ASSUME PayoutInv, MoneyInv, payout' = payout, ledger' = ledger,
           \A a \in P!Actors :
              \/ task'[a] = task[a]
              \/ Asked(task'[a]) /\ (task'[a].op = "approve" => Covered(task'[a].p))
    PROVE  MoneyInv'
<1>1. PICK rest : rest = {}
  OBVIOUS
<1>2. ledger' = ledger \union rest /\ \A y \in rest : y.type = "commission_pending"
  BY <1>1
<1>3. ASSUME NEW u \in Users PROVE TotalsMove(u)
  <2>1. Counted(Spendable(u))
    BY DEF MoneyInv, UserPaid
  <2>2. QED
    BY <1>2, <2>1, TotalsKept, TotalsAreInt DEF TotalsMove
<1>4. QED
  BY <1>3, MoneyKept

LEMMA MoneyKeptByPayouts ==
    ASSUME OneReviewer, PayoutInv, MoneyInv, P!PayoutNext
    PROVE  MoneyInv'
<1>1. ASSUME payout' = payout, ledger' = ledger, NEW a \in P!Actors,
             NEW t, task' = [task EXCEPT ![a] = t], t.op \notin {"request", "approve"}
      PROVE  MoneyInv'
  <2>1. task'[a] = t /\ \A b \in P!Actors : b # a => task'[b] = task[b]
    BY <1>1 DEF PayoutInv
  <2>2. Asked(task'[a]) /\ task'[a].op # "approve"
    BY <1>1, <2>1 DEF Asked
  <2>3. QED
    BY <1>1, <2>1, <2>2, MoneyKeptByReading
<1>2. ASSUME NEW a \in Requesters, NEW p \in Payouts, NEW u \in Users, NEW n \in PayoutAmounts,
             P!BeginRequest(a, p, u, n)
      PROVE  MoneyInv'
  <2>1. PICK t : t = [op |-> "request", p |-> p, user |-> u, amount |-> n]
    OBVIOUS
  <2>2. task' = [task EXCEPT ![a] = t] /\ payout' = payout /\ ledger' = ledger
    BY <1>2, <2>1 DEF P!BeginRequest
  <2>3. task'[a] = t /\ \A b \in P!Actors : b # a => task'[b] = task[b]
    BY <2>2 DEF PayoutInv, P!Actors
  <2>4. Asked(task'[a]) /\ task'[a].op # "approve"
    BY <1>2, <2>1, <2>3 DEF Asked
  <2>5. QED
    BY <2>2, <2>3, <2>4, MoneyKeptByReading
<1>3. ASSUME NEW a \in Reviewers, NEW p \in Payouts, P!BeginApprove(a, p) PROVE MoneyInv'
  <2>1. PICK t : t = [op |-> "approve", p |-> p, todo |-> {}]
    OBVIOUS
  <2>2. /\ task' = [task EXCEPT ![a] = t] /\ payout' = payout /\ ledger' = ledger
        /\ payout[p].status = "requested"
        /\ P!AvailableBalance(payout[p].user) >= payout[p].amount
    BY <1>3, <2>1 DEF P!BeginApprove, P!Review
  <2>3. task'[a] = t /\ \A b \in P!Actors : b # a => task'[b] = task[b]
    BY <2>2 DEF PayoutInv, P!Actors
  <2>4. PICK u, n : u = payout[p].user /\ n = payout[p].amount
    OBVIOUS
  <2>5. u \in Users /\ n \in Nat \ {0}
    BY <2>2, <2>4, RowsAreTyped
  <2>6. UserPaid(u) /\ p \in P!ActiveOf(u)
    BY <2>2, <2>4, <2>5 DEF MoneyInv, P!ActiveOf, P!Active
  <2>7. Counted(Spendable(u)) /\ TakenBack(u) <= 0
    BY <2>6 DEF UserPaid
  <2>8. Reserved(u) <= 0
    BY <2>5, ReservedFalls
  <2>9. Credited(u) + SentTo(u) >= n
    BY <2>2, <2>4, <2>5, <2>7, <2>8, AvailableIsCovered
  <2>10. Covered(p) /\ t.p = p /\ t.op = "approve"
    BY <2>1, <2>4, <2>9 DEF Covered
  <2>11. Asked(task'[a]) /\ Covered(task'[a].p)
    BY <2>3, <2>10 DEF Asked
  <2>12. QED
    BY <2>2, <2>3, <2>11, MoneyKeptByReading
<1>4. ASSUME NEW a \in Reviewers, NEW p \in Payouts, P!BeginReject(a, p) PROVE MoneyInv'
  <2>1. PICK t : t = [op |-> "reject", p |-> p, todo |-> {}]
    OBVIOUS
  <2>2. /\ task' = [task EXCEPT ![a] = t] /\ payout' = payout /\ ledger' = ledger
        /\ t.op = "reject"
    BY <1>4, <2>1 DEF P!BeginReject, P!Review
  <2>3. QED
    BY <1>1, <2>2 DEF P!Actors
<1>5. ASSUME NEW b \in Runners,
             \/ P!ListApproved(b) \/ P!OpenBatch(b) \/ P!SendFails(b) \/ P!RecoveryFails(b)
             \/ \E p \in Payouts : P!TakePayout(b, p) \/ P!SkipPayout(b, p) \/ P!ReadFails(b, p)
      PROVE  MoneyInv'
  <2>1. payout' = payout /\ ledger' = ledger
    BY <1>5 DEF P!ListApproved, P!OpenBatch, P!SendFails, P!RecoveryFails, P!TakePayout,
                P!SkipPayout, P!ReadFails
  <2>2. \E op \in {"listed", "open", "sending", "recovering"} :
           \E p, todo : P!Proceed(b, op, todo) \/ P!Step(b, op, p, todo)
    <3>1. CASE P!ListApproved(b)
      BY <3>1 DEF P!ListApproved
    <3>2. CASE P!OpenBatch(b)
      BY <3>2 DEF P!OpenBatch
    <3>3. CASE P!SendFails(b)
      BY <3>3 DEF P!SendFails
    <3>4. CASE P!RecoveryFails(b)
      BY <3>4 DEF P!RecoveryFails
    <3>5. CASE \E p \in Payouts : P!TakePayout(b, p) \/ P!SkipPayout(b, p) \/ P!ReadFails(b, p)
      BY <3>5 DEF P!TakePayout, P!SkipPayout, P!ReadFails
    <3>6. QED
      BY <1>5, <3>1, <3>2, <3>3, <3>4, <3>5
  <2>3. \E t : task' = [task EXCEPT ![b] = t] /\ t.op \in {"listed", "open", "sending", "recovering"}
    <3>1. ASSUME NEW op, NEW todo, P!Proceed(b, op, todo)
          PROVE  \E t : task' = [task EXCEPT ![b] = t] /\ t.op = op
      <4>1. PICK t : t = [op |-> op, todo |-> todo]
        OBVIOUS
      <4>2. t.op = op /\ task' = [task EXCEPT ![b] = t]
        BY <3>1, <4>1 DEF P!Proceed
      <4>3. QED
        BY <4>2
    <3>2. ASSUME NEW op, NEW p, NEW todo, P!Step(b, op, p, todo)
          PROVE  \E t : task' = [task EXCEPT ![b] = t] /\ t.op = op
      <4>1. PICK t : t = [op |-> op, p |-> p, todo |-> todo]
        OBVIOUS
      <4>2. t.op = op /\ task' = [task EXCEPT ![b] = t]
        BY <3>2, <4>1 DEF P!Step
      <4>3. QED
        BY <4>2
    <3>3. QED
      BY <2>2, <3>1, <3>2
  <2>4. QED
    BY <1>1, <2>1, <2>3 DEF P!Actors
<1>6. ASSUME NEW a \in P!Actors, P!GiveUp(a) \/ (a \in Runners /\ P!CloseBatch(a)) PROVE MoneyInv'
  <2>1. /\ payout' = payout /\ ledger' = ledger /\ task' = [task EXCEPT ![a] = P!NoTask]
    BY <1>6 DEF P!GiveUp, P!CloseBatch, P!Done
  <2>2. P!NoTask.op = "none"
    BY DEF P!NoTask
  <2>3. QED
    BY <1>1, <2>1, <2>2
<1>7. ASSUME NEW u \in Users, P!PlaceHold(u) \/ P!ReleaseHold(u) PROVE MoneyInv'
  BY <1>7, MoneyKeptByReading DEF P!PlaceHold, P!ReleaseHold
<1>8. ASSUME NEW b \in Runners, P!CloseBatch(b) PROVE MoneyInv'
  BY <1>6, <1>8 DEF P!Actors
<1>9. QED
  BY <1>2, <1>3, <1>4, <1>5, <1>6, <1>7, <1>8, MoneyKeptByRequest, MoneyKeptByReview,
     MoneyKeptByPayment
     DEF P!PayoutNext

LEMMA MoneyStep ==
    OneReviewer /\ ReleaseInv /\ BookedInv /\ PayoutInv /\ MoneyInv /\ [Next]_vars => MoneyInv'
<1> SUFFICES ASSUME OneReviewer, ReleaseInv, BookedInv, PayoutInv, MoneyInv, [Next]_vars
             PROVE  MoneyInv'
  OBVIOUS
<1>1. CASE UNCHANGED vars
  BY <1>1, MoneyKeptByReading DEF vars, payoutVars
<1>2. CASE C!CommissionNext /\ UNCHANGED payoutVars
  <2>1. \A u \in Users : TotalsMove(u)
    BY <1>2, CommissionMovesTotals DEF MoneyInv, UserPaid
  <2>2. GrowsBy(EventKinds)
    BY <1>2, CommissionWrites
  <2>3. /\ ledger \subseteq ledger'
        /\ \A x \in ledger' : x \notin ledger =>
              \A p \in Payouts : \A k \in PayoutKinds : x.key # <<k, p>>
    BY <2>2 DEF GrowsBy, PayoutKinds
  <2>4. QED
    BY <1>2, <2>1, <2>3, MoneyKept DEF payoutVars
<1>3. CASE P!PayoutNext
  BY <1>3, MoneyKeptByPayouts
<1>4. QED
  BY <1>1, <1>2, <1>3 DEF Next

LEMMA EarningsInvStep ==
    OneReviewer /\ ReleaseInv /\ BookedInv /\ PayoutInv /\ MoneyInv /\ [Next]_vars
        => ReleaseInv' /\ BookedInv' /\ PayoutInv' /\ MoneyInv'
  BY ReleaseStep, BookedStep, PayoutInvStep, MoneyStep

\* Whatever requests, approvals, batches, recoveries, releases and clawbacks run beside
\* one reviewer, and wherever they stop: what was sent to a user never exceeds the
\* commissions that were released to them (PayoutService.createPayoutRequest,
\* approvePayoutRequest, executeBatch, LedgerService.getAvailableBalance).
THEOREM NobodyIsOverpaid ==
    ASSUME OneReviewer
    PROVE  Spec => []PaidFromEarnings
<1>1. MoneyInv => PaidFromEarnings
  <2> SUFFICES ASSUME MoneyInv, NEW u \in Users
               PROVE  Balance(u, {"payout_sent"}) + Balance(u, {"commission_available"}) >= 0
    BY DEF PaidFromEarnings
  <2>1. UserPaid(u)
    BY DEF MoneyInv
  <2>2. Credited(u) \in Int /\ SentTo(u) \in Int /\ Credited(u) + SentTo(u) >= 0
    BY <2>1, TotalsAreInt DEF UserPaid
  <2>3. QED
    BY <2>2 DEF Credited, SentTo
<1>2. ReleaseInv /\ BookedInv /\ PayoutInv /\ MoneyInv /\ [Next]_vars
          => ReleaseInv' /\ BookedInv' /\ PayoutInv' /\ MoneyInv'
  BY EarningsInvStep
<1>3. QED
  BY <1>1, <1>2, ReleaseInit, BookedInit, PayoutInvInit, MoneyInit, PTL DEF Spec

\* A request holds exactly its amount while it is open, twice the amount once it is
\* sent, and nothing once it was rejected or its batch failed; one that counts as
\* failed although its transaction had committed stays debited once - with one
\* reviewer, however often batches have listed it
\* (PayoutService.rejectPayoutRequest, executeBatch).
THEOREM RequestsHoldTheirAmount ==
    ASSUME OneReviewer
    PROVE  Spec => []RequestsBooked
<1>1. MoneyInv => RequestsBooked
  <2> SUFFICES ASSUME MoneyInv, NEW p \in Payouts, payout[p] # P!Absent
               PROVE  SumOf(BookedOn(p)) =
                         CASE payout[p].status \in P!Active -> -payout[p].amount
                           [] payout[p].status = "rejected" -> 0
                           [] payout[p].status = "sent" -> -2 * payout[p].amount
                           [] payout[p].status = "failed" ->
                                 IF Written("payout-sent", p) THEN -payout[p].amount ELSE 0
    BY DEF RequestsBooked
  <2>1. RequestBooked(p)
    BY DEF MoneyInv
  <2>2. payout[p].status \in P!Active \union {"rejected", "sent", "failed"}
    BY <2>1 DEF RequestBooked, RequestRow, P!Active
  <2>3. QED
    BY <2>1, <2>2 DEF RequestBooked, P!Active
<1>2. ReleaseInv /\ BookedInv /\ PayoutInv /\ MoneyInv /\ [Next]_vars
          => ReleaseInv' /\ BookedInv' /\ PayoutInv' /\ MoneyInv'
  BY EarningsInvStep
<1>3. QED
  BY <1>1, <1>2, ReleaseInit, BookedInit, PayoutInvInit, MoneyInit, PTL DEF Spec
==============================================================================
