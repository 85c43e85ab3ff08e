------------------------------ MODULE Operations ------------------------------
(***************************************************************************)
(* The scheduled jobs: crons put a job into its queue, a processor runs it *)
(* and records the run, a job that keeps failing becomes a dead letter,    *)
(* and an administrator replays it.  The work of most jobs is in other     *)
(* modules; the one done here is the recalculation of qualifications under *)
(* the policy in force, beside administrators who activate policies,       *)
(* suspend and restore users and start recalculations of their own.        *)
(*                                                                         *)
(* One server process runs everything.  The queues are Bull's, in Redis.   *)
(***************************************************************************)
EXTENDS Policy

CONSTANTS
    Queues,       \* the queues looked at
    FirstDead,    \* the queue whose job is a dead letter at the start
    Users,        \* user ids, as the query of all users returns them: a sequence
    Named,        \* bound: users an administrator's request may name
    Qualifying,   \* pairs <<u, v>>: u meets the mandatory rules of version v
    Attempts,     \* attempts of a job (3)
    MaxStalled,   \* how often Bull hands out a job whose process died (1)
    MaxDead,      \* bound: rows of dead_letter_events
    MaxEvents     \* bound: requests of administrators, failures and crashes

None == "none"
Worker == "worker"    \* the processor of the queue qualification-recalc
Recalc == "qualification-recalc"

ASSUME OperationsAssumption ==
    /\ Others = {Worker} /\ {Recalc, FirstDead} \subseteq Queues
    /\ Named \subseteq ToSet(Users) /\ Qualifying \subseteq ToSet(Users) \X Versions
    /\ Attempts \in Nat \ {0} /\ MaxStalled \in Nat
    /\ MaxDead \in Nat \ {0} /\ MaxEvents \in Nat

VARIABLES
    job,       \* the job in each queue; a bound, but a processor takes one at a time
    dead,      \* dead_letter_events
    qual,      \* qualification_states, one row per user
    events     \* how many requests, failures and crashes there were

vars == <<policyVars, job, dead, qual, events>>

JobRun == {None, "running", "completed", "failed"}

\* kept: the listener of the failure wrote a dead letter; lost: it found attempts left
\* and wrote none; unsaved: the database refused it; cut: the process died before it.
Job == [state: {None, "waiting", "active", "completed", "failed", "kept", "lost", "unsaved", "cut"},
        run: JobRun, made: 0..Attempts, stalls: 0..MaxStalled]
NoJob == [state |-> None, run |-> None, made |-> 0, stalls |-> 0]
Fresh(state) == [NoJob EXCEPT !.state = state]

\* jobs: history, how many jobs replays of the event have added.
DeadLetterEvent == [queue: Queues, replayable: BOOLEAN, replayed: BOOLEAN, jobs: Nat]
NoEvent == [queue |-> None, replayable |-> FALSE, replayed |-> FALSE, jobs |-> 0]

\* suspended: there is a disqualified_reason.
QualificationState == [active: BOOLEAN, policy: Versions \union {NoVersion}, suspended: BOOLEAN]
NoState == [active |-> FALSE, policy |-> -1, suspended |-> FALSE]

(***************************************************************************)
(* The processors.  Each records its run around one call of its job, and   *)
(* they differ in that job and in what they write about one that is given  *)
(* up.                                                                     *)
(***************************************************************************)
CommissionOutboxProcessor  == [queue |-> "commission-outbox", replayable |-> TRUE]
CommissionReleaseProcessor == [queue |-> "commission-release", replayable |-> TRUE]
ReservationExpiryProcessor == [queue |-> "reservation-expiry", replayable |-> TRUE]
DisputeEscalationProcessor == [queue |-> "dispute-escalation", replayable |-> TRUE]
FraudAggregationProcessor  == [queue |-> "fraud-aggregation", replayable |-> TRUE]
HoldPropagationProcessor   == [queue |-> "hold-propagation", replayable |-> FALSE]
ReturnEligibilityProcessor == [queue |-> "return-eligibility", replayable |-> FALSE]
QualificationProcessor     == [queue |-> Recalc, replayable |-> TRUE]

Processors ==
    {CommissionOutboxProcessor, CommissionReleaseProcessor, ReservationExpiryProcessor,
     DisputeEscalationProcessor, FraudAggregationProcessor, HoldPropagationProcessor,
     ReturnEligibilityProcessor, QualificationProcessor}

Replayable(q) == \E p \in Processors : p.queue = q /\ p.replayable

\* getQueueByName: the queues a replay can reach.
QueueByName ==
    {"commission-release", "reservation-expiry", "dispute-escalation",
     "fraud-aggregation", "hold-propagation", "return-eligibility"}

NewEvent(q) == [queue |-> q, replayable |-> Replayable(q), replayed |-> FALSE, jobs |-> 0]

\* There is a dead letter from earlier.
Init ==
    /\ PolicyInit
    /\ job = [q \in Queues |-> NoJob]
    /\ dead = [e \in 1..MaxDead |-> IF e = 1 THEN NewEvent(FirstDead) ELSE NoEvent]
    /\ qual = [u \in ToSet(Users) |-> NoState]
    /\ events = 0

Spend == events < MaxEvents /\ events' = events + 1

InState(q, state) == job[q].state = state
Running(q) == InState(q, "active") /\ job[q].run = "running"
EndRun(q, outcome) == job' = [job EXCEPT ![q].run = outcome]

(***************************************************************************)
(* Queue and processor                                                     *)
(***************************************************************************)
Ended == {None, "completed", "kept", "lost", "unsaved", "cut"}

Schedule(q) ==
    /\ job[q].state \in Ended
    /\ job' = [job EXCEPT ![q] = Fresh("waiting")]
    /\ UNCHANGED <<policyVars, dead, qual, events>>

StartRun(q) ==
    /\ InState(q, "waiting")
    /\ job' = [job EXCEPT ![q].state = "active", ![q].run = "running"]
    /\ UNCHANGED <<policyVars, dead, qual, events>>

\* The jobs of the other queues.
WorkSucceeds(q) ==
    /\ q # Recalc /\ Running(q)
    /\ EndRun(q, "completed")
    /\ UNCHANGED <<policyVars, dead, qual, events>>

WorkFails(q) ==
    /\ Running(q)
    /\ EndRun(q, "failed")
    /\ req' = IF q = Recalc THEN [req EXCEPT ![Worker] = Idle] ELSE req
    /\ Spend
    /\ UNCHANGED <<policy, dead, qual>>

CompleteJob(q) ==
    /\ InState(q, "active") /\ job[q].run = "completed"
    /\ job' = [job EXCEPT ![q] = Fresh("completed")]
    /\ UNCHANGED <<policyVars, dead, qual, events>>

\* Back to the queue after a while, or failed for good: then the listener runs.
FailJob(q) ==
    /\ InState(q, "active") /\ job[q].run = "failed"
    /\ job' = [job EXCEPT ![q].made = @ + 1,
                          ![q].state = IF job[q].made + 1 < Attempts THEN "waiting" ELSE "failed"]
    /\ UNCHANGED <<policyVars, dead, qual, events>>

\* Mutant of LastAttempt
LastAttemptBeyond(made) == made > Attempts

LastAttempt(made) == made >= Attempts

OnFailed(q) ==
    /\ InState(q, "failed")
    /\ IF LastAttempt(job[q].made)
       THEN \E e \in 1..MaxDead :
              /\ dead[e] = NoEvent /\ \A d \in 1..(e - 1) : dead[d] # NoEvent
              /\ dead' = [dead EXCEPT ![e] = NewEvent(q)]
              /\ job' = [job EXCEPT ![q] = Fresh("kept")]
       ELSE job' = [job EXCEPT ![q].state = "lost"] /\ UNCHANGED dead
    /\ UNCHANGED <<policyVars, qual, events>>

\* Saving the dead letter fails.  Nobody awaits the listener: its rejection is logged,
\* the process lives on, and Bull does not call it again.
DeadLetterRefused(q) ==
    /\ InState(q, "failed") /\ LastAttempt(job[q].made)
    /\ job' = [job EXCEPT ![q] = Fresh("unsaved")]
    /\ Spend
    /\ UNCHANGED <<policyVars, dead, qual>>

\* The process dies.  After the restart Bull finds its active jobs stalled and
\* hands them out again; one that stalls too often it fails, attempts left or not.
Crash ==
    /\ req' = [a \in DOMAIN req |-> Idle]
    /\ job' = [q \in Queues |->
         IF InState(q, "active") /\ job[q].stalls < MaxStalled
         THEN [job[q] EXCEPT !.state = "waiting", !.stalls = @ + 1]
         ELSE IF InState(q, "active") THEN [job[q] EXCEPT !.state = "failed"]
         ELSE IF InState(q, "failed") THEN Fresh("cut")
         ELSE job[q]]
    /\ Spend
    /\ UNCHANGED <<policy, dead, qual>>

(***************************************************************************)
(* Replaying a dead letter                                                 *)
(***************************************************************************)
StartReplayMarking(a, e) ==    \* mutant: marked before it is queued
    /\ Free(a) /\ dead[e].replayable /\ ~dead[e].replayed
    /\ dead[e].queue \in QueueByName
    /\ dead' = [dead EXCEPT ![e].replayed = TRUE]
    /\ Goto(a, [pc |-> "replay", e |-> e])
    /\ Spend
    /\ UNCHANGED <<policy, job, qual>>

StartReplay(a, e) ==
    /\ Free(a) /\ dead[e].replayable /\ ~dead[e].replayed
    /\ dead[e].queue \in QueueByName
    /\ Goto(a, [pc |-> "replay", e |-> e])
    /\ Spend
    /\ UNCHANGED <<policy, job, dead, qual>>

AddReplay(a) ==
    LET q == dead[req[a].e].queue IN
    /\ At(a, "replay")
    /\ job[q].state \in Ended
    /\ job' = [job EXCEPT ![q] = Fresh("waiting")]
    /\ dead' = [dead EXCEPT ![req[a].e].jobs = @ + 1]
    /\ Goto(a, [pc |-> "mark", e |-> req[a].e])
    /\ UNCHANGED <<policy, qual, events>>

MarkReplayed(a) ==
    /\ At(a, "mark")
    /\ dead' = [dead EXCEPT ![req[a].e].replayed = TRUE]
    /\ Finish(a)
    /\ UNCHANGED <<policy, job, qual, events>>

(***************************************************************************)
(* Recalculating qualifications: the scheduled job under the version in    *)
(* force, an administrator's request under the version it names, for all   *)
(* users or for one.  The graph rebuilt first is that of Sponsorship.      *)
(***************************************************************************)
\* getCurrentActivePolicy
CurrentPolicy == IF Active = {} THEN {NoVersion} ELSE Active

BeginJob ==
    /\ Running(Recalc) /\ Free(Worker)
    /\ \E v \in CurrentPolicy :
          IF v = NoVersion
          THEN EndRun(Recalc, "completed") /\ UNCHANGED req
          ELSE Goto(Worker, [pc |-> "users", v |-> v, todo |-> Users]) /\ UNCHANGED job
    /\ UNCHANGED <<policy, dead, qual, events>>

BeginRecalculate(a, v, us) ==
    /\ Free(a) /\ policy[v] # NoRow
    /\ Goto(a, [pc |-> "users", v |-> v, todo |-> us])
    /\ Spend
    /\ UNCHANGED <<policy, job, dead, qual>>

ReadState(r) ==
    LET c == req[r] IN
    /\ At(r, "users") /\ c.todo # <<>>
    /\ Goto(r, [pc |-> "save", v |-> c.v, todo |-> Tail(c.todo), u |-> Head(c.todo), seen |-> qual[Head(c.todo)]])
    /\ UNCHANGED <<policy, job, dead, qual, events>>

\* Inserting a row for a user who has one by now is refused.
Refused(r) == req[r].seen = NoState /\ qual[req[r].u] # NoState

\* Mutant of Evaluated: a suspended user is passed over.
EvaluatedUnlessSuspended(u, v, seen) ==
    IF seen # NoState /\ seen.suspended
    THEN seen
    ELSE [active |-> <<u, v>> \in Qualifying, suspended |-> FALSE, policy |-> v]

Evaluated(u, v, seen) ==
    [active |-> <<u, v>> \in Qualifying, suspended |-> seen.suspended, policy |-> v]

\* evaluateUser: the whole row is saved, a disqualified_reason as it was read.
EvaluateUser(r) ==
    LET c == req[r] IN
    /\ At(r, "save") /\ ~Refused(r)
    /\ qual' = [qual EXCEPT ![c.u] = Evaluated(c.u, c.v, c.seen)]
    /\ Goto(r, [pc |-> "users", v |-> c.v, todo |-> c.todo])
    /\ UNCHANGED <<policy, job, dead, events>>

EndRecalculation(r, outcome) ==
    /\ Finish(r)
    /\ IF r = Worker THEN EndRun(Recalc, outcome) ELSE UNCHANGED job
    /\ UNCHANGED <<policy, dead, qual, events>>

AllEvaluated(r) ==
    /\ At(r, "users") /\ req[r].todo = <<>>
    /\ EndRecalculation(r, "completed")

RecalculationThrows(r) ==
    /\ At(r, "save") /\ Refused(r)
    /\ EndRecalculation(r, "failed")

RecalcStep(r) == ReadState(r) \/ EvaluateUser(r) \/ AllEvaluated(r) \/ RecalculationThrows(r)

(***************************************************************************)
(* suspendUserQualification, restoreUserQualification                      *)
(***************************************************************************)
BeginDecision(a, op, u) ==
    /\ Free(a)
    /\ op = "restore" => qual[u] # NoState
    /\ Goto(a, [pc |-> op, u |-> u, seen |-> qual[u]])
    /\ Spend
    /\ UNCHANGED <<policy, job, dead, qual>>

Suspend(a) ==
    LET seen == req[a].seen IN
    /\ At(a, "suspend") /\ ~Refused(a)
    /\ qual' = [qual EXCEPT ![req[a].u] =
                   [active |-> FALSE, suspended |-> TRUE,
                    policy |-> IF seen = NoState THEN NoVersion ELSE seen.policy]]
    /\ Finish(a)
    /\ UNCHANGED <<policy, job, dead, events>>

Restore(a) ==
    /\ At(a, "restore")
    /\ qual' = [qual EXCEPT ![req[a].u] =
                   [active |-> TRUE, suspended |-> FALSE, policy |-> req[a].seen.policy]]
    /\ Finish(a)
    /\ UNCHANGED <<policy, job, dead, events>>

-----------------------------------------------------------------------------
\* Requests of module Policy; those that begin one are counted.
PolicyStep(a) ==
    /\ \/ \E d \in Drafts : BeginCreate(a, d) /\ Spend
       \/ \E v \in Versions : ReadDraft(a, v) /\ Spend
       \/ (CreateDraft(a) \/ FindActive(a) \/ CommitActivation(a) \/ GiveUp(a)) /\ UNCHANGED events
    /\ UNCHANGED <<job, dead, qual>>

AdminStep(a) ==
    \/ PolicyStep(a)
    \/ \E e \in 1..MaxDead : StartReplay(a, e)
    \/ AddReplay(a) \/ MarkReplayed(a)
    \/ \E v \in Versions : \E us \in {Users} \union {<<u>> : u \in Named} : BeginRecalculate(a, v, us)
    \/ RecalcStep(a)
    \/ \E op \in {"suspend", "restore"}, u \in Named : BeginDecision(a, op, u)
    \/ Suspend(a) \/ Restore(a)

\* What the server does by itself.
QueueStep(q) ==
    \/ Schedule(q) \/ StartRun(q) \/ WorkSucceeds(q)
    \/ CompleteJob(q) \/ FailJob(q) \/ OnFailed(q)
    \/ q = Recalc /\ (BeginJob \/ RecalcStep(Worker))

Next ==
    \/ \E a \in Admins : AdminStep(a)
    \/ \E q \in Queues : QueueStep(q) \/ WorkFails(q) \/ DeadLetterRefused(q)
    \/ Crash

Spec == Init /\ [][Next]_vars

\* The crons fire and the processors run on; administrators need not.
FairSpec == Spec /\ \A q \in Queues : WF_vars(QueueStep(q))

(***************************************************************************)
(* Properties                                                              *)
(***************************************************************************)
TypeOK ==
    /\ policy \in [Versions -> PolicyVersion \union {NoRow}]
    /\ job \in [Queues -> Job]
    /\ \A e \in DOMAIN dead : dead[e] = NoEvent \/ dead[e] \in DeadLetterEvent
    /\ \A u \in ToSet(Users) : qual[u] = NoState \/ qual[u] \in QualificationState

\* Every queued job comes to an end.  One that failed in all its attempts ends as a
\* dead letter, unless the process dies or the database refuses the row at that very
\* point; the listener itself passes over a failed job only when it had stalled too
\* often with attempts left.
JobsEnd ==
    /\ [][\A q \in Queues :
             InState(q, "failed") /\ ~InState(q, "failed")' =>
                \/ \E e \in DOMAIN dead : dead[e] = NoEvent /\ dead'[e] = NewEvent(q)
                \/ DeadLetterRefused(q) \/ Crash
                \/ job[q].made < Attempts /\ job[q].stalls = MaxStalled]_vars
    /\ \A q \in Queues :
          InState(q, "waiting") ~> job[q].state \in Ended \ {None}

\* An event marked as replayed was put back into its queue, at whatever point
\* the process died: a replay may happen twice, but is never only recorded.
ReplayedWasQueued == \A e \in DOMAIN dead : dead[e].replayed => dead[e].jobs > 0

\* When one version stays the only one in force, every user ends up evaluated under
\* it, and active exactly if they meet its rules, whatever recalculations under other
\* versions, suspensions and restorations overlapped: a suspension, or the restoration
\* of a user who does not qualify, does not outlast the next recalculation.
EvaluatedUnderPolicy ==
    \A v \in Versions :
        <>[](Active = {v}) =>
            <>[](\A u \in ToSet(Users) :
                    /\ qual[u] # NoState
                    /\ qual[u].policy = v
                    /\ qual[u].active <=> <<u, v>> \in Qualifying)
==============================================================================
