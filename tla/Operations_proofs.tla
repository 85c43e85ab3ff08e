-------------------------- MODULE Operations_proofs --------------------------
(***************************************************************************)
(* What TLAPS proves of policy versions and replays, for every number of   *)
(* administrators, queues, users, versions and dead letters.               *)
(*                                                                         *)
(*   PolicyStays      Spec => NeverWithoutPolicy                           *)
(*   OverlapNeeded    Spec => SecondActiveNeedsOverlap                     *)
(*   ReplaysQueued    Spec => []ReplayedWasQueued                          *)
(*                                                                         *)
(* All three rest on what a request remembers between its steps: the row   *)
(* numbers it has read are rows of the tables, and one that is about to    *)
(* mark an event has put a job into a queue for it.                        *)
(***************************************************************************)
EXTENDS Operations, FiniteSetTheorems, TLAPS

Requests == Admins \union Others

\* The rows exist, and have the fields that are updated.
TablesOK ==
    /\ DOMAIN policy = Versions
    /\ \A v \in Versions : "status" \in DOMAIN policy[v]
    /\ DOMAIN dead = 1..MaxDead
    /\ \A e \in 1..MaxDead : /\ {"replayed", "jobs"} \subseteq DOMAIN dead[e]
                             /\ dead[e].jobs \in Nat

\* c: what a request remembers.
PolicyRead(c) ==
    /\ c.pc \in {"create", "find", "activate"} => c.v \in Versions
    /\ c.pc = "activate" => c.found \in Versions \union {NoVersion}

ReplayRead(c) ==
    /\ c.pc \in {"replay", "mark"} => c.e \in 1..MaxDead
    /\ c.pc = "mark" => dead[c.e].jobs > 0

RequestsOK ==
    /\ DOMAIN req = Requests
    /\ \A a \in Requests : PolicyRead(req[a]) /\ ReplayRead(req[a])

OpsInv == TablesOK /\ RequestsOK /\ ReplayedWasQueued

(***************************************************************************)
(* How the steps change the three variables                                *)
(***************************************************************************)

\* Only the requests of administrators write policy versions.
LEMMA PolicyWriters ==
    ASSUME [Next]_vars
    PROVE  policy' = policy \/ \E a \in Admins : CreateDraft(a) \/ CommitActivation(a)
<1>1. ASSUME NEW a \in Admins, AdminStep(a)
      PROVE  policy' = policy \/ CreateDraft(a) \/ CommitActivation(a)
  BY <1>1 DEF AdminStep, PolicyStep, BeginCreate, ReadDraft, FindActive, GiveUp, StartReplay,
     AddReplay, MarkReplayed, BeginRecalculate, RecalcStep, ReadState, EvaluateUser, AllEvaluated,
     RecalculationThrows, EndRecalculation, BeginDecision, Suspend, Restore, policyVars
<1>2. ASSUME NEW q \in Queues, QueueStep(q) \/ WorkFails(q) \/ DeadLetterRefused(q) PROVE policy' = policy
  BY <1>2 DEF QueueStep, WorkFails, DeadLetterRefused, Schedule, StartRun, WorkSucceeds, CompleteJob, FailJob,
     OnFailed, BeginJob, RecalcStep, ReadState, EvaluateUser, AllEvaluated, RecalculationThrows,
     EndRecalculation, policyVars
<1>3. ASSUME Crash PROVE policy' = policy
  BY <1>3 DEF Crash
<1>4. ASSUME UNCHANGED vars PROVE policy' = policy
  BY <1>4 DEF vars, policyVars
<1> QED
  BY <1>1, <1>2, <1>3, <1>4 DEF Next

\* A request takes one step: it remembers nothing, or what a step of policies or
\* replays reads, or something else of no interest here.
Remembers(x) ==
    \/ x.pc \in {"idle", "users", "save", "suspend", "restore"}
    \/ x.pc = "create" /\ x.v \in Versions
    \/ x.pc = "find" /\ x.v \in Versions
    \/ x.pc = "replay" /\ x.e \in 1..MaxDead

Harmless ==
    /\ policy' = policy /\ dead' = dead
    /\ \/ req' = req
       \/ req' = [a \in DOMAIN req |-> Idle]
       \/ \E a \in Requests : \E x : Remembers(x) /\ req' = [req EXCEPT ![a] = x]

LEMMA HarmlessSteps ==
    ASSUME OpsInv, Harmless
    PROVE  OpsInv'
<1>1. TablesOK' /\ ReplayedWasQueued'
  BY DEF OpsInv, Harmless, TablesOK, ReplayedWasQueued
<1>2. DOMAIN req' = Requests
  BY DEF OpsInv, Harmless, RequestsOK
<1>3. ASSUME NEW b \in Requests PROVE (PolicyRead(req[b]) /\ ReplayRead(req[b]))'
  <2>1. CASE req' = req
    BY <1>3, <2>1 DEF OpsInv, Harmless, RequestsOK, PolicyRead, ReplayRead
  <2>2. CASE req' = [a \in DOMAIN req |-> Idle]
    <3>1. req'[b] = Idle
      BY <1>3, <2>2 DEF OpsInv, RequestsOK
    <3> QED
      BY <3>1 DEF Idle, PolicyRead, ReplayRead
  <2>3. ASSUME NEW a \in Requests, NEW x, Remembers(x), req' = [req EXCEPT ![a] = x]
        PROVE  (PolicyRead(req[b]) /\ ReplayRead(req[b]))'
    <3>1. CASE b = a
      <4>1. req'[b] = x
        BY <3>1, <2>3 DEF OpsInv, RequestsOK
      <4> QED
        BY <4>1, <2>3 DEF Remembers, PolicyRead, ReplayRead
    <3>2. CASE b # a
      <4>1. req'[b] = req[b] /\ dead' = dead
        BY <3>2, <2>3 DEF OpsInv, RequestsOK, Harmless
      <4> QED
        BY <4>1 DEF OpsInv, RequestsOK, PolicyRead, ReplayRead
    <3> QED
      BY <3>1, <3>2
  <2> QED
    BY <2>1, <2>2, <2>3 DEF Harmless
<1> QED
  BY <1>1, <1>2, <1>3 DEF OpsInv, RequestsOK

LEMMA RecalcHarmless ==
    ASSUME NEW r \in Requests, RecalcStep(r)
    PROVE  Harmless
<1>1. CASE ReadState(r)
  <2> DEFINE x == [pc |-> "save", v |-> req[r].v, todo |-> Tail(req[r].todo),
                   u |-> Head(req[r].todo), seen |-> qual[Head(req[r].todo)]]
  <2>1. Remembers(x)
    BY DEF Remembers
  <2>2. req' = [req EXCEPT ![r] = x] /\ policy' = policy /\ dead' = dead
    BY <1>1 DEF ReadState, Goto
  <2> HIDE DEF x
  <2> QED
    BY <2>1, <2>2 DEF Harmless
<1>2. CASE EvaluateUser(r)
  <2> DEFINE x == [pc |-> "users", v |-> req[r].v, todo |-> req[r].todo]
  <2>1. Remembers(x)
    BY DEF Remembers
  <2>2. req' = [req EXCEPT ![r] = x] /\ policy' = policy /\ dead' = dead
    BY <1>2 DEF EvaluateUser, Goto
  <2> HIDE DEF x
  <2> QED
    BY <2>1, <2>2 DEF Harmless
<1>3. CASE AllEvaluated(r) \/ RecalculationThrows(r)
  <2>1. Remembers(Idle)
    BY DEF Remembers, Idle
  <2>2. req' = [req EXCEPT ![r] = Idle] /\ policy' = policy /\ dead' = dead
    BY <1>3 DEF AllEvaluated, RecalculationThrows, EndRecalculation, Finish, Goto
  <2> QED
    BY <2>1, <2>2 DEF Harmless
<1> QED
  BY <1>1, <1>2, <1>3 DEF RecalcStep

\* Steps of an administrator, other than the five that do more.
LEMMA AdminsHarmless ==
    ASSUME OpsInv, NEW a \in Admins, AdminStep(a)
    PROVE  \/ Harmless
           \/ CreateDraft(a) \/ FindActive(a) \/ CommitActivation(a)
           \/ AddReplay(a) \/ MarkReplayed(a)
<1>0. a \in Requests
  BY DEF Requests
<1>1. ASSUME NEW d \in Drafts, BeginCreate(a, d), UNCHANGED dead PROVE Harmless
  <2> DEFINE x == [pc |-> "create", v |-> NextVersionNumber, content |-> d]
  <2>1. Remembers(x)
    BY <1>1 DEF BeginCreate, Remembers
  <2> QED
    BY <1>0, <1>1, <2>1 DEF BeginCreate, Goto, Harmless
<1>2. ASSUME NEW v \in Versions, ReadDraft(a, v), UNCHANGED dead PROVE Harmless
  <2>1. Remembers([pc |-> "find", v |-> v])
    BY DEF Remembers
  <2> QED
    BY <1>0, <1>2, <2>1 DEF ReadDraft, Goto, Harmless
<1>3. Remembers(Idle)
  BY DEF Remembers, Idle
<1>4. ASSUME GiveUp(a), UNCHANGED dead PROVE Harmless
  BY <1>0, <1>3, <1>4 DEF GiveUp, Finish, Goto, Harmless
<1>5. ASSUME NEW e \in 1..MaxDead, StartReplay(a, e) PROVE Harmless
  <2>1. Remembers([pc |-> "replay", e |-> e])
    BY DEF Remembers
  <2> QED
    BY <1>0, <1>5, <2>1 DEF StartReplay, Goto, Harmless
<1>6. ASSUME NEW v, NEW us, BeginRecalculate(a, v, us) PROVE Harmless
  <2>1. Remembers([pc |-> "users", v |-> v, todo |-> us])
    BY DEF Remembers
  <2> QED
    BY <1>0, <1>6, <2>1 DEF BeginRecalculate, Goto, Harmless
<1>7. ASSUME NEW op \in {"suspend", "restore"}, NEW u, BeginDecision(a, op, u) PROVE Harmless
  <2>1. Remembers([pc |-> op, u |-> u, seen |-> qual[u]])
    BY DEF Remembers
  <2> QED
    BY <1>0, <1>7, <2>1 DEF BeginDecision, Goto, Harmless
<1>8. ASSUME Suspend(a) \/ Restore(a) PROVE Harmless
  BY <1>0, <1>3, <1>8 DEF Suspend, Restore, Finish, Goto, Harmless
<1>9. ASSUME RecalcStep(a) PROVE Harmless
  BY <1>0, <1>9, RecalcHarmless
<1> QED
  BY <1>1, <1>2, <1>4, <1>5, <1>6, <1>7, <1>8, <1>9 DEF AdminStep, PolicyStep

\* What the server does by itself, other than writing a dead letter.
LEMMA ServerHarmless ==
    ASSUME OpsInv, OperationsAssumption,
           (\E q \in Queues : QueueStep(q) \/ WorkFails(q) \/ DeadLetterRefused(q)) \/ Crash \/ UNCHANGED vars
    PROVE  Harmless \/ \E q \in Queues : OnFailed(q)
<1>1. Worker \in Requests
  BY DEF OperationsAssumption, Requests
<1>2. Remembers(Idle)
  BY DEF Remembers, Idle
<1>3. ASSUME NEW q \in Queues, QueueStep(q) PROVE Harmless \/ OnFailed(q)
  <2>1. CASE Schedule(q) \/ StartRun(q) \/ WorkSucceeds(q) \/ CompleteJob(q) \/ FailJob(q)
    BY <2>1 DEF Schedule, StartRun, WorkSucceeds, CompleteJob, FailJob, Harmless, policyVars
  <2>2. CASE BeginJob
    <3>1. PICK v \in CurrentPolicy :
             IF v = NoVersion
             THEN EndRun(Recalc, "completed") /\ UNCHANGED req
             ELSE Goto(Worker, [pc |-> "users", v |-> v, todo |-> Users]) /\ UNCHANGED job
      BY <2>2 DEF BeginJob
    <3>2. Remembers([pc |-> "users", v |-> v, todo |-> Users])
      BY DEF Remembers
    <3>3. policy' = policy /\ dead' = dead
      BY <2>2 DEF BeginJob
    <3> QED
      BY <1>1, <3>1, <3>2, <3>3 DEF Goto, Harmless
  <2>3. CASE RecalcStep(Worker)
    BY <1>1, <2>3, RecalcHarmless
  <2> QED
    BY <1>3, <2>1, <2>2, <2>3 DEF QueueStep
<1>4. ASSUME NEW q \in Queues, WorkFails(q) \/ DeadLetterRefused(q) PROVE Harmless
  BY <1>1, <1>2, <1>4 DEF WorkFails, DeadLetterRefused, Harmless, policyVars
<1>5. ASSUME Crash PROVE Harmless
  BY <1>5 DEF Crash, Harmless
<1>6. ASSUME UNCHANGED vars PROVE Harmless
  BY <1>6 DEF vars, policyVars, Harmless
<1> QED
  BY <1>3, <1>4, <1>5, <1>6

(***************************************************************************)
(* The six other steps                                                     *)
(***************************************************************************)

\* A dead letter is written where there was none, so that no request knows it.
LEMMA DeadLetterKeeps ==
    ASSUME OpsInv, NEW q \in Queues, OnFailed(q)
    PROVE  OpsInv'
<1>1. policy' = policy /\ req' = req
  BY DEF OnFailed, policyVars
<1>2. CASE dead' = dead
  BY <1>1, <1>2, HarmlessSteps DEF Harmless
<1>3. ASSUME NEW e \in 1..MaxDead, dead[e] = NoEvent, dead' = [dead EXCEPT ![e] = NewEvent(q)]
      PROVE  OpsInv'
  <2>1. NewEvent(q).jobs = 0 /\ {"replayed", "jobs"} \subseteq DOMAIN NewEvent(q)
        /\ NewEvent(q).replayed = FALSE
    BY DEF NewEvent
  <2>2. DOMAIN dead' = 1..MaxDead
        /\ \A d \in 1..MaxDead : dead'[d] = IF d = e THEN NewEvent(q) ELSE dead[d]
    BY <1>3 DEF OpsInv, TablesOK
  <2>3. dead[e].jobs = 0
    BY <1>3 DEF NoEvent
  <2>4. TablesOK'
    BY <1>1, <2>1, <2>2 DEF OpsInv, TablesOK
  <2>5. ReplayedWasQueued'
    BY <2>1, <2>2 DEF OpsInv, TablesOK, ReplayedWasQueued
  <2>6. RequestsOK'
    BY <1>1, <2>2, <2>3 DEF OpsInv, RequestsOK, PolicyRead, ReplayRead
  <2> QED
    BY <2>4, <2>5, <2>6 DEF OpsInv
<1> QED
  BY <1>2, <1>3 DEF OnFailed

\* The other requests, when request a remembers x and the events stay as they
\* are or only gain jobs.
LEMMA OthersKeep ==
    ASSUME OpsInv, NEW a \in Requests, NEW x, req' = [req EXCEPT ![a] = x],
           PolicyRead(x), ReplayRead(x)',
           \A e \in 1..MaxDead : dead[e].jobs > 0 => dead'[e].jobs > 0
    PROVE  RequestsOK'
<1>1. DOMAIN req' = Requests /\ \A b \in Requests : req'[b] = IF b = a THEN x ELSE req[b]
  BY DEF OpsInv, RequestsOK
<1>2. ASSUME NEW b \in Requests PROVE (PolicyRead(req[b]) /\ ReplayRead(req[b]))'
  <2>1. CASE b = a
    BY <1>1, <2>1 DEF PolicyRead, ReplayRead
  <2>2. CASE b # a
    <3>1. req'[b] = req[b]
      BY <1>1, <2>2
    <3> QED
      BY <3>1 DEF OpsInv, RequestsOK, PolicyRead, ReplayRead
  <2> QED
    BY <2>1, <2>2
<1> QED
  BY <1>1, <1>2 DEF RequestsOK

LEMMA FindActiveKeeps ==
    ASSUME OpsInv, NEW a \in Admins, FindActive(a), UNCHANGED dead
    PROVE  OpsInv'
<1>1. PICK found \in IF Active = {} THEN {NoVersion} ELSE Active :
         req' = [req EXCEPT ![a] = [pc |-> "activate", v |-> req[a].v, found |-> found]]
  BY DEF FindActive, Goto
<1>2. a \in Requests /\ req[a].v \in Versions /\ found \in Versions \union {NoVersion}
  BY DEF FindActive, At, Active, OpsInv, RequestsOK, PolicyRead, Requests
<1>3. PICK x : x = [pc |-> "activate", v |-> req[a].v, found |-> found]
  OBVIOUS
<1>4. PolicyRead(x) /\ ReplayRead(x)' /\ req' = [req EXCEPT ![a] = x]
  BY <1>1, <1>2, <1>3 DEF PolicyRead, ReplayRead
<1>5. RequestsOK'
  BY <1>2, <1>4, OthersKeep
<1>6. policy' = policy
  BY DEF FindActive
<1> QED
  BY <1>5, <1>6 DEF OpsInv, TablesOK, ReplayedWasQueued

LEMMA IdleRead == PolicyRead(Idle) /\ ReplayRead(Idle)'
BY DEF PolicyRead, ReplayRead, Idle

\* What the two steps that write policy versions do to the versions in force.
LEMMA CreateDraftWrites ==
    ASSUME OpsInv, NEW a \in Admins, CreateDraft(a)
    PROVE  /\ Active' = Active
           /\ DOMAIN policy' = Versions
           /\ \A v \in Versions : "status" \in DOMAIN policy'[v]
           /\ req' = [req EXCEPT ![a] = Idle] /\ a \in Requests
<1> DEFINE n == req[a].v
           x == [status |-> "draft", content |-> req[a].content]
<1>1. /\ a \in Requests /\ n \in Versions /\ policy[n] = NoRow
      /\ policy' = [policy EXCEPT ![n] = x]
      /\ req' = [req EXCEPT ![a] = Idle]
  BY DEF CreateDraft, At, Finish, Goto, OpsInv, RequestsOK, PolicyRead, Requests
<1>2. x.status = "draft" /\ "status" \in DOMAIN x
  OBVIOUS
<1> HIDE DEF n, x
<1>3. DOMAIN policy' = Versions
      /\ \A v \in Versions : policy'[v] = IF v = n THEN x ELSE policy[v]
  BY <1>1 DEF OpsInv, TablesOK
<1>4. policy[n].status = "none"
  BY <1>1 DEF NoRow
<1> QED
  BY <1>1, <1>2, <1>3, <1>4 DEF OpsInv, TablesOK, Active

LEMMA ActivationWrites ==
    ASSUME OpsInv, NEW a \in Admins, CommitActivation(a)
    PROVE  /\ req[a].v \in Versions
           /\ Active' = (Active \ {req[a].found}) \union {req[a].v}
           /\ DOMAIN policy' = Versions
           /\ \A v \in Versions : "status" \in DOMAIN policy'[v]
           /\ req' = [req EXCEPT ![a] = Idle] /\ a \in Requests
<1> DEFINE n == req[a].v
           f == req[a].found
           archived == Archive(policy, f)
<1>1. /\ a \in Requests /\ n \in Versions /\ f \in Versions \union {NoVersion}
      /\ policy' = [archived EXCEPT ![n].status = "active"]
      /\ req' = [req EXCEPT ![a] = Idle]
  BY DEF CommitActivation, Activated, At, Finish, Goto, OpsInv, RequestsOK, PolicyRead, Requests
<1>2. NoVersion \notin Versions
  BY DEF NoVersion, Versions
<1>3. /\ DOMAIN archived = Versions
      /\ \A v \in Versions :
            /\ "status" \in DOMAIN archived[v]
            /\ archived[v].status = IF v = f THEN "archived" ELSE policy[v].status
  <2>1. CASE f = NoVersion
    BY <1>2, <2>1 DEF Archive, OpsInv, TablesOK
  <2>2. CASE f # NoVersion
    <3>1. f \in Versions /\ archived = [policy EXCEPT ![f].status = "archived"]
      BY <1>1, <2>2 DEF Archive
    <3> QED
      BY <3>1 DEF OpsInv, TablesOK
  <2> QED
    BY <2>1, <2>2
<1> HIDE DEF n, f, archived
<1>4. /\ DOMAIN policy' = Versions
      /\ \A v \in Versions :
            /\ "status" \in DOMAIN policy'[v]
            /\ policy'[v].status = IF v = n THEN "active" ELSE archived[v].status
  BY <1>1, <1>3
<1>5. Active' = (Active \ {f}) \union {n}
  BY <1>1, <1>3, <1>4 DEF Active
<1> QED
  BY <1>1, <1>4, <1>5 DEF n, f

LEMMA PolicyWriteKeeps ==
    ASSUME OpsInv, NEW a \in Admins, CreateDraft(a) \/ CommitActivation(a), UNCHANGED dead
    PROVE  OpsInv'
<1>1. /\ DOMAIN policy' = Versions
      /\ \A v \in Versions : "status" \in DOMAIN policy'[v]
      /\ req' = [req EXCEPT ![a] = Idle] /\ a \in Requests
  BY CreateDraftWrites, ActivationWrites
<1>2. RequestsOK'
  <2>1. PICK x : x = Idle
    OBVIOUS
  <2>2. PolicyRead(x) /\ ReplayRead(x)'
    BY <2>1 DEF PolicyRead, ReplayRead, Idle
  <2> QED
    BY <1>1, <2>1, <2>2, OthersKeep
<1>3. TablesOK' /\ ReplayedWasQueued'
  BY <1>1 DEF OpsInv, TablesOK, ReplayedWasQueued
<1> QED
  BY <1>2, <1>3 DEF OpsInv

LEMMA AddReplayKeeps ==
    ASSUME OpsInv, NEW a \in Admins, AddReplay(a)
    PROVE  OpsInv'
<1> DEFINE e == req[a].e
<1>1. a \in Requests /\ e \in 1..MaxDead /\ policy' = policy
  BY DEF AddReplay, At, OpsInv, RequestsOK, ReplayRead, Requests
<1>2. PICK x : x = [pc |-> "mark", e |-> e]
  OBVIOUS
<1>3. dead' = [dead EXCEPT ![e].jobs = @ + 1] /\ req' = [req EXCEPT ![a] = x]
  BY <1>2 DEF AddReplay, Goto
<1>5. PICK k : k = e
  OBVIOUS
<1>6. /\ DOMAIN dead' = 1..MaxDead
      /\ \A d \in 1..MaxDead :
            /\ {"replayed", "jobs"} \subseteq DOMAIN dead'[d]
            /\ dead'[d].replayed = dead[d].replayed
            /\ dead'[d].jobs = IF d = k THEN dead[d].jobs + 1 ELSE dead[d].jobs
  BY <1>1, <1>3, <1>5 DEF OpsInv, TablesOK
<1>7. TablesOK' /\ ReplayedWasQueued' /\ dead'[k].jobs > 0
  BY <1>1, <1>5, <1>6 DEF OpsInv, TablesOK, ReplayedWasQueued
<1>8. PolicyRead(x) /\ ReplayRead(x)'
  BY <1>1, <1>2, <1>5, <1>7 DEF PolicyRead, ReplayRead
<1>9. RequestsOK'
  <2>1. \A d \in 1..MaxDead : dead[d].jobs > 0 => dead'[d].jobs > 0
    BY <1>6 DEF OpsInv, TablesOK
  <2> QED
    BY <1>1, <1>3, <1>8, <2>1, OthersKeep
<1> QED
  BY <1>7, <1>9 DEF OpsInv

LEMMA MarkReplayedKeeps ==
    ASSUME OpsInv, NEW a \in Admins, MarkReplayed(a)
    PROVE  OpsInv'
<1>1. PICK k : k = req[a].e
  OBVIOUS
<1>2. a \in Requests /\ k \in 1..MaxDead /\ dead[k].jobs > 0 /\ policy' = policy
  BY <1>1 DEF MarkReplayed, At, OpsInv, RequestsOK, ReplayRead, Requests
<1>3. dead' = [dead EXCEPT ![k].replayed = TRUE] /\ req' = [req EXCEPT ![a] = Idle]
  BY <1>1 DEF MarkReplayed, Finish, Goto
<1>4. /\ DOMAIN dead' = 1..MaxDead
      /\ \A d \in 1..MaxDead :
            /\ {"replayed", "jobs"} \subseteq DOMAIN dead'[d]
            /\ dead'[d].jobs = dead[d].jobs
            /\ d # k => dead'[d].replayed = dead[d].replayed
  BY <1>2, <1>3 DEF OpsInv, TablesOK
<1>5. TablesOK' /\ ReplayedWasQueued'
  BY <1>2, <1>4 DEF OpsInv, TablesOK, ReplayedWasQueued
<1>6. RequestsOK'
  <2>1. PICK x : x = Idle
    OBVIOUS
  <2>2. PolicyRead(x) /\ ReplayRead(x)'
    BY <2>1 DEF PolicyRead, ReplayRead, Idle
  <2> QED
    BY <1>2, <1>3, <1>4, <2>1, <2>2, OthersKeep
<1> QED
  BY <1>5, <1>6 DEF OpsInv

(***************************************************************************)
(* The theorems                                                            *)
(***************************************************************************)
LEMMA OpsInvInit ==
    ASSUME Init, PolicyAssumption, OperationsAssumption
    PROVE  OpsInv
<1>1. DOMAIN policy = Versions /\ \A v \in Versions : "status" \in DOMAIN policy[v]
  <2>1. policy \in [Versions -> PolicyVersion \union {NoRow}]
    BY DEF Init, PolicyInit, PolicyAssumption
  <2>2. \A r \in PolicyVersion \union {NoRow} : "status" \in DOMAIN r
    BY DEF PolicyVersion, NoRow
  <2> QED
    BY <2>1, <2>2
<1>2. /\ DOMAIN dead = 1..MaxDead
      /\ \A e \in 1..MaxDead : dead[e] = NewEvent(FirstDead) \/ dead[e] = NoEvent
  BY DEF Init
<1>3. \A d : d = NewEvent(FirstDead) \/ d = NoEvent =>
         {"replayed", "jobs"} \subseteq DOMAIN d /\ d.jobs \in Nat /\ d.replayed = FALSE
  BY DEF NewEvent, NoEvent
<1>4. DOMAIN req = Requests /\ \A a \in Requests : req[a].pc = "idle"
  BY DEF Init, PolicyInit, Requests, Idle
<1>5. RequestsOK
  BY <1>4 DEF RequestsOK, PolicyRead, ReplayRead
<1> QED
  BY <1>1, <1>2, <1>3, <1>5 DEF OpsInv, TablesOK, ReplayedWasQueued

LEMMA OpsInvStep ==
    ASSUME OpsInv, OperationsAssumption, [Next]_vars
    PROVE  OpsInv'
<1>1. ASSUME NEW a \in Admins, AdminStep(a) PROVE OpsInv'
  <2>1. CASE Harmless
    BY <2>1, HarmlessSteps
  <2>2. CASE AddReplay(a) \/ MarkReplayed(a)
    BY <2>2, AddReplayKeeps, MarkReplayedKeeps
  <2>3. CASE CreateDraft(a) \/ FindActive(a) \/ CommitActivation(a)
    <3>1. At(a, "create") \/ At(a, "find") \/ At(a, "activate")
      BY <2>3 DEF CreateDraft, FindActive, CommitActivation
    <3>2. UNCHANGED dead
      BY <1>1, <3>1 DEF AdminStep, PolicyStep, StartReplay, AddReplay, MarkReplayed, At, BeginRecalculate,
         RecalcStep, ReadState, EvaluateUser, AllEvaluated, RecalculationThrows, EndRecalculation,
         BeginDecision, Suspend, Restore
    <3> QED
      BY <2>3, <3>2, FindActiveKeeps, PolicyWriteKeeps
  <2> QED
    BY <1>1, <2>1, <2>2, <2>3, AdminsHarmless
<1>2. CASE (\E q \in Queues : QueueStep(q) \/ WorkFails(q) \/ DeadLetterRefused(q)) \/ Crash \/ UNCHANGED vars
  BY <1>2, ServerHarmless, HarmlessSteps, DeadLetterKeeps
<1> QED
  BY <1>1, <1>2 DEF Next

LEMMA OpsInvariant == Spec => []OpsInv
<1>1. Init => OpsInv
  BY OpsInvInit, PolicyAssumption, OperationsAssumption
<1>2. OpsInv /\ [Next]_vars => OpsInv'
  BY OpsInvStep, OperationsAssumption
<1> QED
  BY <1>1, <1>2, PTL DEF Spec

\* An event marked as replayed was put back into its queue, whatever crashed
\* between the two, for any number of administrators replaying it.
THEOREM ReplaysQueued == Spec => []ReplayedWasQueued
<1>1. OpsInv => ReplayedWasQueued
  BY DEF OpsInv
<1> QED
  BY <1>1, OpsInvariant, PTL

\* Once a version is in force there always is one: an activation puts its own
\* version in force in the transaction that archives another.
THEOREM PolicyStays == Spec => NeverWithoutPolicy
<1>1. ASSUME OpsInv, [Next]_vars PROVE [Active # {} => Active' # {}]_policyVars
  <2>1. CASE policy' = policy
    BY <2>1 DEF Active
  <2>2. ASSUME NEW a \in Admins, CreateDraft(a) PROVE Active' = Active
    BY <1>1, <2>2, CreateDraftWrites
  <2>3. ASSUME NEW a \in Admins, CommitActivation(a) PROVE Active' # {}
    BY <1>1, <2>3, ActivationWrites
  <2> QED
    BY <1>1, <2>1, <2>2, <2>3, PolicyWriters
<1> QED
  BY <1>1, OpsInvariant, PTL DEF Spec, NeverWithoutPolicy

LEMMA OneMore ==
    ASSUME NEW S, IsFiniteSet(S), NEW x
    PROVE  Cardinality(S \union {x}) <= Cardinality(S) + 1
<1>1. Cardinality(S) \in Nat
  BY FS_CardinalityType
<1>2. CASE x \in S
  <2>1. S \union {x} = S
    BY <1>2
  <2>2. Cardinality(S) <= Cardinality(S) + 1
    BY <1>1
  <2> QED
    BY <2>1, <2>2
<1>3. CASE x \notin S
  <2>1. Cardinality(S \union {x}) = Cardinality(S) + 1
    BY <1>3, FS_AddElement
  <2>2. Cardinality(S) + 1 <= Cardinality(S) + 1
    BY <1>1
  <2> QED
    BY <2>1, <2>2
<1> QED
  BY <1>2, <1>3

\* A second version in force comes only of an activation whose version found in
\* force no longer was, because another activation overlapped it.
THEOREM OverlapNeeded == Spec => SecondActiveNeedsOverlap
<1> DEFINE Grows == Cardinality(Active') > 1 =>
              \/ Cardinality(Active') <= Cardinality(Active)
              \/ \E a \in Admins : At(a, "activate") /\ req'[a] = Idle /\ req[a].found \notin Active
<1>1. ASSUME OpsInv, [Next]_vars PROVE [Grows]_policyVars
  <2>1. IsFiniteSet(Active) /\ Cardinality(Active) \in Nat
    <3>1. IsFiniteSet(Versions)
      BY FS_Interval, PolicyAssumption DEF Versions
    <3> QED
      BY <3>1, FS_Subset, FS_CardinalityType DEF Active
  <2>2. CASE Active' = Active
    BY <2>1, <2>2
  <2>3. ASSUME NEW a \in Admins, CommitActivation(a) PROVE Grows
    <3>1. /\ req[a].v \in Versions
          /\ Active' = (Active \ {req[a].found}) \union {req[a].v}
          /\ req' = [req EXCEPT ![a] = Idle] /\ a \in Requests
      BY <1>1, <2>3, ActivationWrites
    <3>2. CASE req[a].found \notin Active
      BY <1>1, <2>3, <3>1, <3>2 DEF CommitActivation, OpsInv, RequestsOK
    <3>3. CASE req[a].found \in Active
      <4> DEFINE rest == Active \ {req[a].found}
      <4>1. IsFiniteSet(rest) /\ Cardinality(rest) = Cardinality(Active) - 1
        BY <2>1, <3>3, FS_RemoveElement
      <4>2. Cardinality(rest \union {req[a].v}) <= Cardinality(rest) + 1
        BY <4>1, OneMore
      <4>3. Cardinality(Active') <= Cardinality(Active)
        BY <2>1, <3>1, <4>1, <4>2
      <4> QED
        BY <4>3
    <3> QED
      BY <3>2, <3>3
  <2>4. ASSUME NEW a \in Admins, CreateDraft(a) PROVE Active' = Active
    BY <1>1, <2>4, CreateDraftWrites
  <2>5. ASSUME policy' = policy PROVE Active' = Active
    BY <2>5 DEF Active
  <2> QED
    BY <1>1, <2>2, <2>3, <2>4, <2>5, PolicyWriters
<1> QED
  BY <1>1, OpsInvariant, PTL DEF Spec, SecondActiveNeedsOverlap
=============================================================================
