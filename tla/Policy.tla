-------------------------------- MODULE Policy --------------------------------
(***************************************************************************)
(* Versions of the compensation policy (AdminPolicyService): drafts are    *)
(* created, validated and activated; activating one archives the version   *)
(* in force.  Only the second half of an activation is a transaction, and  *)
(* nothing in the table limits the number of active rows.                  *)
(***************************************************************************)
EXTENDS Integers, SequencesExt

CONSTANTS
    Admins,         \* administrators, one request of each at a time
    Others,         \* further holders of a request, see module Operations
    MaxVersion,     \* bound: versions ever created
    Drafts,         \* contents a draft is created with
    StartPolicies   \* tables the database may hold at the start

VARIABLES
    policy,    \* compensation_policy_versions, by version number
    req        \* what each request has read

policyVars == <<policy, req>>

Versions == 1..MaxVersion
NoVersion == 0

\* percentages: of the commission rules, in tenths; disclosures: how many.
Draft == [percentages: Seq(Int), disclosures: Nat]
PolicyVersion == [status: {"draft", "active", "archived"}, content: Drafts]
NoRow == [status |-> "none"]

ASSUME PolicyAssumption ==
    /\ MaxVersion \in Nat
    /\ Drafts \subseteq Draft
    /\ StartPolicies \subseteq [Versions -> PolicyVersion \union {NoRow}]

Idle == [pc |-> "idle"]
Free(a) == req[a] = Idle
At(a, pc) == req[a].pc = pc
Goto(a, record) == req' = [req EXCEPT ![a] = record]
Finish(a) == Goto(a, Idle)

Stored == {v \in Versions : policy[v] # NoRow}
Active == {v \in Versions : policy[v].status = "active"}

PolicyInit ==
    /\ policy \in StartPolicies
    /\ req = [a \in Admins \union Others |-> Idle]

(***************************************************************************)
(* createDraft                                                             *)
(***************************************************************************)
\* MAX(version) + 1
NextVersionNumber == IF Stored = {} THEN 1 ELSE Max(Stored) + 1

BeginCreate(a, d) ==
    /\ Free(a) /\ NextVersionNumber \in Versions
    /\ Goto(a, [pc |-> "create", v |-> NextVersionNumber, content |-> d])
    /\ UNCHANGED policy

\* The version is unique: of two drafts with one number the second is refused.
CreateDraft(a) ==
    /\ At(a, "create")
    /\ policy[req[a].v] = NoRow
    /\ policy' = [policy EXCEPT ![req[a].v] = [status |-> "draft", content |-> req[a].content]]
    /\ Finish(a)

(***************************************************************************)
(* activateDraft                                                           *)
(***************************************************************************)
\* validateDraft: no error.
Valid(d) ==
    /\ d.disclosures > 0
    /\ \A i \in DOMAIN d.percentages : d.percentages[i] >= 0
    /\ FoldSeq(+, 0, d.percentages) <= 10

ReadDraft(a, v) ==
    /\ Free(a)
    /\ policy[v].status = "draft"
    /\ Valid(policy[v].content)
    /\ Goto(a, [pc |-> "find", v |-> v])
    /\ UNCHANGED policy

\* The transaction looks for the version in force; of several it gets any one.
FindActive(a) ==
    /\ At(a, "find")
    /\ \E found \in IF Active = {} THEN {NoVersion} ELSE Active :
          Goto(a, [pc |-> "activate", v |-> req[a].v, found |-> found])
    /\ UNCHANGED policy

Archive(table, v) == IF v = NoVersion THEN table ELSE [table EXCEPT ![v].status = "archived"]

\* Mutant of Activated: the draft is saved before the old version is archived.
ActivatedThenArchived(v, found) == Archive([policy EXCEPT ![v].status = "active"], found)

\* Mutant of Activated: the version before the draft is taken for the one in force.
ActivatedAfterPrevious(v, found) == [Archive(policy, v - 1) EXCEPT ![v].status = "active"]

\* The draft was read before the transaction and is saved as read.
Activated(v, found) == [Archive(policy, found) EXCEPT ![v].status = "active"]

CommitActivation(a) ==
    /\ At(a, "activate")
    /\ policy' = Activated(req[a].v, req[a].found)
    /\ Finish(a)

\* The request is refused or fails; its transaction is rolled back.
GiveUp(a) ==
    /\ ~Free(a)
    /\ Finish(a)
    /\ UNCHANGED policy

PolicyNext ==
    \E a \in Admins :
        \/ \E d \in Drafts : BeginCreate(a, d)
        \/ CreateDraft(a)
        \/ \E v \in Versions : ReadDraft(a, v)
        \/ FindActive(a)
        \/ CommitActivation(a)
        \/ GiveUp(a)

PolicySpec == PolicyInit /\ [][PolicyNext]_policyVars

(***************************************************************************)
(* Properties                                                              *)
(***************************************************************************)
\* Once a version is in force there always is one, however activations of the
\* same or of different drafts overlap: commissions and recalculations find it.
NeverWithoutPolicy == [][Active # {} => Active' # {}]_policyVars

\* The versions in force only grow past one through an activation that overlaps
\* another: the version it found in force no longer was when it committed.
SecondActiveNeedsOverlap ==
    [][Cardinality(Active') > 1 =>
         \/ Cardinality(Active') <= Cardinality(Active)
         \/ \E a \in Admins :
               At(a, "activate") /\ req'[a] = Idle /\ req[a].found \notin Active]_policyVars
==============================================================================
