----------------------------- MODULE Sponsorship -----------------------------
(***************************************************************************)
(* Who sponsors whom: the sponsorship part of signup, the two corrections  *)
(* an administrator can make, and the rebuild of the computed graph.       *)
(*                                                                         *)
(* sponsorship_links is the source of truth.  It is copied to              *)
(* users.sponsor_id and to network_nodes, whose paths the commission       *)
(* calculation reads.  signup and the corrections are transactions at READ *)
(* COMMITTED; the rebuild job is not a transaction at all.                 *)
(***************************************************************************)
EXTENDS Integers, SequencesExt

CONSTANTS
    Users,
    Founders,       \* users present from the start, without a sponsor
    Clients,        \* requests in flight
    MaxUses,        \* max_uses of every referral code
    MaxPerDevice,   \* MAX_ACCOUNTS_PER_DEVICE (3); newcomers share one device
    MaxChanges      \* bound: calls of correctSponsor, applyGraphCorrection and
                    \* updateProfile, and crashes of the rebuild, together

None == "none"
Absent == "absent"

ASSUME SponsorshipAssumption ==
    /\ Founders \subseteq Users /\ {None, Absent} \intersect Users = {}
    /\ MaxUses \in Nat \ {0} /\ MaxPerDevice \in Nat \ {0}
    /\ MaxChanges \in Nat

VARIABLES
    sponsorOf,   \* users.sponsor_id; absent until the user has signed up
    link,        \* sponsorship_links of each user
    uses,        \* uses_count of each user's referral code
    node,        \* network_nodes
    rebuild,     \* where the rebuild job is
    req,         \* what each request in flight has read
    changes,     \* how many of those there were
    overlapped   \* history: users two of whose corrections or updates overlapped

vars == <<sponsorOf, link, uses, node, rebuild, req, changes, overlapped>>

Joined == {u \in Users : sponsorOf[u] # Absent}
Newcomers == Users \ Founders

\* born: 0 for a signup's row, else when its correction began; the column
\* created_at defaults to now(), the start of the transaction.
LinkRow == [sponsor: Users, path: Seq(Users), active: BOOLEAN, born: 0..MaxChanges]
NodeRow == [sponsor: Users \union {None}, path: Seq(Users), direct: Nat, total: Int]

NoNode == [sponsor |-> None, path |-> <<>>, direct |-> 0, total |-> 0]
InPath(u, path) == \E k \in DOMAIN path : path[k] = u

Active(u) == {l \in link[u] : l.active}
Newest(u) == CHOOSE l \in Active(u) : \A k \in Active(u) : k.born <= l.born

Idle == [pc |-> "idle"]
Free(c) == req[c] = Idle
At(c, pc) == req[c].pc = pc
Goto(c, record) == req' = [req EXCEPT ![c] = record]
Finish(c) == Goto(c, Idle)

Init ==
    /\ sponsorOf = [u \in Users |-> IF u \in Founders THEN None ELSE Absent]
    /\ link = [u \in Users |-> {}]
    /\ uses = [u \in Users |-> 0]
    /\ node = [u \in Users |-> NoNode]
    /\ rebuild = [pc |-> "idle"]
    /\ req = [c \in Clients |-> Idle]
    /\ changes = 0
    /\ overlapped = {}

(***************************************************************************)
(* Row locks.  A signup holds FOR SHARE locks on the code and on the       *)
(* sponsor's link it has read; a correction that has updated a link holds  *)
(* it until it commits.                                                    *)
(***************************************************************************)
CodeHolders(s) == {c \in Clients : req[c].pc \in {"redeemed", "waiting", "placed"} /\ req[c].s = s}
SoleHolderUnlocked(c, s) == TRUE    \* mutant: the code is read without a lock

\* To update the code a signup waits until nobody else shares it (two that both
\* do wait for each other, and the database ends one of them); from then on it
\* holds the code alone.
SoleHolder(c, s) == CodeHolders(s) = {c}
CodeUpdated(s) == \E c \in Clients : At(c, "placed") /\ req[c].s = s /\ req[c].copy # {}
LinkShared(l) == \E c \in Clients : At(c, "placed") /\ req[c].seen = {l}
LinkWritten(u, l) == \E c \in Clients : At(c, "written") /\ req[c].u = u /\ req[c].old = l

(***************************************************************************)
(* signup                                                                  *)
(***************************************************************************)
DeviceAccounts == Joined \ Founders

BeginSignup(c, u) ==
    /\ Free(c) /\ u \notin Joined
    /\ \A d \in Clients : "u" \in DOMAIN req[d] => req[d].u # u
    /\ Cardinality(DeviceAccounts) < MaxPerDevice
    /\ Goto(c, [pc |-> "signup", u |-> u])
    /\ UNCHANGED <<sponsorOf, link, uses, node, rebuild, changes, overlapped>>

\* A code whose count has reached max_uses is exhausted.
CodeUsable(s) == uses[s] < MaxUses

RedeemCode(c, s) ==
    /\ At(c, "signup") /\ s \in Joined
    /\ ~CodeUpdated(s) /\ CodeUsable(s)
    /\ Goto(c, [pc |-> "redeemed", u |-> req[c].u, s |-> s])
    /\ UNCHANGED <<sponsorOf, link, uses, node, rebuild, changes, overlapped>>

\* copy: the sponsor's node, once it has been read.
Placed(c, path, seen, copy) ==
    Goto(c, [pc |-> "placed", u |-> req[c].u, s |-> req[c].s, path |-> path, seen |-> seen,
             copy |-> copy])

PathBelow(s, l) == <<s>> \o l.path

\* Mutant of ReadUpline: the sponsor's own upline is left out.
ReadUplineShort(c) ==
    LET s == req[c].s IN
    /\ At(c, "redeemed")
    /\ Placed(c, <<s>>, {}, {})
    /\ UNCHANGED <<sponsorOf, link, uses, node, rebuild, changes, overlapped>>

ReadUpline(c) ==
    LET s == req[c].s IN
    /\ At(c, "redeemed")
    /\ \/ Active(s) = {} /\ Placed(c, <<s>>, {}, {})
       \/ \E l \in Active(s) :
             IF LinkWritten(s, l)
             THEN Goto(c, [pc |-> "waiting", u |-> req[c].u, s |-> s, row |-> l])
             ELSE Placed(c, PathBelow(s, l), {l}, {})
    /\ UNCHANGED <<sponsorOf, link, uses, node, rebuild, changes, overlapped>>

\* The row waited for is read again.  When it is no longer the active link the
\* query returns nothing: its replacement is not in the statement's snapshot.
ReadAfterWait(c) ==
    LET s == req[c].s
        l == req[c].row
    IN
    /\ At(c, "waiting") /\ ~LinkWritten(s, l)
    /\ IF l \in Active(s) THEN Placed(c, PathBelow(s, l), {l}, {}) ELSE Placed(c, <<s>>, {}, {})
    /\ UNCHANGED <<sponsorOf, link, uses, node, rebuild, changes, overlapped>>

\* The code is updated, then the sponsor's node is read, without a lock.
ReadSponsorNode(c) ==
    LET r == req[c] IN
    /\ At(c, "placed") /\ r.copy = {} /\ SoleHolder(c, r.s)
    /\ Placed(c, r.path, r.seen, {node[r.s]})
    /\ UNCHANGED <<sponsorOf, link, uses, node, rebuild, changes, overlapped>>

\* The new node; the sponsor's node, saved as it was read with both counters
\* raised; and the downline of the other ancestors, raised in the database.
JoinNetwork(u, sponsor, path, copy) ==
    node' = [n \in Users |->
        CASE n = u -> [sponsor |-> sponsor, path |-> path, direct |-> 0, total |-> 0]
          [] n # u /\ n = sponsor -> [copy EXCEPT !.direct = @ + 1, !.total = @ + 1]
          [] n # u /\ n # sponsor /\ InPath(n, path) -> [node[n] EXCEPT !.total = @ + 1]
          [] OTHER -> node[n]]

NewLink(r, born) == [sponsor |-> r.s, path |-> r.path, active |-> TRUE, born |-> born]
UseCode(s) == uses' = [uses EXCEPT ![s] = @ + 1]

CommitSignup(c) ==
    LET r == req[c] IN
    /\ At(c, "placed") /\ SoleHolder(c, r.s)
    /\ \E copy \in r.copy : JoinNetwork(r.u, r.s, r.path, copy)
    /\ sponsorOf' = [sponsorOf EXCEPT ![r.u] = r.s]
    /\ link' = [link EXCEPT ![r.u] = {NewLink(r, 0)}]
    /\ UseCode(r.s)
    /\ Finish(c)
    /\ UNCHANGED <<rebuild, changes, overlapped>>

CommitWithoutCode(c) ==
    /\ At(c, "signup")
    /\ sponsorOf' = [sponsorOf EXCEPT ![req[c].u] = None]
    /\ JoinNetwork(req[c].u, None, <<>>, NoNode)
    /\ Finish(c)
    /\ UNCHANGED <<link, uses, rebuild, changes, overlapped>>

(***************************************************************************)
(* correctSponsor.  It reads without locks, and leaves the links below the *)
(* user as they are.                                                       *)
(***************************************************************************)
Touching(u) == {c \in Clients : req[c].pc \in {"correcting", "written", "profile"} /\ req[c].u = u}
Touch(u) == overlapped' = IF Touching(u) # {} THEN overlapped \union {u} ELSE overlapped

\* The upline the new link continues: the new sponsor's, or none.
ParentPaths(s) == IF Active(s) = {} THEN {<<>>} ELSE {l.path : l \in Active(s)}

BeginCorrectionUnchecked(c, u, s) ==    \* mutant: a cycle is not refused
    /\ Free(c) /\ changes < MaxChanges
    /\ u \in Joined /\ s \in Joined /\ u # s
    /\ \E old \in Active(u), parent \in ParentPaths(s) :
          Goto(c, [pc |-> "correcting", u |-> u, s |-> s, old |-> old,
                   path |-> <<s>> \o parent, born |-> changes + 1])
    /\ changes' = changes + 1
    /\ Touch(u)
    /\ UNCHANGED <<sponsorOf, link, uses, node, rebuild>>

BeginCorrection(c, u, s) ==
    /\ Free(c) /\ changes < MaxChanges
    /\ u \in Joined /\ s \in Joined /\ u # s
    /\ \E old \in Active(u), parent \in ParentPaths(s) :
          /\ ~InPath(u, parent)
          /\ Goto(c, [pc |-> "correcting", u |-> u, s |-> s, old |-> old,
                      path |-> <<s>> \o parent, born |-> changes + 1])
    /\ changes' = changes + 1
    /\ Touch(u)
    /\ UNCHANGED <<sponsorOf, link, uses, node, rebuild>>

WriteCorrection(c) ==
    LET r == req[c] IN
    /\ At(c, "correcting")
    /\ ~LinkShared(r.old) /\ ~LinkWritten(r.u, r.old)
    /\ Goto(c, [r EXCEPT !.pc = "written"])
    /\ UNCHANGED <<sponsorOf, link, uses, node, rebuild, changes, overlapped>>

ReplaceLink(r) ==
    link' = [link EXCEPT ![r.u] =
                (@ \ {r.old}) \union {[r.old EXCEPT !.active = FALSE], NewLink(r, r.born)}]

CommitCorrectionUnsynced(c) ==    \* mutant: without Fix B6
    LET r == req[c] IN
    /\ At(c, "written")
    /\ ReplaceLink(r)
    /\ Finish(c)
    /\ UNCHANGED <<sponsorOf, uses, node, rebuild, changes, overlapped>>

CommitCorrection(c) ==
    LET r == req[c] IN
    /\ At(c, "written")
    /\ ReplaceLink(r)
    /\ sponsorOf' = [sponsorOf EXCEPT ![r.u] = r.s]
    /\ Finish(c)
    /\ UNCHANGED <<uses, node, rebuild, changes, overlapped>>

\* updateProfile saves the whole user it has read, sponsor_id included.
BeginProfile(c, u) ==
    /\ Free(c) /\ u \in Joined /\ changes < MaxChanges
    /\ Goto(c, [pc |-> "profile", u |-> u, copy |-> sponsorOf[u]])
    /\ changes' = changes + 1
    /\ Touch(u)
    /\ UNCHANGED <<sponsorOf, link, uses, node, rebuild>>

CommitProfile(c) ==
    /\ At(c, "profile")
    /\ sponsorOf' = [sponsorOf EXCEPT ![req[c].u] = req[c].copy]
    /\ Finish(c)
    /\ UNCHANGED <<link, uses, node, rebuild, changes, overlapped>>

\* The request fails: refused by a check or a unique key, ended by the database
\* to break a deadlock, or cut short by a crash.  Its transaction is rolled back.
GiveUp(c) ==
    /\ ~Free(c)
    /\ Finish(c)
    /\ UNCHANGED <<sponsorOf, link, uses, node, rebuild, changes, overlapped>>

(***************************************************************************)
(* applyGraphCorrection changes network_nodes only, in one transaction     *)
(* taken as one step.  It appends the new sponsor to the end of the        *)
(* sponsor's path, where links and signup put it first.                    *)
(***************************************************************************)
Counted(nodes) ==
    [n \in Users |-> IF n \notin Joined THEN nodes[n] ELSE
        [nodes[n] EXCEPT !.direct = Cardinality({m \in Joined : nodes[m].sponsor = n}),
                         !.total = Cardinality({m \in Joined : InPath(n, nodes[m].path)})]]

\* A descendant's path with everything up to u replaced.
Regraft(path, u, newPath) ==
    newPath \o SubSeq(path, SelectInSeq(path, LAMBDA v : v = u), Len(path))

ApplyGraphCorrection(u, s) ==
    LET newPath == Append(node[s].path, s)
        regrafted == [n \in Users |->
            CASE n = u -> [node[u] EXCEPT !.sponsor = s, !.path = newPath]
              [] n # u /\ InPath(u, node[n].path) ->
                    [node[n] EXCEPT !.path = Regraft(@, u, newPath)]
              [] OTHER -> node[n]]
    IN
    /\ changes < MaxChanges
    /\ u \in Joined /\ s \in Joined /\ u # s
    /\ ~InPath(u, newPath)
    /\ node' = Counted(regrafted)
    /\ changes' = changes + 1
    /\ UNCHANGED <<sponsorOf, link, uses, rebuild, req, overlapped>>

(***************************************************************************)
(* rebuildAllNodes, every 30 minutes: node by node from the newest active  *)
(* link, then the counters, computed from all nodes as they were read at   *)
(* one moment and saved node by node with everything else that was read.   *)
(***************************************************************************)
StartRebuild ==
    /\ rebuild.pc = "idle"
    /\ rebuild' = [pc |-> "build", todo |-> Joined]
    /\ UNCHANGED <<sponsorOf, link, uses, node, req, changes, overlapped>>

\* What a node's sponsor and path should be.
SourceOf(u) ==
    IF Active(u) = {} THEN [sponsor |-> None, path |-> <<>>]
    ELSE [sponsor |-> Newest(u).sponsor, path |-> Newest(u).path]

BuildNodeKeepsPath(u) ==    \* mutant: an existing node keeps its path
    /\ rebuild.pc = "build" /\ u \in rebuild.todo
    /\ ~InPath(u, SourceOf(u).path)
    /\ node' = [node EXCEPT ![u].sponsor = SourceOf(u).sponsor]
    /\ rebuild' = [rebuild EXCEPT !.todo = @ \ {u}]
    /\ UNCHANGED <<sponsorOf, link, uses, req, changes, overlapped>>

\* A user in its own upline would fail the whole job.
BuildNodeForUser(u) ==
    /\ rebuild.pc = "build" /\ u \in rebuild.todo
    /\ ~InPath(u, SourceOf(u).path)
    /\ node' = [node EXCEPT ![u].sponsor = SourceOf(u).sponsor, ![u].path = SourceOf(u).path]
    /\ rebuild' = [rebuild EXCEPT !.todo = @ \ {u}]
    /\ UNCHANGED <<sponsorOf, link, uses, req, changes, overlapped>>

ReadNodes ==
    /\ rebuild.pc = "build" /\ rebuild.todo = {}
    /\ rebuild' = [pc |-> "count", todo |-> Joined, read |-> Counted(node)]
    /\ UNCHANGED <<sponsorOf, link, uses, node, req, changes, overlapped>>

SaveCounters(u) ==
    /\ rebuild.pc = "count" /\ u \in rebuild.todo
    /\ node' = [node EXCEPT ![u] = rebuild.read[u]]
    /\ rebuild' = IF rebuild.todo = {u} THEN [pc |-> "idle"]
                  ELSE [rebuild EXCEPT !.todo = @ \ {u}]
    /\ UNCHANGED <<sponsorOf, link, uses, req, changes, overlapped>>

\* The worker dies; the run is not resumed, the next one starts over.
RebuildCrashes ==
    /\ rebuild.pc # "idle" /\ changes < MaxChanges
    /\ rebuild' = [pc |-> "idle"]
    /\ changes' = changes + 1
    /\ UNCHANGED <<sponsorOf, link, uses, node, req, overlapped>>

RequestStep(c) ==
    \/ \E s \in Users : RedeemCode(c, s)
    \/ ReadUpline(c) \/ ReadAfterWait(c) \/ ReadSponsorNode(c)
    \/ CommitSignup(c) \/ CommitWithoutCode(c)
    \/ WriteCorrection(c) \/ CommitCorrection(c) \/ CommitProfile(c)
    \/ GiveUp(c)

RebuildStep ==
    \/ StartRebuild \/ ReadNodes
    \/ \E u \in Users : BuildNodeForUser(u) \/ SaveCounters(u)

Next ==
    \/ \E c \in Clients, u \in Users : BeginSignup(c, u) \/ BeginProfile(c, u)
    \/ \E c \in Clients, u, s \in Users : BeginCorrection(c, u, s)
    \/ \E c \in Clients : RequestStep(c)
    \/ \E u, s \in Users : ApplyGraphCorrection(u, s)
    \/ RebuildStep
    \/ RebuildCrashes

Spec == Init /\ [][Next]_vars

(***************************************************************************)
(* Every request ends, and the rebuild is scheduled again and again.       *)
(***************************************************************************)
FairSpec ==
    /\ Spec
    /\ \A c \in Clients : WF_vars(RequestStep(c))
    /\ WF_vars(RebuildStep)

(***************************************************************************)
(* Properties                                                              *)
(***************************************************************************)
\* A referral code is never redeemed more often than max_uses allows: the shared
\* lock each signup holds on the code keeps a second one from committing on the
\* count it has read.
RedemptionsWithinLimit ==
    \A s \in Users :
        Cardinality({u \in Users : \E l \in link[u] : l.born = 0 /\ l.sponsor = s}) <= MaxUses

\* No link ever lists its user as its own upline, so the rebuild never fails,
\* whatever signups and corrections run beside each other.
NobodyAboveThemselves ==
    \A u \in Users : \A l \in link[u] : ~InPath(u, l.path)

\* "Circular sponsorship detected": following sponsors never comes back to where
\* it began; in every group of members somebody's sponsor is outside the group.
\* (correctSponsor looks for the user in a path that may be out of date.)
NoSponsorCycle ==
    \A S \in (SUBSET Joined) \ {{}} : \E u \in S : SourceOf(u).sponsor \notin S

\* users.sponsor_id is the sponsor of the active link, unless two corrections,
\* or a correction and a profile update, of that user have overlapped.
SponsorInSync ==
    \A u \in Joined \ overlapped : sponsorOf[u] = SourceOf(u).sponsor

\* The path a signup or a correction writes continues the sponsor's own path, as
\* long as nobody on it has been corrected since: every level of the upline is
\* there, in order, for the commission calculation.
PathsAreChains ==
    \A u \in Joined :
        LET s == SourceOf(u).sponsor IN
        (s # None /\ \A l \in link[s] : l.born = 0) =>
            Tail(SourceOf(u).path) = SourceOf(s).path

\* Whatever corrections, stale saves of the rebuild job and lost counter updates
\* have done to network_nodes, once they stop the nodes agree with the links.
GraphConverges ==
    <>[](\A u \in Joined :
            /\ node[u].sponsor = SourceOf(u).sponsor
            /\ node[u].path = SourceOf(u).path
            /\ node[u] = Counted(node)[u])
==============================================================================
