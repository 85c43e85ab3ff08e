-------------------------- MODULE Sponsorship_proofs --------------------------
(***************************************************************************)
(* What TLAPS proves of sponsorship links, for every number of users and   *)
(* of requests in flight.                                                  *)
(*                                                                         *)
(*   NobodyAbove      Spec => []NobodyAboveThemselves                      *)
(*   RedemptionLimit  Spec => []RedemptionsWithinLimit                     *)
(*   UplinesAreWhole  Spec => []PathsAreChains                             *)
(*   SponsorsAgree    Spec => []SponsorInSync                              *)
(*                                                                         *)
(* None of them is inductive: each rests on what a request has read.       *)
(*   SponsorInv  a user who is signing up is in no path yet, because paths *)
(*               only hold members and no two requests sign the same user  *)
(*               up; a correction has looked for its user in the path it   *)
(*               continues.                                                *)
(*   RedeemInv   a code that a signup holds has a use left.                *)
(*   PathInv     a path that was read continues the sponsor's link, or the *)
(*               sponsor has been corrected since.                         *)
(*   SyncInv     without overlaps, the correction or update under way for  *)
(*               a user is the only one, and what it has read still holds. *)
(***************************************************************************)
EXTENDS Sponsorship, SequenceTheorems, FiniteSetTheorems, WellFoundedInduction, TLAPS

\* p is an upline of u among the members J.
PathOK(u, p, J) == p \in Seq(J) /\ ~InPath(u, p)

SignupPcs == {"signup", "redeemed", "waiting", "placed"}
SigningUp(c) == req[c].pc \in SignupPcs

\* r: what a request has read, while the members are J.
ReadOK(r, J) ==
    /\ r.pc \in SignupPcs => "u" \in DOMAIN r /\ r.u \in Users \ J
    /\ r.pc \in {"redeemed", "waiting", "placed"} => r.s \in J
    /\ r.pc = "placed" => r.path \in Seq(J)
    /\ r.pc \in {"correcting", "written"} =>
          /\ {"pc", "u", "s", "old", "path"} \subseteq DOMAIN r
          /\ r.u \in J /\ r.s \in J
          /\ PathOK(r.u, r.path, J)
          /\ "path" \in DOMAIN r.old /\ PathOK(r.u, r.old.path, J)
    /\ r.pc = "profile" => r.u \in J /\ r.copy # Absent

LinksOK ==
    /\ DOMAIN sponsorOf = Users /\ DOMAIN link = Users
    /\ \A u \in Users : \A l \in link[u] : "path" \in DOMAIN l /\ PathOK(u, l.path, Joined)

RequestsOK ==
    /\ DOMAIN req = Clients
    /\ \A c \in Clients : ReadOK(req[c], Joined)

OneSignupEach ==
    \A c, d \in Clients : c # d /\ SigningUp(c) /\ SigningUp(d) => req[c].u # req[d].u

SponsorInv == LinksOK /\ RequestsOK /\ OneSignupEach

(***************************************************************************)
(* Paths                                                                   *)
(***************************************************************************)
LEMMA StrangerInNoPath ==
    ASSUME NEW J, NEW p \in Seq(J), NEW u, u \notin J
    PROVE  ~InPath(u, p)
<1>1. \A k \in DOMAIN p : p[k] \in J
  BY ElementOfSeq, LenProperties
<1> QED
  BY <1>1 DEF InPath

LEMMA PathsGrow ==
    ASSUME NEW J, NEW K, J \subseteq K, NEW u, NEW p, PathOK(u, p, J)
    PROVE  PathOK(u, p, K)
BY SeqMonotonic DEF PathOK

LEMMA PathBelowSponsor ==
    ASSUME NEW J, NEW u, NEW s \in J, u # s, NEW p, PathOK(u, p, J)
    PROVE  PathOK(u, <<s>> \o p, J)
<1>1. <<s>> \in Seq(J) /\ Len(<<s>>) = 1 /\ <<s>>[1] = s /\ p \in Seq(J)
  BY DEF PathOK
<1> DEFINE q == <<s>> \o p
<1>2. /\ q \in Seq(J) /\ Len(q) = 1 + Len(p)
      /\ \A i \in 1..(1 + Len(p)) : q[i] = IF i <= 1 THEN <<s>>[i] ELSE p[i - 1]
  BY <1>1, ConcatProperties
<1>3. DOMAIN q = 1..(1 + Len(p)) /\ DOMAIN p = 1..Len(p) /\ Len(p) \in Nat
  BY <1>1, <1>2, LenProperties
<1>4. ASSUME NEW k \in DOMAIN q PROVE q[k] # u
  <2>1. CASE k = 1
    BY <1>1, <1>2, <1>3, <2>1
  <2>2. CASE k # 1
    <3>1. k - 1 \in DOMAIN p /\ q[k] = p[k - 1]
      BY <1>2, <1>3, <1>4, <2>2
    <3> QED
      BY <3>1 DEF PathOK, InPath
  <2> QED
    BY <2>1, <2>2
<1> QED
  BY <1>2, <1>4 DEF PathOK, InPath

LEMMA ReadGrows ==
    ASSUME NEW J, NEW K, J \subseteq K, NEW r, ReadOK(r, J),
           r.pc \in SignupPcs => r.u \notin K
    PROVE  ReadOK(r, K)
<1>1. r.pc \in SignupPcs => "u" \in DOMAIN r /\ r.u \in Users \ K
  BY DEF ReadOK
<1>2. r.pc = "placed" => r.path \in Seq(K)
  BY SeqMonotonic DEF ReadOK
<1>3. r.pc \in {"correcting", "written"} => PathOK(r.u, r.path, K) /\ PathOK(r.u, r.old.path, K)
  BY PathsGrow DEF ReadOK
<1> QED
  BY <1>1, <1>2, <1>3 DEF ReadOK

(***************************************************************************)
(* One request takes a step                                                *)
(***************************************************************************)
LEMMA RequestStepKeeps ==
    ASSUME SponsorInv, NEW c \in Clients, NEW x, req' = [req EXCEPT ![c] = x],
           Joined \subseteq Joined', LinksOK',
           ReadOK(x, Joined'),
           \A d \in Clients : d # c /\ SigningUp(d) =>
              /\ req[d].u \notin Joined'
              /\ x.pc \in SignupPcs => req[d].u # x.u
    PROVE  SponsorInv'
<1>1. DOMAIN req' = Clients /\ \A d \in Clients : req'[d] = IF d = c THEN x ELSE req[d]
  BY DEF SponsorInv, RequestsOK
<1>2. ASSUME NEW d \in Clients PROVE ReadOK(req'[d], Joined')
  <2>1. CASE d = c
    BY <1>1, <2>1
  <2>2. CASE d # c
    <3>1. req'[d] = req[d] /\ ReadOK(req[d], Joined)
      BY <1>1, <2>2 DEF SponsorInv, RequestsOK
    <3>2. ReadOK(req[d], Joined')
      BY <2>2, <3>1, ReadGrows DEF SigningUp
    <3> QED
      BY <3>1, <3>2
  <2> QED
    BY <2>1, <2>2
<1>3. OneSignupEach'
  BY <1>1 DEF SponsorInv, OneSignupEach, SigningUp
<1>4. RequestsOK'
  BY <1>1, <1>2 DEF RequestsOK
<1> QED
  BY <1>3, <1>4 DEF SponsorInv

LEMMA ReadingKeeps ==
    ASSUME SponsorInv, NEW c \in Clients, NEW x, req' = [req EXCEPT ![c] = x],
           sponsorOf' = sponsorOf, link' = link, ReadOK(x, Joined),
           \A d \in Clients : d # c /\ SigningUp(d) /\ x.pc \in SignupPcs => req[d].u # x.u
    PROVE  SponsorInv'
<1>1. Joined' = Joined
  BY DEF Joined
<1>2. LinksOK'
  BY <1>1 DEF SponsorInv, LinksOK
<1>3. \A d \in Clients : SigningUp(d) => req[d].u \notin Joined
  BY DEF SponsorInv, RequestsOK, ReadOK, SigningUp
<1> QED
  BY <1>1, <1>2, <1>3, RequestStepKeeps

(***************************************************************************)
(* Signing up                                                              *)
(***************************************************************************)
LEMMA BeginSignupKeeps ==
    ASSUME SponsorInv, NEW c \in Clients, NEW u \in Users, BeginSignup(c, u)
    PROVE  SponsorInv'
<1>1. PICK x : x = [pc |-> "signup", u |-> u]
  OBVIOUS
<1>2. /\ req' = [req EXCEPT ![c] = x] /\ sponsorOf' = sponsorOf /\ link' = link
      /\ u \in Users \ Joined
  BY <1>1 DEF BeginSignup, Goto
<1>5. \A d \in Clients : "u" \in DOMAIN req[d] => req[d].u # u
  BY DEF BeginSignup
<1>3. ReadOK(x, Joined)
  BY <1>1, <1>2 DEF ReadOK, SignupPcs
<1>4. \A d \in Clients : SigningUp(d) => "u" \in DOMAIN req[d]
  BY DEF SponsorInv, RequestsOK, ReadOK, SigningUp
<1>6. x.u = u
  BY <1>1
<1> QED
  BY <1>2, <1>3, <1>4, <1>5, <1>6, ReadingKeeps

\* A signup that goes on, for the same user.
LEMMA SignupGoesOn ==
    ASSUME SponsorInv, NEW c \in Clients, SigningUp(c), NEW x, req' = [req EXCEPT ![c] = x],
           x.u = req[c].u, ReadOK(x, Joined), sponsorOf' = sponsorOf, link' = link
    PROVE  SponsorInv'
<1>1. \A d \in Clients : d # c /\ SigningUp(d) => req[d].u # x.u
  BY DEF SponsorInv, OneSignupEach
<1> QED
  BY <1>1, ReadingKeeps

LEMMA RedeemCodeKeeps ==
    ASSUME SponsorInv, NEW c \in Clients, NEW s \in Users, RedeemCode(c, s)
    PROVE  SponsorInv'
<1>1. PICK x : x = [pc |-> "redeemed", u |-> req[c].u, s |-> s]
  OBVIOUS
<1>2. /\ req' = [req EXCEPT ![c] = x] /\ sponsorOf' = sponsorOf /\ link' = link
      /\ req[c].pc = "signup" /\ s \in Joined
  BY <1>1 DEF RedeemCode, Goto, At
<1>3. SigningUp(c) /\ ReadOK(x, Joined)
  BY <1>1, <1>2 DEF SponsorInv, RequestsOK, ReadOK, SignupPcs, SigningUp
<1> QED
  BY <1>1, <1>2, <1>3, SignupGoesOn

LEMMA PlacedKeeps ==
    ASSUME SponsorInv, NEW c \in Clients, req[c].pc \in {"redeemed", "waiting", "placed"},
           NEW path, NEW seen, NEW copy, Placed(c, path, seen, copy), path \in Seq(Joined),
           sponsorOf' = sponsorOf, link' = link
    PROVE  SponsorInv'
<1>1. PICK x : x = [pc |-> "placed", u |-> req[c].u, s |-> req[c].s, path |-> path, seen |-> seen,
                   copy |-> copy]
  OBVIOUS
<1>2. req' = [req EXCEPT ![c] = x]
  BY <1>1 DEF Placed, Goto
<1>3. SigningUp(c) /\ ReadOK(x, Joined)
  BY <1>1 DEF SponsorInv, RequestsOK, ReadOK, SignupPcs, SigningUp
<1> QED
  BY <1>1, <1>2, <1>3, SignupGoesOn

LEMMA ReadSponsorNodeKeeps ==
    ASSUME SponsorInv, NEW c \in Clients, ReadSponsorNode(c)
    PROVE  SponsorInv'
<1>1. /\ req[c].pc = "placed" /\ sponsorOf' = sponsorOf /\ link' = link
      /\ Placed(c, req[c].path, req[c].seen, {node[req[c].s]})
  BY DEF ReadSponsorNode, At
<1>2. req[c].path \in Seq(Joined)
  BY <1>1 DEF SponsorInv, RequestsOK, ReadOK
<1> QED
  BY <1>1, <1>2, PlacedKeeps

\* The path below a link of a member is a path of members.
LEMMA PathBelowOK ==
    ASSUME SponsorInv, NEW s \in Joined, NEW l \in link[s]
    PROVE  PathBelow(s, l) \in Seq(Joined)
<1>1. l.path \in Seq(Joined) /\ <<s>> \in Seq(Joined)
  BY DEF SponsorInv, LinksOK, PathOK, Joined
<1> QED
  BY <1>1, ConcatProperties DEF PathBelow

LEMMA ReadUplineKeeps ==
    ASSUME SponsorInv, NEW c \in Clients, ReadUpline(c) \/ ReadAfterWait(c)
    PROVE  SponsorInv'
<1> DEFINE s == req[c].s
<1>1. /\ req[c].pc \in {"redeemed", "waiting"}
      /\ sponsorOf' = sponsorOf /\ link' = link
  BY DEF ReadUpline, ReadAfterWait, At
<1>2. s \in Joined
  BY <1>1 DEF SponsorInv, RequestsOK, ReadOK
<1>3. <<s>> \in Seq(Joined) /\ \A l \in Active(s) : PathBelow(s, l) \in Seq(Joined)
  BY <1>2, PathBelowOK DEF Active
<1>4. CASE \E l : Goto(c, [pc |-> "waiting", u |-> req[c].u, s |-> s, row |-> l])
  <2>1. PICK l : Goto(c, [pc |-> "waiting", u |-> req[c].u, s |-> s, row |-> l])
    BY <1>4
  <2>2. PICK x : x = [pc |-> "waiting", u |-> req[c].u, s |-> s, row |-> l]
    OBVIOUS
  <2>3. req' = [req EXCEPT ![c] = x]
    BY <2>1, <2>2 DEF Goto
  <2>4. SigningUp(c) /\ ReadOK(x, Joined)
    BY <1>1, <2>2 DEF SponsorInv, RequestsOK, ReadOK, SignupPcs, SigningUp
  <2> QED
    BY <1>1, <2>2, <2>3, <2>4, SignupGoesOn
<1>5. CASE Placed(c, <<s>>, {}, {})
  BY <1>1, <1>3, <1>5, PlacedKeeps
<1>6. ASSUME NEW l \in Active(s), Placed(c, PathBelow(s, l), {l}, {}) PROVE SponsorInv'
  BY <1>1, <1>3, <1>6, PlacedKeeps
<1>7. \/ \E l : Goto(c, [pc |-> "waiting", u |-> req[c].u, s |-> s, row |-> l])
      \/ Placed(c, <<s>>, {}, {})
      \/ \E l \in Active(s) : Placed(c, PathBelow(s, l), {l}, {})
  BY DEF ReadUpline, ReadAfterWait
<1> HIDE DEF s
<1> QED
  BY <1>4, <1>5, <1>6, <1>7

LEMMA IdleReadOK == ASSUME NEW J, NEW x, x = Idle PROVE ReadOK(x, J) /\ x.pc \notin SignupPcs
BY DEF ReadOK, Idle, SignupPcs

\* A new member: no other request signs the same user up.
LEMMA NewMember ==
    ASSUME SponsorInv, NEW c \in Clients, SigningUp(c), NEW s, s # Absent,
           sponsorOf' = [sponsorOf EXCEPT ![req[c].u] = s], req' = [req EXCEPT ![c] = Idle],
           LinksOK'
    PROVE  SponsorInv'
<1>1. req[c].u \in Users \ Joined
  BY DEF SponsorInv, RequestsOK, ReadOK, SigningUp
<1>2. Joined' = Joined \union {req[c].u}
  BY <1>1 DEF SponsorInv, LinksOK, Joined
<1>3. PICK x : x = Idle
  OBVIOUS
<1>4. \A d \in Clients : d # c /\ SigningUp(d) => req[d].u \notin Joined'
  BY <1>2 DEF SponsorInv, RequestsOK, ReadOK, OneSignupEach, SigningUp
<1>5. ReadOK(x, Joined') /\ x.pc \notin SignupPcs
  BY <1>3, IdleReadOK
<1> QED
  BY <1>2, <1>3, <1>4, <1>5, RequestStepKeeps

\* Paths stay paths when there are more members; every other user's links too.
LEMMA LinksKept ==
    ASSUME SponsorInv, Joined \subseteq Joined', NEW u \in Users, NEW l \in link[u]
    PROVE  "path" \in DOMAIN l /\ PathOK(u, l.path, Joined')
BY PathsGrow DEF SponsorInv, LinksOK

LEMMA SponsorsStay ==
    ASSUME SponsorInv, NEW u \in Users, NEW s, s # Absent,
           sponsorOf' = [sponsorOf EXCEPT ![u] = s]
    PROVE  DOMAIN sponsorOf' = Users /\ Joined \subseteq Joined' /\ u \in Joined'
BY DEF SponsorInv, LinksOK, Joined

LEMMA CommitSignupKeeps ==
    ASSUME SponsorInv, NEW c \in Clients, CommitSignup(c), SponsorshipAssumption
    PROVE  SponsorInv'
<1> DEFINE r == req[c]
<1>1. /\ r.pc = "placed"
      /\ sponsorOf' = [sponsorOf EXCEPT ![r.u] = r.s]
      /\ link' = [link EXCEPT ![r.u] = {NewLink(r, 0)}]
      /\ req' = [req EXCEPT ![c] = Idle]
  BY DEF CommitSignup, At, Finish, Goto
<1>2. r.u \in Users \ Joined /\ r.s \in Joined /\ r.path \in Seq(Joined)
  BY <1>1 DEF SponsorInv, RequestsOK, ReadOK, SignupPcs
<1>3. r.s # Absent
  BY <1>2 DEF SponsorshipAssumption, Joined
<1>4. DOMAIN sponsorOf' = Users /\ Joined \subseteq Joined'
  BY <1>1, <1>2, <1>3, SponsorsStay
<1>5. "path" \in DOMAIN NewLink(r, 0) /\ NewLink(r, 0).path = r.path
  BY DEF NewLink
<1>6. PathOK(r.u, r.path, Joined')
  BY <1>2, <1>4, StrangerInNoPath, PathsGrow DEF PathOK
<1>7. DOMAIN link' = Users
      /\ \A u \in Users : link'[u] = IF u = r.u THEN {NewLink(r, 0)} ELSE link[u]
  BY <1>1 DEF SponsorInv, LinksOK
<1>8. ASSUME NEW u \in Users, NEW l \in link'[u] PROVE "path" \in DOMAIN l /\ PathOK(u, l.path, Joined')
  BY <1>4, <1>5, <1>6, <1>7, <1>8, LinksKept
<1>9. LinksOK'
  BY <1>4, <1>7, <1>8 DEF LinksOK
<1> QED
  BY <1>1, <1>3, <1>9, NewMember DEF SigningUp, SignupPcs

LEMMA CommitWithoutCodeKeeps ==
    ASSUME SponsorInv, NEW c \in Clients, CommitWithoutCode(c)
    PROVE  SponsorInv'
<1> DEFINE u == req[c].u
<1>1. /\ req[c].pc = "signup"
      /\ sponsorOf' = [sponsorOf EXCEPT ![u] = None] /\ link' = link
      /\ req' = [req EXCEPT ![c] = Idle]
  BY DEF CommitWithoutCode, At, Finish, Goto
<1>2. u \in Users
  BY <1>1 DEF SponsorInv, RequestsOK, ReadOK, SignupPcs
<1>3. None # Absent
  BY DEF None, Absent
<1>4. DOMAIN sponsorOf' = Users /\ Joined \subseteq Joined'
  BY <1>1, <1>2, <1>3, SponsorsStay
<1>5. LinksOK'
  BY <1>1, <1>4, LinksKept DEF SponsorInv, LinksOK
<1> QED
  BY <1>1, <1>3, <1>5, NewMember DEF SigningUp, SignupPcs

(***************************************************************************)
(* Correcting a sponsor, and saving a profile                              *)
(***************************************************************************)
\* The step of a request that signs nobody up.
LEMMA OtherStepKeeps ==
    ASSUME SponsorInv, NEW c \in Clients, NEW x, x.pc \notin SignupPcs,
           req' = [req EXCEPT ![c] = x], Joined' = Joined, LinksOK', ReadOK(x, Joined)
    PROVE  SponsorInv'
<1>1. \A d \in Clients : SigningUp(d) => req[d].u \notin Joined
  BY DEF SponsorInv, RequestsOK, ReadOK, SigningUp
<1> QED
  BY <1>1, RequestStepKeeps

\* A member gets another sponsor.
LEMMA SponsorSaved ==
    ASSUME SponsorInv, NEW u \in Joined, NEW s, s # Absent,
           sponsorOf' = [sponsorOf EXCEPT ![u] = s]
    PROVE  DOMAIN sponsorOf' = Users /\ Joined' = Joined
BY DEF SponsorInv, LinksOK, Joined

LEMMA BeginCorrectionKeeps ==
    ASSUME SponsorInv, NEW c \in Clients, NEW u \in Users, NEW s \in Users, BeginCorrection(c, u, s)
    PROVE  SponsorInv'
<1>1. PICK old \in Active(u), parent \in ParentPaths(s) :
         /\ ~InPath(u, parent)
         /\ Goto(c, [pc |-> "correcting", u |-> u, s |-> s, old |-> old,
                     path |-> <<s>> \o parent, born |-> changes + 1])
  BY DEF BeginCorrection
<1>2. /\ sponsorOf' = sponsorOf /\ link' = link
      /\ u \in Joined /\ s \in Joined /\ u # s
  BY DEF BeginCorrection
<1>3. "path" \in DOMAIN old /\ PathOK(u, old.path, Joined)
  BY DEF SponsorInv, LinksOK, Active
<1>4. parent \in Seq(Joined)
  BY EmptySeq DEF ParentPaths, SponsorInv, LinksOK, Active, PathOK
<1>5. PathOK(u, <<s>> \o parent, Joined)
  BY <1>1, <1>2, <1>4, PathBelowSponsor DEF PathOK
<1>6. PICK path : path = <<s>> \o parent
  OBVIOUS
<1>7. PICK x : x = [pc |-> "correcting", u |-> u, s |-> s, old |-> old,
                    path |-> path, born |-> changes + 1]
  OBVIOUS
<1>8. req' = [req EXCEPT ![c] = x]
  BY <1>1, <1>6, <1>7 DEF Goto
<1>9. ReadOK(x, Joined) /\ x.pc \notin SignupPcs
  BY <1>2, <1>3, <1>5, <1>6, <1>7 DEF ReadOK, SignupPcs
<1> QED
  BY <1>2, <1>8, <1>9, ReadingKeeps

LEMMA WriteCorrectionKeeps ==
    ASSUME SponsorInv, NEW c \in Clients, WriteCorrection(c)
    PROVE  SponsorInv'
<1>1. PICK x : x = [req[c] EXCEPT !.pc = "written"]
  OBVIOUS
<1>2. /\ req[c].pc = "correcting" /\ req' = [req EXCEPT ![c] = x]
      /\ sponsorOf' = sponsorOf /\ link' = link
  BY <1>1 DEF WriteCorrection, At, Goto
<1>3. ReadOK(req[c], Joined)
  BY DEF SponsorInv, RequestsOK
<1>4. {"pc", "u", "s", "old", "path"} \subseteq DOMAIN req[c]
  BY <1>2, <1>3 DEF ReadOK
<1>5. x.pc = "written" /\ x.u = req[c].u /\ x.s = req[c].s /\ x.old = req[c].old /\ x.path = req[c].path
  BY <1>1, <1>4
<1>6. {"pc", "u", "s", "old", "path"} \subseteq DOMAIN x
  BY <1>1, <1>4
<1>7. ReadOK(x, Joined) /\ x.pc \notin SignupPcs
  BY <1>2, <1>3, <1>5, <1>6 DEF ReadOK, SignupPcs
<1> QED
  BY <1>2, <1>7, ReadingKeeps

LEMMA CommitCorrectionKeeps ==
    ASSUME SponsorInv, NEW c \in Clients, CommitCorrection(c), SponsorshipAssumption
    PROVE  SponsorInv'
<1>1. PICK r : r = req[c]
  OBVIOUS
<1>2. PICK off : off = [r.old EXCEPT !.active = FALSE]
  OBVIOUS
<1>3. PICK new : new = NewLink(r, r.born)
  OBVIOUS
<1>4. /\ r.pc = "written" /\ req' = [req EXCEPT ![c] = Idle]
      /\ link' = [link EXCEPT ![r.u] = (@ \ {r.old}) \union {off, new}]
      /\ sponsorOf' = [sponsorOf EXCEPT ![r.u] = r.s]
  BY <1>1, <1>2, <1>3 DEF CommitCorrection, ReplaceLink, At, Finish, Goto
<1>5. /\ r.u \in Joined /\ r.s \in Joined /\ PathOK(r.u, r.path, Joined)
      /\ "path" \in DOMAIN r.old /\ PathOK(r.u, r.old.path, Joined)
  BY <1>1, <1>4 DEF SponsorInv, RequestsOK, ReadOK
<1>6. DOMAIN sponsorOf' = Users /\ Joined' = Joined
  BY <1>4, <1>5, SponsorSaved DEF SponsorshipAssumption, Joined
<1>7. "path" \in DOMAIN off /\ off.path = r.old.path /\ "path" \in DOMAIN new /\ new.path = r.path
  BY <1>2, <1>3, <1>5 DEF NewLink
<1>8. r.u \in Users /\ DOMAIN link = Users
  BY <1>5 DEF SponsorInv, LinksOK, Joined
<1>9. DOMAIN link' = Users
      /\ \A u \in Users : link'[u] = IF u = r.u THEN (link[u] \ {r.old}) \union {off, new} ELSE link[u]
  BY <1>4, <1>8
<1>10. ASSUME NEW u \in Users, NEW l \in link'[u]
       PROVE  "path" \in DOMAIN l /\ PathOK(u, l.path, Joined)
  <2>1. CASE l \in link[u]
    BY <2>1 DEF SponsorInv, LinksOK
  <2>2. CASE l \notin link[u]
    BY <1>5, <1>7, <1>9, <1>10, <2>2
  <2> QED
    BY <2>1, <2>2
<1>11. LinksOK'
  BY <1>6, <1>9, <1>10 DEF LinksOK
<1>12. PICK x : x = Idle
  OBVIOUS
<1> QED
  BY <1>4, <1>6, <1>11, <1>12, IdleReadOK, OtherStepKeeps

LEMMA BeginProfileKeeps ==
    ASSUME SponsorInv, NEW c \in Clients, NEW u \in Users, BeginProfile(c, u)
    PROVE  SponsorInv'
<1>1. PICK x : x = [pc |-> "profile", u |-> u, copy |-> sponsorOf[u]]
  OBVIOUS
<1>2. /\ req' = [req EXCEPT ![c] = x] /\ sponsorOf' = sponsorOf /\ link' = link /\ u \in Joined
  BY <1>1 DEF BeginProfile, Goto
<1>3. ReadOK(x, Joined) /\ x.pc \notin SignupPcs
  BY <1>1, <1>2 DEF ReadOK, SignupPcs, Joined
<1> QED
  BY <1>2, <1>3, ReadingKeeps

LEMMA CommitProfileKeeps ==
    ASSUME SponsorInv, NEW c \in Clients, CommitProfile(c)
    PROVE  SponsorInv'
<1>1. /\ req[c].pc = "profile" /\ req' = [req EXCEPT ![c] = Idle] /\ link' = link
      /\ sponsorOf' = [sponsorOf EXCEPT ![req[c].u] = req[c].copy]
  BY DEF CommitProfile, At, Finish, Goto
<1>2. req[c].u \in Joined /\ req[c].copy # Absent
  BY <1>1 DEF SponsorInv, RequestsOK, ReadOK
<1>3. DOMAIN sponsorOf' = Users /\ Joined' = Joined
  BY <1>1, <1>2, SponsorSaved
<1>4. LinksOK'
  BY <1>1, <1>3 DEF SponsorInv, LinksOK
<1>5. PICK x : x = Idle
  OBVIOUS
<1> QED
  BY <1>1, <1>3, <1>4, <1>5, IdleReadOK, OtherStepKeeps

LEMMA GiveUpKeeps ==
    ASSUME SponsorInv, NEW c \in Clients, GiveUp(c)
    PROVE  SponsorInv'
<1>1. PICK x : x = Idle
  OBVIOUS
<1>2. req' = [req EXCEPT ![c] = x] /\ sponsorOf' = sponsorOf /\ link' = link
  BY <1>1 DEF GiveUp, Finish, Goto
<1> QED
  BY <1>1, <1>2, IdleReadOK, ReadingKeeps

LEMMA NodesOnly ==
    ASSUME SponsorInv, sponsorOf' = sponsorOf, link' = link, req' = req
    PROVE  SponsorInv'
BY DEF SponsorInv, LinksOK, RequestsOK, OneSignupEach, SigningUp, Joined

(***************************************************************************)
(* The invariant                                                           *)
(***************************************************************************)
LEMMA SponsorInvInit == SponsorshipAssumption /\ Init => SponsorInv
<1> SUFFICES ASSUME SponsorshipAssumption, Init PROVE SponsorInv
  OBVIOUS
<1>1. LinksOK
  BY DEF Init, LinksOK
<1>2. \A c \in Clients : req[c] = Idle
  BY DEF Init
<1>3. RequestsOK
  BY <1>2, IdleReadOK DEF Init, RequestsOK
<1>4. OneSignupEach
  BY <1>2 DEF OneSignupEach, SigningUp, SignupPcs, Idle
<1> QED
  BY <1>1, <1>3, <1>4 DEF SponsorInv

LEMMA SponsorInvStep ==
    ASSUME SponsorshipAssumption, SponsorInv, [Next]_vars
    PROVE  SponsorInv'
<1>1. ASSUME NEW c \in Clients, NEW u \in Users, BeginSignup(c, u) PROVE SponsorInv'
  BY <1>1, BeginSignupKeeps
<1>2. ASSUME NEW c \in Clients, NEW u \in Users, BeginProfile(c, u) PROVE SponsorInv'
  BY <1>2, BeginProfileKeeps
<1>3. ASSUME NEW c \in Clients, NEW u \in Users, NEW s \in Users, BeginCorrection(c, u, s)
      PROVE  SponsorInv'
  BY <1>3, BeginCorrectionKeeps
<1>4. ASSUME NEW c \in Clients, RequestStep(c) PROVE SponsorInv'
  <2>1. ASSUME NEW s \in Users, RedeemCode(c, s) PROVE SponsorInv'
    BY <2>1, RedeemCodeKeeps
  <2>2. CASE ReadUpline(c) \/ ReadAfterWait(c)
    BY <2>2, ReadUplineKeeps
  <2>3. CASE CommitSignup(c)
    BY <2>3, CommitSignupKeeps
  <2>4. CASE CommitWithoutCode(c)
    BY <2>4, CommitWithoutCodeKeeps
  <2>5. CASE WriteCorrection(c)
    BY <2>5, WriteCorrectionKeeps
  <2>6. CASE CommitCorrection(c)
    BY <2>6, CommitCorrectionKeeps
  <2>7. CASE CommitProfile(c)
    BY <2>7, CommitProfileKeeps
  <2>8. CASE GiveUp(c)
    BY <2>8, GiveUpKeeps
  <2>9. CASE ReadSponsorNode(c)
    BY <2>9, ReadSponsorNodeKeeps
  <2> QED
    BY <1>4, <2>1, <2>2, <2>3, <2>4, <2>5, <2>6, <2>7, <2>8, <2>9 DEF RequestStep
<1>5. ASSUME NEW u \in Users, NEW s \in Users, ApplyGraphCorrection(u, s) PROVE SponsorInv'
  BY <1>5, NodesOnly DEF ApplyGraphCorrection
<1>6. CASE RebuildStep
  BY <1>6, NodesOnly DEF RebuildStep, StartRebuild, ReadNodes, BuildNodeForUser, SaveCounters
<1>7. CASE RebuildCrashes
  BY <1>7, NodesOnly DEF RebuildCrashes
<1>8. CASE UNCHANGED vars
  BY <1>8, NodesOnly DEF vars
<1> QED
  BY <1>1, <1>2, <1>3, <1>4, <1>5, <1>6, <1>7, <1>8 DEF Next

\* No link ever lists its user as its own upline, whatever signups, corrections,
\* profile updates and rebuilds run beside each other.
THEOREM NobodyAbove == Spec => []NobodyAboveThemselves
<1>1. Init => SponsorInv
  BY SponsorshipAssumption, SponsorInvInit
<1>2. SponsorInv /\ [Next]_vars => SponsorInv'
  BY SponsorshipAssumption, SponsorInvStep
<1>3. SponsorInv => NobodyAboveThemselves
  BY DEF SponsorInv, LinksOK, PathOK, NobodyAboveThemselves
<1> QED
  BY <1>1, <1>2, <1>3, PTL DEF Spec

(***************************************************************************)
(* Redemptions.  A request that has checked a code holds it, so nobody     *)
(* else can use it up before the request commits.                          *)
(***************************************************************************)
Redeemed(s) == {u \in Users : \E l \in link[u] : l.born = 0 /\ l.sponsor = s}

LinkFields == \A u \in Users : \A l \in link[u] : {"born", "sponsor"} \subseteq DOMAIN l

CountsOK ==
    /\ DOMAIN uses = Users
    /\ \A s \in Users :
          /\ uses[s] \in Nat /\ uses[s] <= MaxUses
          /\ IsFiniteSet(Redeemed(s)) /\ Cardinality(Redeemed(s)) <= uses[s]

HolderPcs == {"redeemed", "waiting", "placed"}

\* A code that is held has a use left.
CodesHeld == \A c \in Clients : req[c].pc \in HolderPcs => CodeUsable(req[c].s)

\* A correction replaces a link by one that redeems nothing; the replaced link
\* stays, so its redemption stays counted.
CorrectionFields(r) ==
    r.pc \in {"correcting", "written"} =>
        /\ {"pc", "born", "u", "old"} \subseteq DOMAIN r /\ r.born # 0
        /\ {"born", "sponsor"} \subseteq DOMAIN r.old

CorrectionCounted(r) ==
    r.pc \in {"correcting", "written"} /\ r.old.born = 0 => r.u \in Redeemed(r.old.sponsor)

CorrectionsOK ==
    \A c \in Clients : CorrectionFields(req[c]) /\ CorrectionCounted(req[c])

RedeemInv == LinkFields /\ CountsOK /\ CodesHeld /\ CorrectionsOK /\ changes \in Nat

\* Request c takes a step that leaves the links and codes alone.
LEMMA RedeemReading ==
    ASSUME SponsorInv, RedeemInv, NEW c \in Clients, NEW x, req' = [req EXCEPT ![c] = x],
           link' = link, uses' = uses, changes' \in Nat,
           x.pc \in HolderPcs => CodeUsable(x.s),
           CorrectionFields(x), CorrectionCounted(x)
    PROVE  RedeemInv'
<1>1. \A d \in Clients : req'[d] = IF d = c THEN x ELSE req[d]
  BY DEF SponsorInv, RequestsOK
<1>2. \A s : Redeemed(s)' = Redeemed(s)
  BY DEF Redeemed
<1>3. LinkFields' /\ CountsOK'
  BY <1>2 DEF RedeemInv, LinkFields, CountsOK
<1>4. CodesHeld'
  BY <1>1 DEF RedeemInv, CodesHeld, CodeUsable
<1>5. ASSUME NEW d \in Clients PROVE CorrectionFields(req'[d]) /\ CorrectionCounted(req'[d])
  BY <1>1 DEF RedeemInv, CorrectionsOK
<1>6. CorrectionsOK'
  BY <1>2, <1>5 DEF CorrectionsOK, CorrectionFields, CorrectionCounted
<1> QED
  BY <1>3, <1>4, <1>6 DEF RedeemInv

\* The step ends the request, and only the request's own user's links change;
\* what others have read stays true.
LEMMA RedeemWriting ==
    ASSUME SponsorInv, RedeemInv, NEW c \in Clients, req' = [req EXCEPT ![c] = Idle],
           LinkFields', CountsOK', changes' = changes,
           \A d \in Clients \ {c} :
              /\ req[d].pc \in HolderPcs => uses'[req[d].s] < MaxUses
              /\ req[d].pc \in {"correcting", "written"} =>
                    \A s : req[d].u \in Redeemed(s) => req[d].u \in Redeemed(s)'
    PROVE  RedeemInv'
<1>1. \A d \in Clients : req'[d] = IF d = c THEN Idle ELSE req[d]
  BY DEF SponsorInv, RequestsOK
<1>2. Idle.pc = "idle"
  BY DEF Idle
<1>3. CodesHeld'
  BY <1>1, <1>2 DEF RedeemInv, CodesHeld, CodeUsable, HolderPcs
<1>4. CorrectionsOK'
  <2> SUFFICES ASSUME NEW d \in Clients PROVE (CorrectionFields(req[d]) /\ CorrectionCounted(req[d]))'
    BY DEF CorrectionsOK
  <2>1. CASE d = c
    BY <1>1, <1>2, <2>1 DEF CorrectionFields, CorrectionCounted
  <2>2. CASE d # c
    <3>1. req'[d] = req[d] /\ CorrectionFields(req[d]) /\ CorrectionCounted(req[d])
      BY <1>1, <2>2 DEF RedeemInv, CorrectionsOK
    <3> QED
      BY <2>2, <3>1 DEF CorrectionFields, CorrectionCounted
  <2> QED
    BY <2>1, <2>2
<1> QED
  BY <1>3, <1>4 DEF RedeemInv

LEMMA CommitSignupCounted ==
    ASSUME SponsorInv, RedeemInv, NEW c \in Clients, CommitSignup(c), SponsorshipAssumption
    PROVE  RedeemInv'
<1>1. PICK r : r = req[c]
  OBVIOUS
<1>2. PICK new : new = NewLink(r, 0)
  OBVIOUS
<1>3. /\ r.pc = "placed" /\ CodeHolders(r.s) = {c}
      /\ link' = [link EXCEPT ![r.u] = {new}]
      /\ uses' = [uses EXCEPT ![r.s] = @ + 1]
      /\ req' = [req EXCEPT ![c] = Idle] /\ changes' = changes
  BY <1>1, <1>2 DEF CommitSignup, SoleHolder, UseCode, At, Finish, Goto
<1>4. /\ r.u \in Users \ Joined /\ r.s \in Users /\ uses[r.s] < MaxUses
      /\ DOMAIN uses = Users /\ DOMAIN link = Users
  BY <1>1, <1>3 DEF SponsorInv, LinksOK, RequestsOK, ReadOK, SignupPcs, Joined,
                    RedeemInv, CountsOK, CodesHeld, CodeUsable, HolderPcs
<1>5. new.born = 0 /\ new.sponsor = r.s /\ {"born", "sponsor"} \subseteq DOMAIN new
  BY <1>2 DEF NewLink
<1>6. \A u \in Users : link'[u] = IF u = r.u THEN {new} ELSE link[u]
  BY <1>3, <1>4
<1>7. \A s \in Users : uses'[s] = IF s = r.s THEN uses[s] + 1 ELSE uses[s]
  BY <1>3, <1>4
<1>8. LinkFields'
  BY <1>5, <1>6 DEF LinkFields, RedeemInv
<1>9. ASSUME NEW s \in Users
      PROVE  /\ uses'[s] \in Nat /\ uses'[s] <= MaxUses
             /\ IsFiniteSet(Redeemed(s)') /\ Cardinality(Redeemed(s)') <= uses'[s]
  <2>1. /\ uses[s] \in Nat /\ uses[s] <= MaxUses
        /\ IsFiniteSet(Redeemed(s)) /\ Cardinality(Redeemed(s)) <= uses[s]
    BY DEF RedeemInv, CountsOK
  <2>2. CASE s = r.s
    <3>1. Redeemed(s)' \subseteq Redeemed(s) \union {r.u}
      BY <1>6 DEF Redeemed
    <3>2. /\ IsFiniteSet(Redeemed(s) \union {r.u})
          /\ Cardinality(Redeemed(s) \union {r.u}) <= Cardinality(Redeemed(s)) + 1
          /\ Cardinality(Redeemed(s)) \in Nat
      <4>1. PICK S : S = Redeemed(s)
        OBVIOUS
      <4>2. PICK u : u = r.u
        OBVIOUS
      <4>3. IsFiniteSet(S)
        BY <2>1, <4>1
      <4>4. Cardinality(S) \in Nat
        BY <4>3, FS_CardinalityType
      <4>5. /\ IsFiniteSet(S \union {u})
            /\ Cardinality(S \union {u}) = IF u \in S THEN Cardinality(S) ELSE Cardinality(S) + 1
        BY <4>3, FS_AddElement
      <4> QED
        BY <4>1, <4>2, <4>4, <4>5
    <3>3. /\ IsFiniteSet(Redeemed(s)')
          /\ Cardinality(Redeemed(s)') <= Cardinality(Redeemed(s) \union {r.u})
          /\ Cardinality(Redeemed(s)') \in Nat /\ Cardinality(Redeemed(s) \union {r.u}) \in Nat
      BY <3>1, <3>2, FS_Subset, FS_CardinalityType
    <3>4. uses'[s] = uses[s] + 1 /\ uses[s] < MaxUses /\ MaxUses \in Nat
      BY <1>4, <1>7, <2>2 DEF SponsorshipAssumption
    <3> QED
      BY <2>1, <3>2, <3>3, <3>4
  <2>3. CASE s # r.s
    <3>1. Redeemed(s)' \subseteq Redeemed(s)
      BY <1>5, <1>6, <2>3 DEF Redeemed
    <3>2. /\ IsFiniteSet(Redeemed(s)') /\ Cardinality(Redeemed(s)') <= Cardinality(Redeemed(s))
          /\ Cardinality(Redeemed(s)') \in Nat /\ Cardinality(Redeemed(s)) \in Nat
      BY <2>1, <3>1, FS_Subset, FS_CardinalityType
    <3>3. uses'[s] = uses[s]
      BY <1>7, <2>3
    <3> QED
      BY <2>1, <3>2, <3>3
  <2> QED
    BY <2>2, <2>3
<1>10. DOMAIN uses' = Users
  BY <1>3, <1>4
<1>11. CountsOK'
  BY <1>9, <1>10 DEF CountsOK
<1>12. ASSUME NEW d \in Clients \ {c}
       PROVE  /\ req[d].pc \in HolderPcs => uses'[req[d].s] < MaxUses
              /\ req[d].pc \in {"correcting", "written"} =>
                    \A s : req[d].u \in Redeemed(s) => req[d].u \in Redeemed(s)'
  <2>1. ASSUME req[d].pc \in HolderPcs PROVE uses'[req[d].s] < MaxUses
    <3>1. req[d].s # r.s
      BY <1>3, <2>1 DEF CodeHolders, HolderPcs
    <3>2. req[d].s \in Users /\ uses[req[d].s] < MaxUses
      BY <2>1 DEF SponsorInv, RequestsOK, ReadOK, Joined, RedeemInv, CodesHeld, CodeUsable, HolderPcs
    <3> QED
      BY <1>7, <3>1, <3>2
  <2>2. ASSUME req[d].pc \in {"correcting", "written"} PROVE req[d].u \in Users /\ req[d].u # r.u
    BY <1>4, <2>2 DEF SponsorInv, RequestsOK, ReadOK, Joined
  <2>3. ASSUME NEW u \in Users, u # r.u, NEW s, u \in Redeemed(s) PROVE u \in Redeemed(s)'
    <3>1. link'[u] = link[u]
      BY <1>6, <2>3
    <3> QED
      BY <2>3, <3>1 DEF Redeemed
  <2> QED
    BY <2>1, <2>2, <2>3
<1> QED
  BY <1>3, <1>8, <1>11, <1>12, RedeemWriting

LEMMA CommitCorrectionCounted ==
    ASSUME SponsorInv, RedeemInv, NEW c \in Clients, CommitCorrection(c)
    PROVE  RedeemInv'
<1>1. PICK r : r = req[c]
  OBVIOUS
<1>2. PICK off : off = [r.old EXCEPT !.active = FALSE]
  OBVIOUS
<1>3. PICK new : new = NewLink(r, r.born)
  OBVIOUS
<1>4. /\ r.pc = "written" /\ req' = [req EXCEPT ![c] = Idle]
      /\ link' = [link EXCEPT ![r.u] = (@ \ {r.old}) \union {off, new}]
      /\ uses' = uses /\ changes' = changes
  BY <1>1, <1>2, <1>3 DEF CommitCorrection, ReplaceLink, At, Finish, Goto
<1>5. /\ r.u \in Users /\ DOMAIN link = Users
      /\ r.born # 0 /\ {"born", "sponsor"} \subseteq DOMAIN r.old
      /\ r.old.born = 0 => r.u \in Redeemed(r.old.sponsor)
  BY <1>1, <1>4 DEF SponsorInv, LinksOK, RequestsOK, ReadOK, Joined,
                    RedeemInv, CorrectionsOK, CorrectionFields, CorrectionCounted
<1>6. /\ {"born", "sponsor"} \subseteq DOMAIN off
      /\ off.born = r.old.born /\ off.sponsor = r.old.sponsor
  BY <1>2, <1>5
<1>7. {"born", "sponsor"} \subseteq DOMAIN new /\ new.born # 0
  BY <1>3, <1>5 DEF NewLink
<1>8. \A u \in Users : link'[u] = IF u = r.u THEN (link[u] \ {r.old}) \union {off, new} ELSE link[u]
  BY <1>4, <1>5
<1>9. LinkFields'
  BY <1>6, <1>7, <1>8 DEF LinkFields, RedeemInv
<1>10. ASSUME NEW s PROVE Redeemed(s)' = Redeemed(s)
  <2>1. ASSUME NEW u \in Redeemed(s)' PROVE u \in Redeemed(s)
    <3>1. PICK l \in link'[u] : l.born = 0 /\ l.sponsor = s
      BY <2>1 DEF Redeemed
    <3>2. u \in Users
      BY <2>1 DEF Redeemed
    <3>3. CASE l \in link[u]
      BY <3>1, <3>2, <3>3 DEF Redeemed
    <3>4. CASE l \notin link[u]
      BY <1>5, <1>6, <1>7, <1>8, <3>1, <3>2, <3>4
    <3> QED
      BY <3>3, <3>4
  <2>2. ASSUME NEW u \in Redeemed(s) PROVE u \in Redeemed(s)'
    <3>1. PICK l \in link[u] : l.born = 0 /\ l.sponsor = s
      BY <2>2 DEF Redeemed
    <3>2. u \in Users
      BY <2>2 DEF Redeemed
    <3>3. CASE u = r.u /\ l = r.old
      BY <1>6, <1>8, <3>1, <3>2, <3>3 DEF Redeemed
    <3>4. CASE ~(u = r.u /\ l = r.old)
      BY <1>8, <3>1, <3>2, <3>4 DEF Redeemed
    <3> QED
      BY <3>3, <3>4
  <2> QED
    BY <2>1, <2>2
<1>11. CountsOK'
  BY <1>4, <1>10 DEF RedeemInv, CountsOK
<1>12. \A d \in Clients \ {c} : req[d].pc \in HolderPcs => uses'[req[d].s] < MaxUses
  BY <1>4 DEF RedeemInv, CodesHeld, CodeUsable
<1>13. \A d \in Clients : \A s : req[d].u \in Redeemed(s) => req[d].u \in Redeemed(s)'
  BY <1>10
<1> QED
  BY <1>4, <1>9, <1>11, <1>12, <1>13, RedeemWriting

LEMMA BeginCorrectionCounted ==
    ASSUME SponsorInv, RedeemInv, NEW c \in Clients, NEW u \in Users, NEW s \in Users,
           BeginCorrection(c, u, s)
    PROVE  RedeemInv'
<1>1. PICK old \in Active(u), parent \in ParentPaths(s) :
         Goto(c, [pc |-> "correcting", u |-> u, s |-> s, old |-> old,
                  path |-> <<s>> \o parent, born |-> changes + 1])
  BY DEF BeginCorrection
<1>2. PICK path : path = <<s>> \o parent
  OBVIOUS
<1>3. PICK born : born = changes + 1
  OBVIOUS
<1>4. PICK x : x = [pc |-> "correcting", u |-> u, s |-> s, old |-> old, path |-> path, born |-> born]
  OBVIOUS
<1>5. req' = [req EXCEPT ![c] = x]
  BY <1>1, <1>2, <1>3, <1>4 DEF Goto
<1>6. /\ link' = link /\ uses' = uses /\ changes' \in Nat /\ born # 0
      /\ old \in link[u] /\ {"born", "sponsor"} \subseteq DOMAIN old
  BY <1>3 DEF BeginCorrection, RedeemInv, LinkFields, Active
<1>7. /\ x.pc = "correcting" /\ x.u = u /\ x.old = old /\ x.born = born
      /\ {"pc", "born", "u", "old"} \subseteq DOMAIN x
  BY <1>4
<1>8. CorrectionFields(x) /\ CorrectionCounted(x)
  BY <1>6, <1>7 DEF CorrectionFields, CorrectionCounted, Redeemed
<1> QED
  BY <1>5, <1>6, <1>7, <1>8, RedeemReading DEF HolderPcs

LEMMA WriteCorrectionCounted ==
    ASSUME SponsorInv, RedeemInv, NEW c \in Clients, WriteCorrection(c)
    PROVE  RedeemInv'
<1>1. PICK x : x = [req[c] EXCEPT !.pc = "written"]
  OBVIOUS
<1>2. /\ req[c].pc = "correcting" /\ req' = [req EXCEPT ![c] = x]
      /\ link' = link /\ uses' = uses /\ changes' = changes
  BY <1>1 DEF WriteCorrection, At, Goto
<1>3. CorrectionFields(req[c]) /\ CorrectionCounted(req[c]) /\ changes \in Nat
  BY DEF RedeemInv, CorrectionsOK
<1>4. {"pc", "born", "u", "old"} \subseteq DOMAIN req[c]
  BY <1>2, <1>3 DEF CorrectionFields
<1>5. /\ x.pc = "written" /\ x.u = req[c].u /\ x.old = req[c].old /\ x.born = req[c].born
      /\ {"pc", "born", "u", "old"} \subseteq DOMAIN x
  BY <1>1, <1>4
<1>6. CorrectionFields(x) /\ CorrectionCounted(x)
  BY <1>2, <1>3, <1>5 DEF CorrectionFields, CorrectionCounted
<1> QED
  BY <1>2, <1>3, <1>5, <1>6, RedeemReading DEF HolderPcs

\* The other steps of a request: a signup that checks the code, reads on or has
\* no code, and a request that reads or saves a profile or ends.
LEMMA OtherStepsCounted ==
    ASSUME SponsorInv, RedeemInv, NEW c \in Clients, NEW x, req' = [req EXCEPT ![c] = x],
           link' = link, uses' = uses, changes' \in Nat,
           x.pc \notin {"correcting", "written"},
           x.pc \in HolderPcs => CodeUsable(x.s)
    PROVE  RedeemInv'
BY RedeemReading DEF CorrectionFields, CorrectionCounted

LEMMA EndingCounted ==
    ASSUME SponsorInv, RedeemInv, NEW c \in Clients, req' = [req EXCEPT ![c] = Idle],
           link' = link, uses' = uses, changes' = changes
    PROVE  RedeemInv'
<1>1. PICK x : x = Idle
  OBVIOUS
<1>2. x.pc = "idle"
  BY <1>1 DEF Idle
<1>3. changes' \in Nat
  BY DEF RedeemInv
<1> QED
  BY <1>1, <1>2, <1>3, OtherStepsCounted DEF HolderPcs

LEMMA BeginningsCounted ==
    ASSUME SponsorInv, RedeemInv, NEW c \in Clients, NEW u \in Users,
           BeginSignup(c, u) \/ BeginProfile(c, u)
    PROVE  RedeemInv'
<1>1. /\ link' = link /\ uses' = uses /\ changes' \in Nat
  BY DEF BeginSignup, BeginProfile, RedeemInv
<1>2. CASE BeginSignup(c, u)
  <2>1. PICK x : x = [pc |-> "signup", u |-> u]
    OBVIOUS
  <2>2. req' = [req EXCEPT ![c] = x] /\ x.pc = "signup"
    BY <1>2, <2>1 DEF BeginSignup, Goto
  <2> QED
    BY <1>1, <2>2, OtherStepsCounted DEF HolderPcs
<1>3. CASE BeginProfile(c, u)
  <2>1. PICK x : x = [pc |-> "profile", u |-> u, copy |-> sponsorOf[u]]
    OBVIOUS
  <2>2. req' = [req EXCEPT ![c] = x] /\ x.pc = "profile"
    BY <1>3, <2>1 DEF BeginProfile, Goto
  <2> QED
    BY <1>1, <2>2, OtherStepsCounted DEF HolderPcs
<1> QED
  BY <1>2, <1>3

LEMMA RedeemCodeCounted ==
    ASSUME SponsorInv, RedeemInv, NEW c \in Clients, NEW s \in Users, RedeemCode(c, s)
    PROVE  RedeemInv'
<1>1. PICK x : x = [pc |-> "redeemed", u |-> req[c].u, s |-> s]
  OBVIOUS
<1>2. /\ req' = [req EXCEPT ![c] = x] /\ link' = link /\ uses' = uses /\ changes' \in Nat
      /\ CodeUsable(s)
  BY <1>1 DEF RedeemCode, Goto, RedeemInv
<1>3. x.pc = "redeemed" /\ x.s = s
  BY <1>1
<1> QED
  BY <1>2, <1>3, OtherStepsCounted

LEMMA PlacedCounted ==
    ASSUME SponsorInv, RedeemInv, NEW c \in Clients, req[c].pc \in HolderPcs,
           NEW path, NEW seen, NEW copy, Placed(c, path, seen, copy),
           link' = link, uses' = uses, changes' \in Nat
    PROVE  RedeemInv'
<1>1. PICK x : x = [pc |-> "placed", u |-> req[c].u, s |-> req[c].s, path |-> path, seen |-> seen,
                   copy |-> copy]
  OBVIOUS
<1>2. req' = [req EXCEPT ![c] = x] /\ x.pc = "placed" /\ x.s = req[c].s
  BY <1>1 DEF Placed, Goto
<1>3. CodeUsable(req[c].s)
  BY DEF RedeemInv, CodesHeld
<1> QED
  BY <1>2, <1>3, OtherStepsCounted

LEMMA ReadUplineCounted ==
    ASSUME SponsorInv, RedeemInv, NEW c \in Clients, ReadUpline(c) \/ ReadAfterWait(c)
    PROVE  RedeemInv'
<1> DEFINE s == req[c].s
<1>1. /\ req[c].pc \in HolderPcs
      /\ link' = link /\ uses' = uses /\ changes' \in Nat
  BY DEF ReadUpline, ReadAfterWait, At, HolderPcs, RedeemInv
<1>2. ASSUME NEW l, Goto(c, [pc |-> "waiting", u |-> req[c].u, s |-> s, row |-> l]) PROVE RedeemInv'
  <2>1. PICK x : x = [pc |-> "waiting", u |-> req[c].u, s |-> s, row |-> l]
    OBVIOUS
  <2>2. req' = [req EXCEPT ![c] = x] /\ x.pc = "waiting" /\ x.s = s
    BY <1>2, <2>1 DEF Goto
  <2>3. CodeUsable(s)
    BY <1>1 DEF RedeemInv, CodesHeld
  <2> QED
    BY <1>1, <2>2, <2>3, OtherStepsCounted
<1>3. ASSUME NEW path, NEW seen, NEW copy, Placed(c, path, seen, copy) PROVE RedeemInv'
  BY <1>1, <1>3, PlacedCounted
<1>4. \/ \E l : Goto(c, [pc |-> "waiting", u |-> req[c].u, s |-> s, row |-> l])
      \/ \E path : \E seen : \E copy : Placed(c, path, seen, copy)
  BY DEF ReadUpline, ReadAfterWait
<1> HIDE DEF s
<1> QED
  BY <1>2, <1>3, <1>4

LEMMA ReadSponsorNodeCounted ==
    ASSUME SponsorInv, RedeemInv, NEW c \in Clients, ReadSponsorNode(c)
    PROVE  RedeemInv'
<1>1. /\ req[c].pc \in HolderPcs
      /\ link' = link /\ uses' = uses /\ changes' \in Nat
      /\ Placed(c, req[c].path, req[c].seen, {node[req[c].s]})
  BY DEF ReadSponsorNode, At, HolderPcs, RedeemInv
<1> QED
  BY <1>1, PlacedCounted

LEMMA NodesOnlyCounted ==
    ASSUME RedeemInv, link' = link, uses' = uses, req' = req, changes' \in Nat
    PROVE  RedeemInv'
BY DEF RedeemInv, LinkFields, CountsOK, CodesHeld, CodeUsable, CorrectionsOK,
       CorrectionFields, CorrectionCounted, Redeemed

LEMMA RedeemInvInit == SponsorshipAssumption /\ Init => RedeemInv
<1> SUFFICES ASSUME SponsorshipAssumption, Init PROVE RedeemInv
  OBVIOUS
<1>1. \A s : Redeemed(s) = {}
  BY DEF Init, Redeemed
<1>2. LinkFields /\ CountsOK /\ changes \in Nat
  BY <1>1, FS_EmptySet DEF Init, LinkFields, CountsOK, SponsorshipAssumption
<1>3. \A c \in Clients : req[c].pc = "idle"
  BY DEF Init, Idle
<1>4. CodesHeld /\ CorrectionsOK
  BY <1>3 DEF CodesHeld, HolderPcs, CorrectionsOK, CorrectionFields, CorrectionCounted
<1> QED
  BY <1>2, <1>4 DEF RedeemInv

LEMMA RedeemInvStep ==
    ASSUME SponsorshipAssumption, SponsorInv, RedeemInv, [Next]_vars
    PROVE  RedeemInv'
<1>1. ASSUME NEW c \in Clients, NEW u \in Users, BeginSignup(c, u) \/ BeginProfile(c, u)
      PROVE  RedeemInv'
  BY <1>1, BeginningsCounted
<1>2. ASSUME NEW c \in Clients, NEW u \in Users, NEW s \in Users, BeginCorrection(c, u, s)
      PROVE  RedeemInv'
  BY <1>2, BeginCorrectionCounted
<1>3. ASSUME NEW c \in Clients, RequestStep(c) PROVE RedeemInv'
  <2>1. ASSUME NEW s \in Users, RedeemCode(c, s) PROVE RedeemInv'
    BY <2>1, RedeemCodeCounted
  <2>2. CASE ReadUpline(c) \/ ReadAfterWait(c)
    BY <2>2, ReadUplineCounted
  <2>3. CASE CommitSignup(c)
    BY <2>3, CommitSignupCounted
  <2>4. CASE CommitWithoutCode(c) \/ CommitProfile(c) \/ GiveUp(c)
    BY <2>4, EndingCounted DEF CommitWithoutCode, CommitProfile, GiveUp, Finish, Goto
  <2>5. CASE WriteCorrection(c)
    BY <2>5, WriteCorrectionCounted
  <2>6. CASE CommitCorrection(c)
    BY <2>6, CommitCorrectionCounted
  <2>7. CASE ReadSponsorNode(c)
    BY <2>7, ReadSponsorNodeCounted
  <2> QED
    BY <1>3, <2>1, <2>2, <2>3, <2>4, <2>5, <2>6, <2>7 DEF RequestStep
<1>4. ASSUME NEW u \in Users, NEW s \in Users, ApplyGraphCorrection(u, s) PROVE RedeemInv'
  <2>1. link' = link /\ uses' = uses /\ req' = req /\ changes' \in Nat
    BY <1>4 DEF ApplyGraphCorrection, RedeemInv
  <2> QED
    BY <2>1, NodesOnlyCounted
<1>5. CASE RebuildStep \/ RebuildCrashes \/ UNCHANGED vars
  <2>1. /\ link' = link /\ uses' = uses /\ req' = req
        /\ changes' = changes \/ changes' = changes + 1
    BY <1>5 DEF RebuildStep, StartRebuild, ReadNodes, BuildNodeForUser, SaveCounters,
                RebuildCrashes, vars
  <2>2. changes' \in Nat
    BY <2>1 DEF RedeemInv
  <2> QED
    BY <2>1, <2>2, NodesOnlyCounted
<1> QED
  BY <1>1, <1>2, <1>3, <1>4, <1>5 DEF Next

\* A referral code is never redeemed more often than max_uses allows, however many
\* signups redeem it at once.
THEOREM RedemptionLimit == Spec => []RedemptionsWithinLimit
<1>1. Init => SponsorInv /\ RedeemInv
  BY SponsorshipAssumption, SponsorInvInit, RedeemInvInit
<1>2. SponsorInv /\ RedeemInv /\ [Next]_vars => SponsorInv' /\ RedeemInv'
  BY SponsorshipAssumption, SponsorInvStep, RedeemInvStep
<1>3. RedeemInv => RedemptionsWithinLimit
  <2> SUFFICES ASSUME RedeemInv, NEW s \in Users PROVE Cardinality(Redeemed(s)) <= MaxUses
    BY DEF RedemptionsWithinLimit, Redeemed
  <2>1. /\ uses[s] \in Nat /\ uses[s] <= MaxUses
        /\ IsFiniteSet(Redeemed(s)) /\ Cardinality(Redeemed(s)) <= uses[s]
    BY DEF RedeemInv, CountsOK
  <2> QED
    BY <2>1, FS_CardinalityType, SponsorshipAssumption DEF SponsorshipAssumption
<1> QED
  BY <1>1, <1>2, <1>3, PTL DEF Spec

(***************************************************************************)
(* Uplines.  What a path continues stays what it was until the sponsor it  *)
(* starts with is corrected.                                               *)
(***************************************************************************)
Original(s) == \A k \in link[s] : k.born = 0

Continues(path, s) ==
    Original(s) => (link[s] = {} => Tail(path) = <<>>) /\ \A l \in link[s] : Tail(path) = l.path

RowOK(l) ==
    /\ {"sponsor", "path", "active", "born"} \subseteq DOMAIN l
    /\ l.born \in 0..changes /\ l.sponsor \in Joined /\ Continues(l.path, l.sponsor)

\* A signup that waits for a link finds it again, or the sponsor was corrected.
Carries(r) ==
    /\ r.pc = "waiting" => (r.row \in link[r.s] /\ r.row.active) \/ ~Original(r.s)
    /\ r.pc = "placed" => Continues(r.path, r.s)
    /\ r.pc \in {"correcting", "written"} =>
          /\ {"pc", "u", "s", "old", "path", "born"} \subseteq DOMAIN r
          /\ Continues(r.path, r.s) /\ r.born \in 1..changes /\ RowOK(r.old)

PathInv ==
    /\ changes \in Nat
    /\ \A u \in Users : \A l \in link[u] : RowOK(l)
    /\ \A u \in Users \ Joined : link[u] = {}
    /\ \A s \in Users : Original(s) => \A k, l \in link[s] : k = l /\ l.active
    /\ \A c \in Clients : Carries(req[c])

LEMMA TailBelow ==
    ASSUME NEW J, NEW s \in J, NEW p \in Seq(J)
    PROVE  Tail(<<s>> \o p) = p
<1>1. <<s>> \in Seq(J) /\ Len(<<s>>) = 1
  OBVIOUS
<1>2. PICK q : q = <<s>> \o p
  OBVIOUS
<1>3. /\ q \in Seq(J) /\ Len(q) = 1 + Len(p)
      /\ \A i \in 1..(1 + Len(p)) : q[i] = IF i <= 1 THEN <<s>>[i] ELSE p[i - 1]
  BY <1>1, <1>2, ConcatProperties
<1>4. Len(p) \in Nat /\ q # <<>>
  BY <1>3, LenProperties, EmptySeq
<1>5. PICK t : t = Tail(q)
  OBVIOUS
<1>6. t \in Seq(J) /\ Len(t) = Len(p) /\ \A i \in 1..Len(t) : t[i] = q[i + 1]
  BY <1>3, <1>4, <1>5, HeadTailProperties
<1>7. ASSUME NEW i \in 1..Len(t) PROVE t[i] = p[i]
  <2>1. i + 1 \in 1..(1 + Len(p)) /\ ~(i + 1 <= 1) /\ (i + 1) - 1 = i
    BY <1>4, <1>6
  <2>2. QED
    BY <1>3, <1>6, <2>1
<1>8. QED
  BY <1>2, <1>5, <1>6, <1>7, SeqEqual

LEMMA TailOfOne ==
    ASSUME NEW J, NEW s \in J
    PROVE  Tail(<<s>>) = <<>>
<1>1. <<>> \in Seq(J) /\ <<s>> \in Seq(J)
  BY EmptySeq
<1>2. <<s>> \o <<>> = <<s>>
  BY <1>1, ConcatEmptySeq
<1>3. QED
  BY <1>1, <1>2, TailBelow

\* What has been read about a sponsor stays true while its links stay, and once
\* it is corrected there is nothing left to show.
Steady ==
    /\ Joined \subseteq Joined' /\ changes' \in Nat /\ changes <= changes'
    /\ \A s \in Joined : link'[s] = link[s] \/ \E k \in link'[s] : k.born # 0

LEMMA ContinuesStays ==
    ASSUME Steady, NEW s \in Joined, NEW path, Continues(path, s)
    PROVE  Continues(path, s)'
  BY DEF Steady, Continues, Original

LEMMA RowStays ==
    ASSUME PathInv, Steady, NEW l, RowOK(l)
    PROVE  RowOK(l)'
<1>1. Continues(l.path, l.sponsor)'
  BY ContinuesStays DEF RowOK
<1>2. l.born \in 0..changes' /\ l.sponsor \in Joined'
  BY DEF RowOK, PathInv, Steady
<1>3. QED
  BY <1>1, <1>2 DEF RowOK

LEMMA CarriesStays ==
    ASSUME PathInv, Steady, NEW r, Carries(r), ReadOK(r, Joined)
    PROVE  Carries(r)'
<1>1. r.pc \in {"waiting", "placed", "correcting", "written"} => r.s \in Joined
  BY DEF ReadOK
<1>2. CASE r.pc = "waiting"
  BY <1>1, <1>2 DEF Carries, Steady, Original
<1>3. CASE r.pc = "placed"
  BY <1>1, <1>3, ContinuesStays DEF Carries
<1>4. CASE r.pc \in {"correcting", "written"}
  <2>1. Continues(r.path, r.s)' /\ RowOK(r.old)'
    BY <1>1, <1>4, ContinuesStays, RowStays DEF Carries
  <2>2. r.born \in 1..changes'
    BY <1>4 DEF Carries, PathInv, Steady
  <2>3. QED
    BY <1>4, <2>1, <2>2 DEF Carries
<1>5. CASE r.pc \notin {"waiting", "placed", "correcting", "written"}
  BY <1>5 DEF Carries
<1>6. QED
  BY <1>2, <1>3, <1>4, <1>5

\* The requests, when one of them takes a step.
LEMMA RequestsCarry ==
    ASSUME SponsorInv, PathInv, Steady, NEW c \in Clients, NEW x, req' = [req EXCEPT ![c] = x], Carries(x)'
    PROVE  \A d \in Clients : Carries(req[d])'
<1>1. req'[c] = x /\ \A d \in Clients : d # c => req'[d] = req[d]
  BY DEF SponsorInv, RequestsOK
<1>2. SUFFICES ASSUME NEW d \in Clients PROVE Carries(req[d])'
  OBVIOUS
<1>3. CASE d = c
  BY <1>1, <1>3 DEF Carries, RowOK, Continues, Original, Joined
<1>4. CASE d # c
  <2>1. PICK r : r = req[d] /\ r = req'[d]
    BY <1>1, <1>4
  <2>2. Carries(r)'
    BY <2>1, CarriesStays DEF PathInv, SponsorInv, RequestsOK
  <2>3. QED
    BY <2>1, <2>2 DEF Carries, RowOK, Continues, Original, Joined
<1>5. QED
  BY <1>3, <1>4

\* A step of a request that writes no link.
LEMMA PathReading ==
    ASSUME SponsorInv, PathInv, NEW c \in Clients, NEW x, req' = [req EXCEPT ![c] = x],
           link' = link, Joined \subseteq Joined', changes' \in Nat, changes <= changes', Carries(x)'
    PROVE  PathInv'
<1>1. Steady
  BY DEF Steady
<1>2. \A u \in Users : \A l \in link[u] : RowOK(l)'
  BY <1>1, RowStays DEF PathInv
<1>3. \A d \in Clients : Carries(req[d])'
  BY <1>1, RequestsCarry
<1>4. \A s \in Users : (Original(s) => \A k, l \in link[s] : k = l /\ l.active)'
  BY DEF PathInv, Original
<1>5. \A u \in Users \ Joined' : link'[u] = {}
  BY DEF PathInv
<1>6. QED
  BY <1>2, <1>3, <1>4, <1>5 DEF PathInv

LEMMA PathNodes ==
    ASSUME PathInv, req' = req, link' = link, sponsorOf' = sponsorOf, changes' \in Nat, changes <= changes'
    PROVE  PathInv'
<1>1. Joined' = Joined
  BY DEF Joined
<1>2. Steady
  BY <1>1 DEF Steady
<1>3. \A u \in Users : \A l \in link[u] : RowOK(l)'
  BY <1>2, RowStays DEF PathInv
<1>4. \A c \in Clients : Carries(req[c])'
  <2>1. SUFFICES ASSUME NEW c \in Clients PROVE Carries(req[c])'
    OBVIOUS
  <2>2. Carries(req[c])
    BY DEF PathInv
  <2>3. /\ \A p, s : Continues(p, s)' = Continues(p, s)
        /\ \A s : Original(s)' = Original(s)
        /\ \A l : RowOK(l) => RowOK(l)'
    BY <1>2, RowStays DEF Continues, Original
  <2>4. changes \in Nat
    BY DEF PathInv
  <2>5. QED
    BY <2>2, <2>3, <2>4 DEF Carries
<1>5. QED
  BY <1>1, <1>3, <1>4 DEF PathInv, Original

(***************************************************************************)
(* Reading an upline                                                       *)
(***************************************************************************)
\* A request that carries nothing of an upline.
LEMMA CarriesNothing ==
    ASSUME NEW x, x.pc \notin {"waiting", "placed", "correcting", "written"}
    PROVE  Carries(x)'
  BY DEF Carries

LEMMA PathOfPlain ==
    ASSUME SponsorInv, PathInv, NEW c \in Clients, NEW x, req' = [req EXCEPT ![c] = x],
           link' = link, Joined \subseteq Joined', changes' = changes \/ changes' = changes + 1,
           x.pc \notin {"waiting", "placed", "correcting", "written"}
    PROVE  PathInv'
<1>1. changes' \in Nat /\ changes <= changes'
  BY DEF PathInv
<1>2. QED
  BY <1>1, CarriesNothing, PathReading

\* The members only grow.
LEMMA MembersStay ==
    ASSUME SponsorshipAssumption, SponsorInv, [Next]_vars
    PROVE  Joined \subseteq Joined'
<1>1. CASE sponsorOf' = sponsorOf
  BY <1>1 DEF Joined
<1>2. ASSUME NEW u \in Users, NEW s, s # Absent, sponsorOf' = [sponsorOf EXCEPT ![u] = s]
      PROVE  Joined \subseteq Joined'
  BY <1>2, SponsorsStay
<1>3. ASSUME NEW c \in Clients, RequestStep(c) PROVE Joined \subseteq Joined'
  <2>1. ReadOK(req[c], Joined)
    BY DEF SponsorInv, RequestsOK
  <2>2. None # Absent /\ \A s \in Joined : s # Absent /\ s \in Users
    BY DEF None, Absent, Joined
  <2>3. CASE CommitSignup(c)
    <3>1. req[c].u \in Users /\ req[c].s \in Users /\ Absent \notin Users
      BY <2>1, <2>2, <2>3 DEF CommitSignup, At, ReadOK, SignupPcs, SponsorshipAssumption
    <3>2. QED
      BY <1>2, <2>3, <3>1 DEF CommitSignup
  <2>4. CASE CommitWithoutCode(c)
    BY <1>2, <2>1, <2>2, <2>4 DEF CommitWithoutCode, At, ReadOK, SignupPcs
  <2>5. CASE CommitCorrection(c)
    <3>1. req[c].u \in Users /\ req[c].s \in Users /\ Absent \notin Users
      BY <2>1, <2>2, <2>5 DEF CommitCorrection, At, ReadOK, SponsorshipAssumption
    <3>2. QED
      BY <1>2, <2>5, <3>1 DEF CommitCorrection
  <2>6. CASE CommitProfile(c)
    BY <1>2, <2>1, <2>2, <2>6 DEF CommitProfile, At, ReadOK
  <2>7. QED
    BY <1>1, <1>3, <2>3, <2>4, <2>5, <2>6
       DEF RequestStep, RedeemCode, ReadUpline, ReadAfterWait, ReadSponsorNode, WriteCorrection, GiveUp
<1>4. CASE UNCHANGED vars
  BY <1>1, <1>4 DEF vars
<1>5. QED
  BY <1>1, <1>3, <1>4 DEF Next, BeginSignup, BeginProfile, BeginCorrection, ApplyGraphCorrection,
                          RebuildStep, StartRebuild, ReadNodes, BuildNodeForUser, SaveCounters, RebuildCrashes

\* What a signup or a correction puts below a sponsor continues the sponsor's path.
LEMMA ContinuesBelow ==
    ASSUME SponsorInv, PathInv, NEW s \in Joined, NEW l \in Active(s)
    PROVE  Continues(<<s>> \o l.path, s)
<1>1. s \in Users /\ l \in link[s]
  BY DEF Active, Joined
<1>2. l.path \in Seq(Joined)
  BY <1>1 DEF SponsorInv, LinksOK, PathOK
<1>3. PICK t : t = Tail(<<s>> \o l.path) /\ t = l.path
  BY <1>2, TailBelow
<1>4. Original(s) => \A k \in link[s] : k = l
  BY <1>1 DEF PathInv
<1>5. QED
  BY <1>1, <1>3, <1>4 DEF Continues

LEMMA ContinuesNone ==
    ASSUME PathInv, NEW s \in Joined, Active(s) = {} \/ ~Original(s)
    PROVE  Continues(<<s>>, s)
<1>1. s \in Users
  BY DEF Joined
<1>2. Original(s) => link[s] = {}
  BY <1>1 DEF PathInv, Active
<1>3. PICK t : t = Tail(<<s>>) /\ t = <<>>
  BY TailOfOne
<1>4. QED
  BY <1>2, <1>3 DEF Continues

LEMMA PathOfPlaced ==
    ASSUME SponsorInv, PathInv, NEW c \in Clients, NEW path, NEW seen, NEW copy, Placed(c, path, seen, copy),
           Continues(path, req[c].s),
           link' = link, sponsorOf' = sponsorOf, changes' = changes
    PROVE  PathInv'
<1>1. PICK x : x = [pc |-> "placed", u |-> req[c].u, s |-> req[c].s, path |-> path, seen |-> seen,
                   copy |-> copy]
  OBVIOUS
<1>2. req' = [req EXCEPT ![c] = x] /\ x.pc = "placed" /\ x.s = req[c].s /\ x.path = path
  BY <1>1 DEF Placed, Goto
<1>3. Carries(x)'
  BY <1>2 DEF Carries, Continues, Original
<1>4. Joined' = Joined
  BY DEF Joined
<1>5. changes' \in Nat /\ changes <= changes'
  BY DEF PathInv
<1>6. QED
  BY <1>2, <1>3, <1>4, <1>5, PathReading

LEMMA PathOfUpline ==
    ASSUME SponsorInv, PathInv, NEW c \in Clients, ReadUpline(c) \/ ReadAfterWait(c)
    PROVE  PathInv'
<1>1. PICK s : s = req[c].s
  OBVIOUS
<1>2. /\ req[c].pc \in {"redeemed", "waiting"}
      /\ sponsorOf' = sponsorOf /\ link' = link /\ changes' = changes
  BY DEF ReadUpline, ReadAfterWait, At
<1>3. s \in Joined
  BY <1>1, <1>2 DEF SponsorInv, RequestsOK, ReadOK
<1>4. ASSUME NEW l \in Active(s), Placed(c, PathBelow(s, l), {l}, {}) PROVE PathInv'
  <2>1. PICK path : path = PathBelow(s, l)
    OBVIOUS
  <2>2. Continues(path, s)
    BY <1>3, <2>1, ContinuesBelow DEF PathBelow
  <2>3. QED
    BY <1>1, <1>2, <1>4, <2>1, <2>2, PathOfPlaced
<1>5. ASSUME Active(s) = {} \/ ~Original(s), Placed(c, <<s>>, {}, {}) PROVE PathInv'
  <2>1. PICK path : path = <<s>>
    OBVIOUS
  <2>2. Continues(path, s)
    BY <1>3, <1>5, <2>1, ContinuesNone
  <2>3. QED
    BY <1>1, <1>2, <1>5, <2>1, <2>2, PathOfPlaced
<1>6. ASSUME NEW l \in Active(s), Goto(c, [pc |-> "waiting", u |-> req[c].u, s |-> s, row |-> l])
      PROVE  PathInv'
  <2>1. PICK x : x = [pc |-> "waiting", u |-> req[c].u, s |-> s, row |-> l]
    OBVIOUS
  <2>2. req' = [req EXCEPT ![c] = x] /\ x.pc = "waiting" /\ x.s = s /\ x.row = l
    BY <1>6, <2>1 DEF Goto
  <2>3. l \in link[s] /\ l.active
    BY <1>6 DEF Active
  <2>4. Carries(x)'
    BY <1>2, <2>2, <2>3 DEF Carries
  <2>5. changes' \in Nat /\ changes <= changes' /\ Joined' = Joined
    BY <1>2 DEF PathInv, Joined
  <2>6. QED
    BY <1>2, <2>2, <2>4, <2>5, PathReading
<1>7. CASE ReadUpline(c)
  BY <1>1, <1>4, <1>5, <1>6, <1>7 DEF ReadUpline
<1>8. CASE ReadAfterWait(c)
  <2>1. PICK l : /\ l = req[c].row /\ req[c].pc = "waiting"
                 /\ IF l \in Active(s) THEN Placed(c, PathBelow(s, l), {l}, {}) ELSE Placed(c, <<s>>, {}, {})
    BY <1>1, <1>8 DEF ReadAfterWait, At
  <2>2. l \in Active(s) \/ ~Original(s)
    BY <1>1, <2>1 DEF PathInv, Carries, Active
  <2>3. QED
    BY <1>4, <1>5, <2>1, <2>2
<1>9. QED
  BY <1>7, <1>8

LEMMA PathOfCorrection ==
    ASSUME SponsorInv, PathInv, NEW c \in Clients, NEW u \in Users, NEW s \in Users, BeginCorrection(c, u, s)
    PROVE  PathInv'
<1>1. PICK old \in Active(u), parent \in ParentPaths(s) :
         Goto(c, [pc |-> "correcting", u |-> u, s |-> s, old |-> old,
                  path |-> <<s>> \o parent, born |-> changes + 1])
  BY DEF BeginCorrection
<1>2. /\ sponsorOf' = sponsorOf /\ link' = link /\ changes' = changes + 1
      /\ u \in Joined /\ s \in Joined
  BY DEF BeginCorrection
<1>3. PICK path : path = <<s>> \o parent
  OBVIOUS
<1>4. Continues(path, s)
  <2>1. CASE Active(s) = {}
    <3>1. parent = <<>>
      BY <2>1 DEF ParentPaths
    <3>2. <<s>> \in Seq(Joined)
      BY <1>2
    <3>3. path = <<s>>
      BY <1>3, <3>1, <3>2, ConcatEmptySeq
    <3>4. QED
      BY <1>2, <2>1, <3>3, ContinuesNone
  <2>2. CASE Active(s) # {}
    <3>1. PICK l \in Active(s) : parent = l.path
      BY <2>2 DEF ParentPaths
    <3>2. QED
      BY <1>2, <1>3, <3>1, ContinuesBelow
  <2>3. QED
    BY <2>1, <2>2
<1>5. PICK x : x = [pc |-> "correcting", u |-> u, s |-> s, old |-> old, path |-> path, born |-> changes + 1]
  OBVIOUS
<1>6. /\ req' = [req EXCEPT ![c] = x] /\ x.pc = "correcting" /\ x.s = s /\ x.path = path /\ x.old = old
      /\ x.born = changes + 1 /\ {"pc", "u", "s", "old", "path", "born"} \subseteq DOMAIN x
  BY <1>1, <1>3, <1>5 DEF Goto
<1>7. changes \in Nat /\ changes' \in Nat /\ changes <= changes' /\ changes + 1 \in 1..changes'
  BY <1>2 DEF PathInv
<1>8. Joined' = Joined
  BY <1>2 DEF Joined
<1>9. Steady
  BY <1>2, <1>7, <1>8 DEF Steady
<1>10. RowOK(old)'
  BY <1>9, RowStays DEF PathInv, Active
<1>11. Continues(path, s)'
  BY <1>2, <1>4, <1>9, ContinuesStays
<1>12. Carries(x)'
  BY <1>6, <1>7, <1>10, <1>11 DEF Carries
<1>13. QED
  BY <1>2, <1>6, <1>7, <1>8, <1>12, PathReading

LEMMA PathOfWritten ==
    ASSUME SponsorInv, PathInv, NEW c \in Clients, WriteCorrection(c)
    PROVE  PathInv'
<1>1. PICK r, x : r = req[c] /\ x = [r EXCEPT !.pc = "written"]
  OBVIOUS
<1>2. /\ r.pc = "correcting" /\ req' = [req EXCEPT ![c] = x]
      /\ sponsorOf' = sponsorOf /\ link' = link /\ changes' = changes
  BY <1>1 DEF WriteCorrection, At, Goto
<1>3. Carries(r)
  BY <1>1 DEF PathInv
<1>4. {"pc", "u", "s", "old", "path", "born"} \subseteq DOMAIN r
  BY <1>2, <1>3 DEF Carries
<1>5. /\ x.pc = "written" /\ x.s = r.s /\ x.old = r.old /\ x.path = r.path /\ x.born = r.born
      /\ {"pc", "u", "s", "old", "path", "born"} \subseteq DOMAIN x
  BY <1>1, <1>4
<1>6. Joined' = Joined /\ changes' \in Nat /\ changes <= changes'
  BY <1>2 DEF Joined, PathInv
<1>7. Carries(x)'
  BY <1>2, <1>3, <1>5, <1>6 DEF Carries, RowOK, Continues, Original
<1>8. QED
  BY <1>2, <1>6, <1>7, PathReading

(***************************************************************************)
(* Writing a link                                                          *)
(***************************************************************************)
LEMMA PathOfSignup ==
    ASSUME SponsorInv, PathInv, Joined \subseteq Joined', NEW c \in Clients, CommitSignup(c),
           SponsorshipAssumption
    PROVE  PathInv'
<1>1. PICK r, new, x : r = req[c] /\ new = NewLink(r, 0) /\ x = Idle
  OBVIOUS
<1>2. /\ r.pc = "placed" /\ link' = [link EXCEPT ![r.u] = {new}] /\ req' = [req EXCEPT ![c] = x]
      /\ sponsorOf' = [sponsorOf EXCEPT ![r.u] = r.s] /\ changes' = changes
  BY <1>1 DEF CommitSignup, At, Finish, Goto
<1>3. r.u \in Users \ Joined /\ r.s \in Joined /\ r.s \in Users /\ Carries(r)
  BY <1>1, <1>2 DEF SponsorInv, RequestsOK, ReadOK, SignupPcs, PathInv, Joined
<1>4. DOMAIN link = Users /\ DOMAIN sponsorOf = Users
  BY DEF SponsorInv, LinksOK
<1>5. link'[r.u] = {new} /\ \A u \in Users : u # r.u => link'[u] = link[u]
  BY <1>2, <1>3, <1>4
<1>6. Steady
  BY <1>2, <1>3, <1>5 DEF Steady, PathInv, Joined
<1>7. /\ {"sponsor", "path", "active", "born"} \subseteq DOMAIN new
      /\ new.sponsor = r.s /\ new.path = r.path /\ new.active /\ new.born = 0
  BY <1>1 DEF NewLink
<1>8. RowOK(new)'
  <2>1. Continues(new.path, new.sponsor)'
    BY <1>2, <1>3, <1>6, <1>7, ContinuesStays DEF Carries
  <2>2. new.born \in 0..changes' /\ new.sponsor \in Joined'
    BY <1>2, <1>3, <1>7 DEF PathInv
  <2>3. QED
    BY <1>7, <2>1, <2>2 DEF RowOK
<1>9. ASSUME NEW u \in Users, NEW l \in link'[u] PROVE RowOK(l)'
  <2>1. CASE u = r.u
    BY <1>5, <1>8, <1>9, <2>1
  <2>2. CASE u # r.u
    BY <1>5, <1>6, <1>9, <2>2, RowStays DEF PathInv
  <2>3. QED
    BY <2>1, <2>2
<1>10. \A u \in Users \ Joined' : link'[u] = {}
  <2>1. r.u \in Joined'
    BY <1>2, <1>3, <1>4 DEF Joined, SponsorshipAssumption
  <2>2. QED
    BY <1>5, <2>1 DEF PathInv
<1>11. \A s \in Users : (Original(s) => \A k, l \in link[s] : k = l /\ l.active)'
  BY <1>5, <1>7 DEF PathInv, Original
<1>12. x.pc = "idle"
  BY <1>1 DEF Idle
<1>13. \A d \in Clients : Carries(req[d])'
  BY <1>2, <1>6, <1>12, CarriesNothing, RequestsCarry
<1>14. QED
  BY <1>2, <1>9, <1>10, <1>11, <1>13 DEF PathInv

LEMMA PathOfCorrected ==
    ASSUME SponsorInv, PathInv, Joined \subseteq Joined', NEW c \in Clients, CommitCorrection(c)
    PROVE  PathInv'
<1>1. PICK r, new, off, x : /\ r = req[c] /\ new = NewLink(r, r.born) /\ x = Idle
                            /\ off = [r.old EXCEPT !.active = FALSE]
  OBVIOUS
<1>2. /\ r.pc = "written" /\ req' = [req EXCEPT ![c] = x]
      /\ link' = [link EXCEPT ![r.u] = (@ \ {r.old}) \union {off, new}]
      /\ sponsorOf' = [sponsorOf EXCEPT ![r.u] = r.s] /\ changes' = changes
  BY <1>1 DEF CommitCorrection, ReplaceLink, At, Finish, Goto
<1>3. r.u \in Joined /\ r.u \in Users /\ r.s \in Joined /\ Carries(r)
  BY <1>1, <1>2 DEF SponsorInv, RequestsOK, ReadOK, PathInv, Joined
<1>4. r.born \in 1..changes /\ Continues(r.path, r.s) /\ RowOK(r.old)
  BY <1>2, <1>3 DEF Carries
<1>5. DOMAIN link = Users
  BY DEF SponsorInv, LinksOK
<1>6. /\ link'[r.u] = (link[r.u] \ {r.old}) \union {off, new}
      /\ \A u \in Users : u # r.u => link'[u] = link[u]
  BY <1>2, <1>3, <1>5
<1>7. /\ {"sponsor", "path", "active", "born"} \subseteq DOMAIN new
      /\ new.sponsor = r.s /\ new.path = r.path /\ new.born = r.born
  BY <1>1 DEF NewLink
<1>8. changes \in Nat /\ new.born # 0
  BY <1>4, <1>7 DEF PathInv
<1>9. Steady
  <2>1. ASSUME NEW s \in Joined PROVE link'[s] = link[s] \/ \E k \in link'[s] : k.born # 0
    BY <1>6, <1>8 DEF Joined
  <2>2. QED
    BY <1>2, <1>8, <2>1 DEF Steady
<1>10. RowOK(new)'
  <2>1. Continues(new.path, new.sponsor)'
    BY <1>3, <1>4, <1>7, <1>9, ContinuesStays
  <2>2. new.born \in 0..changes' /\ new.sponsor \in Joined'
    BY <1>2, <1>3, <1>4, <1>7, <1>8
  <2>3. QED
    BY <1>7, <2>1, <2>2 DEF RowOK
<1>11. RowOK(off)'
  <2>1. RowOK(r.old)'
    BY <1>4, <1>9, RowStays
  <2>2. /\ off.sponsor = r.old.sponsor /\ off.path = r.old.path /\ off.born = r.old.born
        /\ {"sponsor", "path", "active", "born"} \subseteq DOMAIN off
    BY <1>1, <1>4 DEF RowOK
  <2>3. QED
    BY <2>1, <2>2 DEF RowOK
<1>12. ASSUME NEW u \in Users, NEW l \in link'[u] PROVE RowOK(l)'
  <2>1. CASE l \in link[u]
    BY <1>9, <2>1, RowStays DEF PathInv
  <2>2. CASE l \notin link[u]
    BY <1>6, <1>10, <1>11, <1>12, <2>2
  <2>3. QED
    BY <2>1, <2>2
<1>13. \A u \in Users \ Joined' : link'[u] = {}
  BY <1>3, <1>6 DEF PathInv
<1>14. \A s \in Users : (Original(s) => \A k, l \in link[s] : k = l /\ l.active)'
  BY <1>6, <1>8 DEF PathInv, Original
<1>15. x.pc = "idle"
  BY <1>1 DEF Idle
<1>16. \A d \in Clients : Carries(req[d])'
  BY <1>2, <1>9, <1>15, CarriesNothing, RequestsCarry
<1>17. QED
  BY <1>2, <1>8, <1>12, <1>13, <1>14, <1>16 DEF PathInv

(***************************************************************************)
(* Whole uplines                                                           *)
(***************************************************************************)
LEMMA PathInvInit == SponsorshipAssumption /\ Init => PathInv
<1>1. SUFFICES ASSUME SponsorshipAssumption, Init PROVE PathInv
  OBVIOUS
<1>2. changes \in Nat /\ \A u \in Users : link[u] = {}
  BY <1>1 DEF Init
<1>3. \A c \in Clients : req[c].pc = "idle"
  BY <1>1 DEF Init, Idle
<1>4. \A c \in Clients : Carries(req[c])
  BY <1>3 DEF Carries
<1>5. QED
  BY <1>2, <1>4 DEF PathInv

LEMMA PathInvStep ==
    ASSUME SponsorshipAssumption, SponsorInv, PathInv, [Next]_vars
    PROVE  PathInv'
<1>1. Joined \subseteq Joined'
  BY MembersStay
<1>2. ASSUME NEW c \in Clients, NEW u \in Users, BeginSignup(c, u) PROVE PathInv'
  <2>1. PICK x : x = [pc |-> "signup", u |-> u]
    OBVIOUS
  <2>2. req' = [req EXCEPT ![c] = x] /\ x.pc = "signup" /\ link' = link /\ changes' = changes
    BY <1>2, <2>1 DEF BeginSignup, Goto
  <2>3. QED
    BY <1>1, <2>2, PathOfPlain
<1>3. ASSUME NEW c \in Clients, NEW u \in Users, BeginProfile(c, u) PROVE PathInv'
  <2>1. PICK x : x = [pc |-> "profile", u |-> u, copy |-> sponsorOf[u]]
    OBVIOUS
  <2>2. req' = [req EXCEPT ![c] = x] /\ x.pc = "profile" /\ link' = link /\ changes' = changes + 1
    BY <1>3, <2>1 DEF BeginProfile, Goto
  <2>3. QED
    BY <1>1, <2>2, PathOfPlain
<1>4. ASSUME NEW c \in Clients, NEW u \in Users, NEW s \in Users, BeginCorrection(c, u, s) PROVE PathInv'
  BY <1>4, PathOfCorrection
<1>5. ASSUME NEW c \in Clients, RequestStep(c) PROVE PathInv'
  <2>1. ASSUME NEW s \in Users, RedeemCode(c, s) PROVE PathInv'
    <3>1. PICK x : x = [pc |-> "redeemed", u |-> req[c].u, s |-> s]
      OBVIOUS
    <3>2. req' = [req EXCEPT ![c] = x] /\ x.pc = "redeemed" /\ link' = link /\ changes' = changes
      BY <2>1, <3>1 DEF RedeemCode, Goto
    <3>3. QED
      BY <1>1, <3>2, PathOfPlain
  <2>2. CASE ReadUpline(c) \/ ReadAfterWait(c)
    BY <2>2, PathOfUpline
  <2>3. CASE CommitSignup(c)
    BY <1>1, <2>3, PathOfSignup
  <2>4. CASE CommitWithoutCode(c) \/ CommitProfile(c) \/ GiveUp(c)
    <3>1. PICK x : x = Idle
      OBVIOUS
    <3>2. req' = [req EXCEPT ![c] = x] /\ x.pc = "idle" /\ link' = link /\ changes' = changes
      BY <2>4, <3>1 DEF CommitWithoutCode, CommitProfile, GiveUp, Finish, Goto, Idle
    <3>3. QED
      BY <1>1, <3>2, PathOfPlain
  <2>5. CASE WriteCorrection(c)
    BY <2>5, PathOfWritten
  <2>6. CASE CommitCorrection(c)
    BY <1>1, <2>6, PathOfCorrected
  <2>7. CASE ReadSponsorNode(c)
    <3>1. /\ req[c].pc = "placed" /\ link' = link /\ sponsorOf' = sponsorOf /\ changes' = changes
          /\ Placed(c, req[c].path, req[c].seen, {node[req[c].s]})
      BY <2>7 DEF ReadSponsorNode, At
    <3>2. Continues(req[c].path, req[c].s)
      BY <3>1 DEF PathInv, Carries
    <3>3. QED
      BY <3>1, <3>2, PathOfPlaced
  <2>8. QED
    BY <1>5, <2>1, <2>2, <2>3, <2>4, <2>5, <2>6, <2>7 DEF RequestStep
<1>6. CASE (\E u, s \in Users : ApplyGraphCorrection(u, s)) \/ RebuildStep \/ RebuildCrashes \/ UNCHANGED vars
  <2>1. /\ link' = link /\ sponsorOf' = sponsorOf /\ req' = req
        /\ changes' = changes \/ changes' = changes + 1
    BY <1>6 DEF ApplyGraphCorrection, RebuildStep, StartRebuild, ReadNodes, BuildNodeForUser, SaveCounters,
                RebuildCrashes, vars
  <2>2. changes' \in Nat /\ changes <= changes'
    BY <2>1 DEF PathInv
  <2>3. QED
    BY <2>1, <2>2, PathNodes
<1>7. QED
  BY <1>2, <1>3, <1>4, <1>5, <1>6 DEF Next

\* Of the links a user has, one was made last.
LEMMA LatestNumber ==
    ASSUME NEW m \in Nat, NEW T \in SUBSET (0..m), T # {}
    PROVE  \E t \in T : \A n \in T : n <= t
<1>1. PICK U : U = {m - t : t \in T}
  OBVIOUS
<1>2. U \subseteq Nat /\ U # {}
  <2>1. \A t \in T : m - t \in Nat
    OBVIOUS
  <2>2. QED
    BY <1>1, <2>1
<1>3. \E k \in U : \A j \in U : ~(<<j, k>> \in OpToRel(<, Nat))
  BY <1>2, NatLessThanWellFounded, WFMin
<1>4. PICK k \in U : \A j \in U : ~(j < k)
  BY <1>2, <1>3 DEF OpToRel
<1>5. PICK t \in T : k = m - t
  BY <1>1, <1>4
<1>6. ASSUME NEW n \in T PROVE n <= t
  <2>1. m - n \in U
    BY <1>1
  <2>2. ~(m - n < m - t)
    BY <1>4, <1>5, <2>1
  <2>3. QED
    BY <2>2
<1>7. QED
  BY <1>6

LEMMA NewestIsActive ==
    ASSUME PathInv, NEW u \in Users, Active(u) # {}
    PROVE  Newest(u) \in Active(u)
<1>1. PICK T : T = {l.born : l \in Active(u)}
  OBVIOUS
<1>2. T \in SUBSET (0..changes) /\ T # {} /\ changes \in Nat
  BY <1>1 DEF PathInv, RowOK, Active
<1>3. PICK t \in T : \A n \in T : n <= t
  BY <1>2, LatestNumber
<1>4. \E l \in Active(u) : \A k \in Active(u) : k.born <= l.born
  BY <1>1, <1>3
<1>5. QED
  BY <1>4 DEF Newest

\* The path a signup or a correction writes continues the sponsor's own path, as
\* long as that sponsor has not been corrected since, whatever signups and
\* corrections are in flight.
THEOREM UplinesAreWhole == Spec => []PathsAreChains
<1>1. Init => SponsorInv /\ PathInv
  BY SponsorshipAssumption, SponsorInvInit, PathInvInit
<1>2. SponsorInv /\ PathInv /\ [Next]_vars => SponsorInv' /\ PathInv'
  BY SponsorshipAssumption, SponsorInvStep, PathInvStep
<1>3. PathInv => PathsAreChains
  <2>1. SUFFICES ASSUME PathInv, NEW u \in Joined, SourceOf(u).sponsor # None,
                        Original(SourceOf(u).sponsor)
                 PROVE  Tail(SourceOf(u).path) = SourceOf(SourceOf(u).sponsor).path
    BY DEF PathsAreChains, Original
  <2>2. u \in Users /\ Active(u) # {}
    BY <2>1 DEF SourceOf, Joined
  <2>3. PICK l \in link[u] : SourceOf(u).sponsor = l.sponsor /\ SourceOf(u).path = l.path
    BY <2>1, <2>2, NewestIsActive DEF SourceOf, Active
  <2>4. PICK s : s = l.sponsor /\ s = SourceOf(u).sponsor
    BY <2>3
  <2>5. Original(s) /\ Continues(l.path, s) /\ s \in Users
    BY <2>1, <2>2, <2>4 DEF PathInv, RowOK, Joined
  <2>6. CASE link[s] = {}
    <3>1. Active(s) = {}
      BY <2>6 DEF Active
    <3>2. SourceOf(s).path = <<>>
      BY <3>1 DEF SourceOf
    <3>3. QED
      BY <2>3, <2>4, <2>5, <2>6, <3>2 DEF Continues
  <2>7. CASE link[s] # {}
    <3>1. Active(s) # {}
      BY <2>1, <2>5, <2>7 DEF PathInv, Active
    <3>2. Newest(s) \in link[s]
      BY <2>1, <2>5, <3>1, NewestIsActive DEF Active
    <3>3. SourceOf(s).path = Newest(s).path
      BY <3>1 DEF SourceOf
    <3>4. QED
      BY <2>3, <2>4, <2>5, <3>2, <3>3 DEF Continues
  <2>8. QED
    BY <2>6, <2>7
<1>4. QED
  BY <1>1, <1>2, <1>3, PTL DEF Spec

(***************************************************************************)
(* The copy in users.sponsor_id.  As long as the corrections and profile   *)
(* updates of a user do not overlap, the one under way has read the link   *)
(* and the sponsor there still are.                                        *)
(***************************************************************************)
Touches(r, u) == r.pc \in {"correcting", "written", "profile"} /\ r.u = u

Current(r, u) ==
    /\ Touches(r, u) /\ r.pc = "profile" => r.copy = sponsorOf[u]
    /\ Touches(r, u) /\ r.pc # "profile" => r.old \in Active(u)

Alone(u) ==
    /\ \A c, d \in Clients : Touches(req[c], u) /\ Touches(req[d], u) => c = d
    /\ \A c \in Clients : Current(req[c], u)

Agree(u) ==
    /\ \A k, l \in Active(u) : k = l
    /\ sponsorOf[u] # Absent /\ Active(u) = {} => sponsorOf[u] = None
    /\ sponsorOf[u] # Absent => \A l \in Active(u) : sponsorOf[u] = l.sponsor

SyncInv == \A u \in Users \ overlapped : Alone(u) /\ Agree(u)

\* A request reads on: either it was under way already for the user it touches,
\* or nobody was.
LEMMA SyncReading ==
    ASSUME SponsorInv, SyncInv, NEW c \in Clients, NEW x, req' = [req EXCEPT ![c] = x],
           link' = link, sponsorOf' = sponsorOf, overlapped \subseteq overlapped',
           \A u \in Users \ overlapped' :
              Touches(x, u) => /\ Current(x, u)
                               /\ Touches(req[c], u) \/ \A d \in Clients : ~Touches(req[d], u)
    PROVE  SyncInv'
<1>1. req'[c] = x /\ \A d \in Clients : d # c => req'[d] = req[d]
  BY DEF SponsorInv, RequestsOK
<1>2. SUFFICES ASSUME NEW u \in Users \ overlapped' PROVE Alone(u)' /\ Agree(u)'
  BY DEF SyncInv
<1>3. Alone(u) /\ Agree(u)
  BY DEF SyncInv
<1>4. \A r : Current(r, u)' = Current(r, u)
  BY DEF Current, Active
<1>5. Agree(u)'
  BY <1>3 DEF Agree, Active
<1>6. Current(x, u)
  BY DEF Current
<1>7. \A d \in Clients : Current(req'[d], u)
  BY <1>1, <1>3, <1>6 DEF Alone
<1>8. \A d, e \in Clients : Touches(req'[d], u) /\ Touches(req'[e], u) => d = e
  BY <1>1, <1>3 DEF Alone
<1>9. \A d \in Clients : Current(req[d], u)'
  BY <1>7 DEF Current, Active
<1>10. Alone(u)'
  BY <1>8, <1>9 DEF Alone, Touches
<1>11. QED
  BY <1>5, <1>10

\* A request that touches nobody's sponsor, or no longer does.
LEMMA SyncPlain ==
    ASSUME SponsorInv, SyncInv, NEW c \in Clients, NEW x, req' = [req EXCEPT ![c] = x],
           link' = link, sponsorOf' = sponsorOf, overlapped' = overlapped,
           x.pc \notin {"correcting", "written", "profile"}
    PROVE  SyncInv'
<1>1. \A u : ~Touches(x, u)
  BY DEF Touches
<1>2. QED
  BY <1>1, SyncReading

\* A request writes the link and the sponsor of v, and ends.
LEMMA SyncWriting ==
    ASSUME SponsorInv, SyncInv, NEW c \in Clients, req' = [req EXCEPT ![c] = Idle],
           overlapped' = overlapped, NEW v,
           \A u \in Users \ {v} : link'[u] = link[u] /\ sponsorOf'[u] = sponsorOf[u],
           v \in Users \ overlapped =>
              /\ \A d \in Clients \ {c} : ~Touches(req[d], v)
              /\ Agree(v)'
    PROVE  SyncInv'
<1>1. req'[c] = Idle /\ \A d \in Clients : d # c => req'[d] = req[d]
  BY DEF SponsorInv, RequestsOK
<1>2. \A u : ~Touches(req'[c], u)
  BY <1>1 DEF Touches, Idle
<1>3. ASSUME NEW u \in Users \ overlapped, u # v PROVE Alone(u)' /\ Agree(u)'
  <2>1. Alone(u) /\ Agree(u) /\ link'[u] = link[u] /\ sponsorOf'[u] = sponsorOf[u]
    BY <1>3 DEF SyncInv
  <2>2. Agree(u)'
    BY <2>1 DEF Agree, Active
  <2>3. \A d \in Clients : Current(req'[d], u)
    BY <1>1, <1>2, <2>1 DEF Alone, Current
  <2>4. \A d, e \in Clients : Touches(req'[d], u) /\ Touches(req'[e], u) => d = e
    BY <1>1, <1>2, <2>1 DEF Alone
  <2>5. \A d \in Clients : Current(req[d], u)'
    BY <2>1, <2>3 DEF Current, Active
  <2>6. Alone(u)'
    BY <2>4, <2>5 DEF Alone, Touches
  <2>7. QED
    BY <2>2, <2>6
<1>4. ASSUME v \in Users \ overlapped PROVE Alone(v)' /\ Agree(v)'
  <2>1. \A d \in Clients : ~Touches(req'[d], v)
    BY <1>1, <1>2, <1>4
  <2>2. Alone(v)'
    BY <2>1 DEF Alone, Current, Touches
  <2>3. QED
    BY <1>4, <2>2
<1>5. QED
  BY <1>3, <1>4 DEF SyncInv

\* Only members are corrected or updated.
LEMMA TouchedAreMembers ==
    ASSUME SponsorInv, NEW d \in Clients, NEW u, Touches(req[d], u)
    PROVE  u \in Joined
  BY DEF Touches, SponsorInv, RequestsOK, ReadOK

LEMMA SyncOfSignup ==
    ASSUME SponsorshipAssumption, SponsorInv, PathInv, SyncInv, NEW c \in Clients, CommitSignup(c)
    PROVE  SyncInv'
<1>1. PICK r, new : r = req[c] /\ new = NewLink(r, 0)
  OBVIOUS
<1>2. /\ r.pc = "placed" /\ link' = [link EXCEPT ![r.u] = {new}] /\ req' = [req EXCEPT ![c] = Idle]
      /\ sponsorOf' = [sponsorOf EXCEPT ![r.u] = r.s] /\ overlapped' = overlapped
  BY <1>1 DEF CommitSignup, At, Finish, Goto
<1>3. r.u \in Users \ Joined
  BY <1>1, <1>2 DEF SponsorInv, RequestsOK, ReadOK, SignupPcs
<1>4. DOMAIN link = Users /\ DOMAIN sponsorOf = Users
  BY DEF SponsorInv, LinksOK
<1>5. /\ link'[r.u] = {new} /\ sponsorOf'[r.u] = r.s
      /\ \A u \in Users \ {r.u} : link'[u] = link[u] /\ sponsorOf'[u] = sponsorOf[u]
  BY <1>2, <1>3, <1>4
<1>6. new.sponsor = r.s /\ new.active
  BY <1>1 DEF NewLink
<1>7. Agree(r.u)'
  BY <1>5, <1>6 DEF Agree, Active
<1>8. \A d \in Clients : ~Touches(req[d], r.u)
  BY <1>3, TouchedAreMembers
<1>9. QED
  BY <1>2, <1>5, <1>7, <1>8, SyncWriting

LEMMA SyncWithoutCode ==
    ASSUME SponsorInv, PathInv, SyncInv, NEW c \in Clients, CommitWithoutCode(c)
    PROVE  SyncInv'
<1>1. PICK v : v = req[c].u
  OBVIOUS
<1>2. /\ req[c].pc = "signup" /\ link' = link /\ req' = [req EXCEPT ![c] = Idle]
      /\ sponsorOf' = [sponsorOf EXCEPT ![v] = None] /\ overlapped' = overlapped
  BY <1>1 DEF CommitWithoutCode, At, Finish, Goto
<1>3. v \in Users \ Joined
  BY <1>1, <1>2 DEF SponsorInv, RequestsOK, ReadOK, SignupPcs
<1>4. DOMAIN sponsorOf = Users /\ link[v] = {}
  BY <1>3 DEF SponsorInv, LinksOK, PathInv
<1>5. /\ link'[v] = {} /\ sponsorOf'[v] = None
      /\ \A u \in Users \ {v} : link'[u] = link[u] /\ sponsorOf'[u] = sponsorOf[u]
  BY <1>2, <1>3, <1>4
<1>6. Agree(v)'
  BY <1>5 DEF Agree, Active
<1>7. \A d \in Clients : ~Touches(req[d], v)
  BY <1>3, TouchedAreMembers
<1>8. QED
  BY <1>2, <1>5, <1>6, <1>7, SyncWriting

LEMMA SyncOfCorrection ==
    ASSUME SponsorInv, PathInv, SyncInv, NEW c \in Clients, CommitCorrection(c)
    PROVE  SyncInv'
<1>1. PICK r, new, off : /\ r = req[c] /\ new = NewLink(r, r.born)
                         /\ off = [r.old EXCEPT !.active = FALSE]
  OBVIOUS
<1>2. /\ r.pc = "written" /\ req' = [req EXCEPT ![c] = Idle]
      /\ link' = [link EXCEPT ![r.u] = (@ \ {r.old}) \union {off, new}]
      /\ sponsorOf' = [sponsorOf EXCEPT ![r.u] = r.s] /\ overlapped' = overlapped
  BY <1>1 DEF CommitCorrection, ReplaceLink, At, Finish, Goto
<1>3. r.u \in Users /\ Carries(r)
  BY <1>1, <1>2 DEF SponsorInv, RequestsOK, ReadOK, PathInv, Joined
<1>4. DOMAIN link = Users /\ DOMAIN sponsorOf = Users
  BY DEF SponsorInv, LinksOK
<1>5. /\ link'[r.u] = (link[r.u] \ {r.old}) \union {off, new} /\ sponsorOf'[r.u] = r.s
      /\ \A u \in Users \ {r.u} : link'[u] = link[u] /\ sponsorOf'[u] = sponsorOf[u]
  BY <1>2, <1>3, <1>4
<1>6. new.sponsor = r.s /\ new.active /\ ~off.active
  <2>1. "active" \in DOMAIN r.old
    BY <1>2, <1>3 DEF Carries, RowOK
  <2>2. QED
    BY <1>1, <2>1 DEF NewLink
<1>7. ASSUME r.u \in Users \ overlapped
      PROVE  (\A d \in Clients \ {c} : ~Touches(req[d], r.u)) /\ Agree(r.u)'
  <2>1. Alone(r.u) /\ Agree(r.u) /\ Touches(r, r.u)
    BY <1>2, <1>7 DEF SyncInv, Touches
  <2>2. r.old \in Active(r.u)
    BY <1>1, <1>2, <2>1 DEF Alone, Current
  <2>3. \A l \in link[r.u] : l.active => l = r.old
    BY <2>1, <2>2 DEF Agree, Active
  <2>4. \A l \in link'[r.u] : l.active <=> l = new
    BY <1>5, <1>6, <2>3
  <2>5. Agree(r.u)'
    BY <1>5, <1>6, <2>4 DEF Agree, Active
  <2>6. QED
    BY <1>1, <2>1, <2>5 DEF Alone
<1>8. QED
  BY <1>2, <1>5, <1>7, SyncWriting

LEMMA SyncOfProfile ==
    ASSUME SponsorInv, SyncInv, NEW c \in Clients, CommitProfile(c)
    PROVE  SyncInv'
<1>1. PICK r : r = req[c]
  OBVIOUS
<1>2. /\ r.pc = "profile" /\ link' = link /\ req' = [req EXCEPT ![c] = Idle]
      /\ sponsorOf' = [sponsorOf EXCEPT ![r.u] = r.copy] /\ overlapped' = overlapped
  BY <1>1 DEF CommitProfile, At, Finish, Goto
<1>3. r.u \in Users /\ DOMAIN sponsorOf = Users
  BY <1>1, <1>2 DEF SponsorInv, LinksOK, RequestsOK, ReadOK, Joined
<1>4. /\ sponsorOf'[r.u] = r.copy
      /\ \A u \in Users \ {r.u} : link'[u] = link[u] /\ sponsorOf'[u] = sponsorOf[u]
  BY <1>2, <1>3
<1>5. ASSUME r.u \in Users \ overlapped
      PROVE  (\A d \in Clients \ {c} : ~Touches(req[d], r.u)) /\ Agree(r.u)'
  <2>1. Alone(r.u) /\ Agree(r.u) /\ Touches(r, r.u)
    BY <1>2, <1>5 DEF SyncInv, Touches
  <2>2. sponsorOf'[r.u] = sponsorOf[r.u]
    BY <1>1, <1>2, <1>4, <2>1 DEF Alone, Current
  <2>3. Agree(r.u)'
    BY <1>2, <2>1, <2>2 DEF Agree, Active
  <2>4. QED
    BY <1>1, <2>1, <2>3 DEF Alone
<1>6. QED
  BY <1>2, <1>4, <1>5, SyncWriting

\* Touch records an overlap; where there is none, nobody touches the user.
LEMMA SyncOfBeginning ==
    ASSUME SponsorInv, SyncInv, NEW c \in Clients, NEW u, Touch(u), NEW x,
           req' = [req EXCEPT ![c] = x], link' = link, sponsorOf' = sponsorOf,
           x.u = u, Current(x, u)
    PROVE  SyncInv'
<1>1. overlapped \subseteq overlapped'
  BY DEF Touch
<1>2. ASSUME NEW v \in Users \ overlapped', Touches(x, v)
      PROVE  Current(x, v) /\ \A d \in Clients : ~Touches(req[d], v)
  <2>1. v = u
    BY <1>2 DEF Touches
  <2>2. Touching(u) = {}
    BY <1>2, <2>1 DEF Touch
  <2>3. QED
    BY <2>1, <2>2 DEF Touching, Touches
<1>3. QED
  BY <1>1, <1>2, SyncReading

LEMMA SyncOfBeginCorrection ==
    ASSUME SponsorInv, SyncInv, NEW c \in Clients, NEW u \in Users, NEW s \in Users, BeginCorrection(c, u, s)
    PROVE  SyncInv'
<1>1. PICK old \in Active(u), parent \in ParentPaths(s) :
         Goto(c, [pc |-> "correcting", u |-> u, s |-> s, old |-> old,
                  path |-> <<s>> \o parent, born |-> changes + 1])
  BY DEF BeginCorrection
<1>2. PICK path : path = <<s>> \o parent
  OBVIOUS
<1>3. PICK x : x = [pc |-> "correcting", u |-> u, s |-> s, old |-> old, path |-> path, born |-> changes + 1]
  OBVIOUS
<1>4. req' = [req EXCEPT ![c] = x] /\ x.pc = "correcting" /\ x.u = u /\ x.old = old
  BY <1>1, <1>2, <1>3 DEF Goto
<1>5. sponsorOf' = sponsorOf /\ link' = link /\ Touch(u)
  BY DEF BeginCorrection
<1>6. Current(x, u)
  BY <1>4 DEF Current
<1>7. QED
  BY <1>4, <1>5, <1>6, SyncOfBeginning

LEMMA SyncOfBeginProfile ==
    ASSUME SponsorInv, SyncInv, NEW c \in Clients, NEW u \in Users, BeginProfile(c, u)
    PROVE  SyncInv'
<1>1. PICK x : x = [pc |-> "profile", u |-> u, copy |-> sponsorOf[u]]
  OBVIOUS
<1>2. /\ req' = [req EXCEPT ![c] = x] /\ x.pc = "profile" /\ x.u = u /\ x.copy = sponsorOf[u]
      /\ sponsorOf' = sponsorOf /\ link' = link /\ Touch(u)
  BY <1>1 DEF BeginProfile, Goto
<1>3. Current(x, u)
  BY <1>2 DEF Current
<1>4. QED
  BY <1>2, <1>3, SyncOfBeginning

LEMMA SyncOfWritten ==
    ASSUME SponsorInv, PathInv, SyncInv, NEW c \in Clients, WriteCorrection(c)
    PROVE  SyncInv'
<1>1. PICK r, x : r = req[c] /\ x = [r EXCEPT !.pc = "written"]
  OBVIOUS
<1>2. /\ r.pc = "correcting" /\ req' = [req EXCEPT ![c] = x]
      /\ sponsorOf' = sponsorOf /\ link' = link /\ overlapped' = overlapped
  BY <1>1 DEF WriteCorrection, At, Goto
<1>3. Carries(r)
  BY <1>1 DEF PathInv
<1>4. x.pc = "written" /\ x.u = r.u /\ x.old = r.old
  BY <1>1, <1>2, <1>3 DEF Carries
<1>5. ASSUME NEW u \in Users \ overlapped, Touches(x, u) PROVE Current(x, u) /\ Touches(r, u)
  <2>1. Touches(r, u)
    BY <1>2, <1>4, <1>5 DEF Touches
  <2>2. Current(r, u)
    BY <1>1, <1>5 DEF SyncInv, Alone
  <2>3. QED
    BY <1>2, <1>4, <2>1, <2>2 DEF Current
<1>6. QED
  BY <1>1, <1>2, <1>5, SyncReading

LEMMA SyncNodes ==
    ASSUME SyncInv, req' = req, link' = link, sponsorOf' = sponsorOf, overlapped' = overlapped
    PROVE  SyncInv'
  BY DEF SyncInv, Alone, Agree, Current, Touches, Active

LEMMA SyncInvInit == SponsorshipAssumption /\ Init => SyncInv
<1>1. SUFFICES ASSUME SponsorshipAssumption, Init, NEW u \in Users PROVE Alone(u) /\ Agree(u)
  BY DEF SyncInv
<1>2. \A c \in Clients : ~Touches(req[c], u)
  BY <1>1 DEF Init, Idle, Touches
<1>3. Active(u) = {} /\ sponsorOf[u] \in {None, Absent}
  BY <1>1 DEF Init, Active
<1>4. QED
  BY <1>2, <1>3 DEF Alone, Agree, Current

LEMMA SyncInvStep ==
    ASSUME SponsorshipAssumption, SponsorInv, PathInv, SyncInv, [Next]_vars
    PROVE  SyncInv'
<1>1. ASSUME NEW c \in Clients, NEW u \in Users, BeginSignup(c, u) PROVE SyncInv'
  <2>1. PICK x : x = [pc |-> "signup", u |-> u]
    OBVIOUS
  <2>2. /\ req' = [req EXCEPT ![c] = x] /\ x.pc = "signup"
        /\ link' = link /\ sponsorOf' = sponsorOf /\ overlapped' = overlapped
    BY <1>1, <2>1 DEF BeginSignup, Goto
  <2>3. QED
    BY <2>2, SyncPlain
<1>2. ASSUME NEW c \in Clients, NEW u \in Users, BeginProfile(c, u) PROVE SyncInv'
  BY <1>2, SyncOfBeginProfile
<1>3. ASSUME NEW c \in Clients, NEW u \in Users, NEW s \in Users, BeginCorrection(c, u, s) PROVE SyncInv'
  BY <1>3, SyncOfBeginCorrection
<1>4. ASSUME NEW c \in Clients, RequestStep(c) PROVE SyncInv'
  <2>1. ASSUME NEW x, req' = [req EXCEPT ![c] = x], x.pc \in {"redeemed", "waiting", "placed", "idle"},
               link' = link, sponsorOf' = sponsorOf, overlapped' = overlapped
        PROVE  SyncInv'
    BY <2>1, SyncPlain
  <2>2. ASSUME NEW s \in Users, RedeemCode(c, s) PROVE SyncInv'
    <3>1. PICK x : x = [pc |-> "redeemed", u |-> req[c].u, s |-> s]
      OBVIOUS
    <3>2. QED
      BY <2>1, <2>2, <3>1 DEF RedeemCode, Goto
  <2>3. ASSUME NEW path, NEW seen, NEW copy, Placed(c, path, seen, copy),
               link' = link, sponsorOf' = sponsorOf, overlapped' = overlapped
        PROVE  SyncInv'
    <3>1. PICK x : x = [pc |-> "placed", u |-> req[c].u, s |-> req[c].s, path |-> path, seen |-> seen,
                   copy |-> copy]
      OBVIOUS
    <3>2. QED
      BY <2>1, <2>3, <3>1 DEF Placed, Goto
  <2>4. CASE ReadUpline(c) \/ ReadAfterWait(c)
    <3>1. ASSUME NEW l, Goto(c, [pc |-> "waiting", u |-> req[c].u, s |-> req[c].s, row |-> l]),
                 link' = link, sponsorOf' = sponsorOf, overlapped' = overlapped
          PROVE  SyncInv'
      <4>1. PICK x : x = [pc |-> "waiting", u |-> req[c].u, s |-> req[c].s, row |-> l]
        OBVIOUS
      <4>2. QED
        BY <2>1, <3>1, <4>1 DEF Goto
    <3>2. \/ \E l : Goto(c, [pc |-> "waiting", u |-> req[c].u, s |-> req[c].s, row |-> l])
          \/ \E path : \E seen : \E copy : Placed(c, path, seen, copy)
      BY <2>4 DEF ReadUpline, ReadAfterWait
    <3>3. link' = link /\ sponsorOf' = sponsorOf /\ overlapped' = overlapped
      BY <2>4 DEF ReadUpline, ReadAfterWait
    <3>4. QED
      BY <2>3, <3>1, <3>2, <3>3
  <2>5. CASE CommitSignup(c)
    BY <2>5, SyncOfSignup
  <2>6. CASE CommitWithoutCode(c)
    BY <2>6, SyncWithoutCode
  <2>7. CASE WriteCorrection(c)
    BY <2>7, SyncOfWritten
  <2>8. CASE CommitCorrection(c)
    BY <2>8, SyncOfCorrection
  <2>9. CASE CommitProfile(c)
    BY <2>9, SyncOfProfile
  <2>10. CASE GiveUp(c)
    <3>1. PICK x : x = Idle
      OBVIOUS
    <3>2. QED
      BY <2>1, <2>10, <3>1 DEF GiveUp, Finish, Goto, Idle
  <2>11. CASE ReadSponsorNode(c)
    <3>1. /\ Placed(c, req[c].path, req[c].seen, {node[req[c].s]})
          /\ link' = link /\ sponsorOf' = sponsorOf /\ overlapped' = overlapped
      BY <2>11 DEF ReadSponsorNode
    <3>2. QED
      BY <2>3, <3>1
  <2>12. QED
    BY <1>4, <2>2, <2>4, <2>5, <2>6, <2>7, <2>8, <2>9, <2>10, <2>11 DEF RequestStep
<1>5. CASE (\E u, s \in Users : ApplyGraphCorrection(u, s)) \/ RebuildStep \/ RebuildCrashes \/ UNCHANGED vars
  <2>1. link' = link /\ sponsorOf' = sponsorOf /\ req' = req /\ overlapped' = overlapped
    BY <1>5 DEF ApplyGraphCorrection, RebuildStep, StartRebuild, ReadNodes, BuildNodeForUser, SaveCounters,
                RebuildCrashes, vars
  <2>2. QED
    BY <2>1, SyncNodes
<1>6. QED
  BY <1>1, <1>2, <1>3, <1>4, <1>5 DEF Next

\* users.sponsor_id is the sponsor of the active link for every user whose
\* corrections and profile updates have not overlapped.
THEOREM SponsorsAgree == Spec => []SponsorInSync
<1>1. Init => SponsorInv /\ PathInv /\ SyncInv
  BY SponsorshipAssumption, SponsorInvInit, PathInvInit, SyncInvInit
<1>2. SponsorInv /\ PathInv /\ SyncInv /\ [Next]_vars => SponsorInv' /\ PathInv' /\ SyncInv'
  BY SponsorshipAssumption, SponsorInvStep, PathInvStep, SyncInvStep
<1>3. PathInv /\ SyncInv => SponsorInSync
  <2>1. SUFFICES ASSUME PathInv, SyncInv, NEW u \in Joined \ overlapped
                 PROVE  sponsorOf[u] = SourceOf(u).sponsor
    BY DEF SponsorInSync
  <2>2. Agree(u) /\ sponsorOf[u] # Absent /\ u \in Users
    BY <2>1 DEF SyncInv, Joined
  <2>3. CASE Active(u) = {}
    BY <2>2, <2>3 DEF Agree, SourceOf
  <2>4. CASE Active(u) # {}
    <3>1. Newest(u) \in Active(u)
      BY <2>1, <2>2, <2>4, NewestIsActive
    <3>2. SourceOf(u).sponsor = Newest(u).sponsor
      BY <2>4 DEF SourceOf
    <3>3. QED
      BY <2>2, <3>1, <3>2 DEF Agree
  <2>5. QED
    BY <2>3, <2>4
<1>4. QED
  BY <1>1, <1>2, <1>3, PTL DEF Spec
==============================================================================
