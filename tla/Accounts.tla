------------------------------ MODULE Accounts -------------------------------
(***************************************************************************)
(* Phone verification, signup and refresh tokens (modules/auth).           *)
(*                                                                         *)
(* Only signup runs in a transaction.  Every other handler reads rows,     *)
(* awaits (a bcrypt comparison takes a third of a second) and saves the    *)
(* entity it read: save writes back every column of that copy, so a row    *)
(* that changed in between becomes the older copy again.  Each handler is  *)
(* therefore a chain of actions, and req[c] holds what call c has read.    *)
(***************************************************************************)
EXTENDS Naturals, Sequences, FiniteSetsExt

CONSTANTS
    Phones,
    Clients,      \* calls in flight at one time
    MaxStrikes,   \* wrong codes after which an attempt fails (5)
    MaxFailures,  \* MAX_OTP_FAILURES_PER_HOUR (10)
    MaxAttempts,  \* bound: onboarding attempts, and one-time passwords, per phone
    MaxDisturbed, \* the same bound once calls for the phone have overlapped
    MaxTokens     \* bound: refresh tokens in all

ASSUME AccountsAssumption ==
    /\ MaxStrikes \in Nat \ {0} /\ MaxFailures \in Nat \ {0}
    /\ MaxAttempts \in Nat /\ MaxDisturbed \in Nat /\ MaxTokens \in Nat
    /\ IsFiniteSet(Clients)

VARIABLES
    users,      \* phones with an active account
    members,    \* history: phones that had an account at the start
    otp,        \* otp_verifications of each phone, oldest first
    attempt,    \* onboarding_attempts of each phone, oldest first
    session,    \* attempts a signup session token was issued for; one that
                \* has expired is one nobody uses any more
    token,      \* refresh_tokens, oldest first
    req,        \* what each call in flight has read
    guesses,    \* history: wrong codes compared under each attempt
    opened,     \* history: sessions each one-time password has opened
    disturbed,  \* history: phones with overlapping OTP calls, or one cut short
    doubled     \* history: token chains in which a revoked token was rotated

otpVars == <<otp, attempt, session, guesses, opened, disturbed>>
tokenVars == <<token, doubled>>
vars == <<users, members, otpVars, tokenVars, req>>

OtpRow == [live: BOOLEAN, verified: BOOLEAN]
\* recent: created within the last hour.  strikes: the N of 'Invalid OTP:N'.
AttemptRow ==
    [stage: {"otp_sent", "otp_verified", "completed", "failed"},
     strikes: 0..MaxStrikes, recent: BOOLEAN]
\* chain: history, the login or signup the token descends from.
TokenRow == [state: {"live", "expired", "revoked"}, user: Phones, chain: 1..MaxTokens]

Idle == [pc |-> "idle"]
Free(c) == req[c] = Idle
At(c, pc) == req[c].pc = pc
Goto(c, record) == req' = [req EXCEPT ![c] = record]
Finish(c) == Goto(c, Idle)

OtpPcs == {"store", "limit", "fail", "insert", "compare", "mark", "verified", "strike"}
Busy(p) == \E c \in Clients : req[c].pc \in OtpPcs /\ req[c].p = p
\* The start of an OTP call: remember whether another one is running.
Enter(p) ==
    /\ Busy(p) => Len(otp[p]) <= MaxDisturbed
    /\ disturbed' = IF Busy(p) THEN disturbed \union {p} ELSE disturbed

Room(rows, p) ==
    Len(rows) < (IF Busy(p) \/ p \in disturbed THEN MaxDisturbed ELSE MaxAttempts)

Latest(S) == IF S = {} THEN 0 ELSE Max(S)

Init ==
    /\ members \in SUBSET Phones
    /\ users = members
    /\ otp = [p \in Phones |-> <<>>]
    /\ attempt = [p \in Phones |-> <<>>]
    /\ session = {}
    /\ token = <<>>
    /\ req = [c \in Clients |-> Idle]
    /\ guesses = [p \in Phones |-> <<>>]
    /\ opened = [p \in Phones |-> <<>>]
    /\ disturbed = {}
    /\ doubled = {}

(***************************************************************************)
(* sendOtp: expire the earlier codes, store a new one, and only then       *)
(* count the failures of the last hour and open a new attempt.             *)
(***************************************************************************)
ExpireOtps(p) ==
    otp' = [otp EXCEPT ![p] = [j \in DOMAIN @ |->
                IF @[j].verified THEN @[j] ELSE [@[j] EXCEPT !.live = FALSE]]]

BeginSendOtp(c, p) ==
    /\ Free(c) /\ p \notin users
    /\ Room(otp[p], p)
    /\ ExpireOtps(p)
    /\ Enter(p)
    /\ Goto(c, [pc |-> "store", p |-> p])
    /\ UNCHANGED <<users, members, attempt, session, guesses, opened, tokenVars>>

StoreOtp(c) ==
    LET p == req[c].p IN
    /\ At(c, "store") /\ Len(otp[p]) < MaxAttempts
    /\ otp' = [otp EXCEPT ![p] = Append(@, [live |-> TRUE, verified |-> FALSE])]
    /\ opened' = [opened EXCEPT ![p] = Append(@, 0)]
    /\ Goto(c, [pc |-> "limit", p |-> p])
    /\ UNCHANGED <<users, members, attempt, session, guesses, disturbed, tokenVars>>

RecentFailures(p) ==
    {i \in DOMAIN attempt[p] : attempt[p][i].stage = "failed" /\ attempt[p][i].recent}

CheckLimitLoose(c) ==    \* mutant: > instead of >=
    LET p == req[c].p IN
    /\ At(c, "limit")
    /\ IF Cardinality(RecentFailures(p)) > MaxFailures
       THEN Finish(c)
       ELSE Goto(c, [pc |-> "fail", p |-> p])
    /\ UNCHANGED <<users, members, otpVars, tokenVars>>

\* A refused request has already replaced the code of the open attempt.
CheckLimit(c) ==
    LET p == req[c].p IN
    /\ At(c, "limit")
    /\ IF Cardinality(RecentFailures(p)) >= MaxFailures
       THEN Finish(c)
       ELSE Goto(c, [pc |-> "fail", p |-> p])
    /\ UNCHANGED <<users, members, otpVars, tokenVars>>

FailOpenAttempts(c) ==
    LET p == req[c].p IN
    /\ At(c, "fail")
    /\ attempt' = [attempt EXCEPT ![p] = [i \in DOMAIN @ |->
                      IF @[i].stage = "otp_sent" THEN [@[i] EXCEPT !.stage = "failed", !.strikes = 0]
                      ELSE @[i]]]
    /\ Goto(c, [pc |-> "insert", p |-> p])
    /\ UNCHANGED <<users, members, otp, session, guesses, opened, disturbed, tokenVars>>

InsertAttempt(c) ==
    LET p == req[c].p
        row == [stage |-> "otp_sent", strikes |-> 0, recent |-> TRUE]
    IN
    /\ At(c, "insert") /\ Len(attempt[p]) < MaxAttempts
    /\ attempt' = [attempt EXCEPT ![p] = Append(@, row)]
    /\ guesses' = [guesses EXCEPT ![p] = Append(@, 0)]
    /\ Finish(c)
    /\ UNCHANGED <<users, members, otp, session, opened, disturbed, tokenVars>>

(***************************************************************************)
(* verifyOtp: the newest open attempt, the newest usable code, then both   *)
(* rows are saved from the copies.                                         *)
(***************************************************************************)
BeginVerify(c, p) ==
    LET i == Latest({k \in DOMAIN attempt[p] : attempt[p][k].stage = "otp_sent"}) IN
    /\ Free(c) /\ i # 0
    /\ Enter(p)
    /\ Goto(c, [pc |-> "compare", p |-> p, i |-> i, copy |-> attempt[p][i]])
    /\ UNCHANGED <<users, members, otp, attempt, session, guesses, opened, tokenVars>>

UsableOtpAgain(p) == Latest({k \in DOMAIN otp[p] : otp[p][k].live})    \* mutant: verified_at is ignored

UsableOtp(p) == Latest({k \in DOMAIN otp[p] : otp[p][k].live /\ ~otp[p][k].verified})

CompareRight(c) ==
    LET r == req[c] IN
    /\ At(c, "compare") /\ UsableOtp(r.p) # 0
    /\ Goto(c, [pc |-> "mark", p |-> r.p, i |-> r.i, copy |-> r.copy, j |-> UsableOtp(r.p)])
    /\ UNCHANGED <<users, members, otpVars, tokenVars>>

\* Only a comparison with a usable code is a guess; the history is kept for
\* undisturbed phones.
CompareWrong(c) ==
    LET r == req[c] IN
    /\ At(c, "compare")
    /\ guesses' = IF UsableOtp(r.p) = 0 \/ r.p \in disturbed THEN guesses
                  ELSE [guesses EXCEPT ![r.p][r.i] = Min({@ + 1, MaxStrikes + 1})]
    /\ Goto(c, [r EXCEPT !.pc = "strike"])
    /\ UNCHANGED <<users, members, otp, attempt, session, opened, disturbed, tokenVars>>

MarkVerified(c) ==
    LET r == req[c] IN
    /\ At(c, "mark")
    /\ otp' = [otp EXCEPT ![r.p][r.j] = [live |-> TRUE, verified |-> TRUE]]
    /\ Goto(c, [r EXCEPT !.pc = "verified"])
    /\ UNCHANGED <<users, members, attempt, session, guesses, opened, disturbed, tokenVars>>

\* Saving the copy; its age is not a column that can go back.
SaveAttempt(r, row) ==
    attempt' = [attempt EXCEPT ![r.p][r.i] = [row EXCEPT !.recent = attempt[r.p][r.i].recent]]

OpenSession(c) ==
    LET r == req[c] IN
    /\ At(c, "verified")
    /\ SaveAttempt(r, [r.copy EXCEPT !.stage = "otp_verified"])
    /\ session' = session \union {<<r.p, r.i>>}
    /\ opened' = [opened EXCEPT ![r.p][r.j] = Min({@ + 1, Cardinality(Clients) + 1})]
    /\ Finish(c)
    /\ UNCHANGED <<users, members, otp, guesses, disturbed, tokenVars>>

StrikeLate(c) ==    \* mutant: > instead of >=
    LET r == req[c]
        strikes == r.copy.strikes + 1
    IN
    /\ At(c, "strike")
    /\ SaveAttempt(r, IF strikes > MaxStrikes
                      THEN [r.copy EXCEPT !.stage = "failed", !.strikes = 0]
                      ELSE [r.copy EXCEPT !.strikes = strikes])
    /\ Finish(c)
    /\ UNCHANGED <<users, members, otp, session, guesses, opened, disturbed, tokenVars>>

Strike(c) ==
    LET r == req[c]
        strikes == r.copy.strikes + 1
    IN
    /\ At(c, "strike")
    /\ SaveAttempt(r, IF strikes >= MaxStrikes
                      THEN [r.copy EXCEPT !.stage = "failed", !.strikes = 0]
                      ELSE [r.copy EXCEPT !.strikes = strikes])
    /\ Finish(c)
    /\ UNCHANGED <<users, members, otp, session, guesses, opened, disturbed, tokenVars>>

(***************************************************************************)
(* Refresh tokens.  A login or a signup starts a chain, a refresh revokes  *)
(* the token it was given and then issues the next one of its chain.       *)
(* Bound: for an account opened during the run only the first token is     *)
(* issued; logins and rotations are followed for the members.              *)
(***************************************************************************)
Followed(t) == token[t].user \in members
Chains == {token[t].chain : t \in DOMAIN token}
NewToken(p, chain) == Append(token, [state |-> "live", user |-> p, chain |-> chain])
StartChain(p) ==
    /\ Len(token) < MaxTokens
    /\ token' = NewToken(p, Cardinality(Chains) + 1)

(***************************************************************************)
(* signup, behind a session token of scope signup_only.  Its sponsorship   *)
(* part is module Sponsorship.                                             *)
(***************************************************************************)
BeginSignup(c, p, i) ==
    /\ Free(c) /\ <<p, i>> \in session
    /\ p \notin users
    /\ Goto(c, [pc |-> "signup", p |-> p, i |-> i])
    /\ UNCHANGED <<users, members, otpVars, tokenVars>>

CompleteAttempt(p, i) == attempt' = [attempt EXCEPT ![p][i].stage = "completed"]

\* The phone is a unique key.
CommitSignup(c) ==
    LET r == req[c] IN
    /\ At(c, "signup") /\ r.p \notin users
    /\ users' = users \union {r.p}
    /\ CompleteAttempt(r.p, r.i)
    /\ StartChain(r.p)
    /\ Finish(c)
    /\ UNCHANGED <<members, otp, session, guesses, opened, disturbed, doubled>>

\* login and loginWithGoogle differ in how they find the account.
Login(p) ==
    /\ p \in members /\ p \in users
    /\ StartChain(p)
    /\ UNCHANGED <<users, members, otpVars, doubled, req>>

LoginWithGoogle(p) ==
    /\ p \in members /\ p \in users
    /\ StartChain(p)
    /\ UNCHANGED <<users, members, otpVars, doubled, req>>

BeginRefreshAny(c, t) ==    \* mutant: revoked_at is not looked at
    /\ Free(c) /\ Followed(t) /\ token[t].state # "expired"
    /\ Goto(c, [pc |-> "revoke", t |-> t])
    /\ UNCHANGED <<users, members, otpVars, tokenVars>>

BeginRefresh(c, t) ==
    /\ Free(c) /\ Followed(t) /\ token[t].state = "live"
    /\ Goto(c, [pc |-> "revoke", t |-> t])
    /\ UNCHANGED <<users, members, otpVars, tokenVars>>

RevokeTokenNot(c) ==    \* mutant: the new token is issued beside the old one
    /\ At(c, "revoke")
    /\ Goto(c, [req[c] EXCEPT !.pc = "issue"])
    /\ UNCHANGED <<users, members, otpVars, tokenVars>>

RevokeToken(c) ==
    LET t == req[c].t IN
    /\ At(c, "revoke")
    /\ token' = [token EXCEPT ![t].state = "revoked"]
    /\ doubled' = IF token[t].state = "revoked" THEN doubled \union {token[t].chain} ELSE doubled
    /\ Goto(c, [req[c] EXCEPT !.pc = "issue"])
    /\ UNCHANGED <<users, members, otpVars>>

IssueToken(c) ==
    LET old == token[req[c].t] IN
    /\ At(c, "issue") /\ Len(token) < MaxTokens
    /\ token' = NewToken(old.user, old.chain)
    /\ Finish(c)
    /\ UNCHANGED <<users, members, otpVars, doubled>>

BeginLogout(c, t) ==
    /\ Free(c) /\ Followed(t) /\ token[t].state # "revoked"
    /\ Goto(c, [pc |-> "logout", t |-> t])
    /\ UNCHANGED <<users, members, otpVars, tokenVars>>

CommitLogout(c) ==
    /\ At(c, "logout")
    /\ token' = [token EXCEPT ![req[c].t].state = "revoked"]
    /\ Finish(c)
    /\ UNCHANGED <<users, members, otpVars, doubled>>

(***************************************************************************)
(* Time and crashes                                                        *)
(***************************************************************************)
OtpExpires(p, j) ==
    /\ otp[p][j].live /\ ~otp[p][j].verified
    /\ otp' = [otp EXCEPT ![p][j].live = FALSE]
    /\ UNCHANGED <<users, members, attempt, session, guesses, opened, disturbed, tokenVars, req>>

\* The oldest attempt of the last hour becomes older than an hour.
AttemptAges(p) ==
    LET young == {i \in DOMAIN attempt[p] : attempt[p][i].recent} IN
    /\ young # {}
    /\ attempt' = [attempt EXCEPT ![p][Min(young)].recent = FALSE]
    /\ UNCHANGED <<users, members, otp, session, guesses, opened, disturbed, tokenVars, req>>

TokenExpires(t) ==
    /\ Followed(t) /\ token[t].state = "live"
    /\ token' = [token EXCEPT ![t].state = "expired"]
    /\ UNCHANGED <<users, members, otpVars, doubled, req>>

\* The process dies, or a statement of the call fails.
CutShort(c) ==
    /\ ~Free(c)
    /\ disturbed' = IF req[c].pc \in OtpPcs THEN disturbed \union {req[c].p} ELSE disturbed
    /\ Finish(c)
    /\ UNCHANGED <<users, members, otp, attempt, session, guesses, opened, tokenVars>>

Next ==
    \/ \E c \in Clients, p \in Phones : BeginSendOtp(c, p) \/ BeginVerify(c, p)
    \/ \E c \in Clients :
          \/ StoreOtp(c) \/ CheckLimit(c) \/ FailOpenAttempts(c) \/ InsertAttempt(c)
          \/ CompareRight(c) \/ CompareWrong(c) \/ MarkVerified(c) \/ OpenSession(c) \/ Strike(c)
          \/ CommitSignup(c) \/ RevokeToken(c) \/ IssueToken(c) \/ CommitLogout(c)
          \/ CutShort(c)
    \/ \E c \in Clients, s \in session : BeginSignup(c, s[1], s[2])
    \/ \E p \in Phones : Login(p) \/ LoginWithGoogle(p)
    \/ \E c \in Clients, t \in DOMAIN token : BeginRefresh(c, t) \/ BeginLogout(c, t)
    \/ \E p \in Phones : \E j \in DOMAIN otp[p] : OtpExpires(p, j)
    \/ \E p \in Phones : AttemptAges(p)
    \/ \E t \in DOMAIN token : TokenExpires(t)

Spec == Init /\ [][Next]_vars

(***************************************************************************)
(* Properties                                                              *)
(***************************************************************************)
TypeOK ==
    /\ users \subseteq Phones
    /\ otp \in [Phones -> Seq(OtpRow)]
    /\ attempt \in [Phones -> Seq(AttemptRow)]
    /\ \A s \in session : s[1] \in Phones /\ s[2] \in DOMAIN attempt[s[1]]
    /\ token \in Seq(TokenRow)
    /\ \A c \in Clients : "t" \in DOMAIN req[c] => req[c].t \in DOMAIN token
    /\ disturbed \subseteq Phones
    /\ doubled \subseteq Chains

\* A code is read, compared and marked in separate steps, so calls that compare
\* it at the same time may each open a session; a code that is marked opens none.
OtpIsSpent ==
    \A p \in Phones : \A j \in DOMAIN otp[p] : opened[p][j] <= Cardinality(Clients)

\* The five-strike lockout: while the calls for a phone come one after another,
\* no attempt sees more wrong codes than it allows.
StrikesEnforced ==
    \A p \in Phones \ disturbed : \A i \in DOMAIN attempt[p] : guesses[p][i] <= MaxStrikes

\* "The per-attempt counter is resettable by requesting a new OTP": across all
\* attempts of one hour that were not answered correctly, the wrong codes are
\* bounded, also when refused requests keep replacing the code.
Unanswered(p) ==
    {i \in DOMAIN attempt[p] : attempt[p][i].recent /\ attempt[p][i].stage \in {"otp_sent", "failed"}}

\* The guesses under some attempts of a phone, each with its number.
GuessesUnder(p, attempts) == UNION {{i} \X (1..guesses[p][i]) : i \in attempts}

HourlyGuessLimit ==
    \A p \in Phones \ disturbed :
        Cardinality(GuessesUnder(p, Unanswered(p))) <= (MaxFailures + 1) * MaxStrikes

\* Rotation keeps one usable token per login: two refreshes that both read the
\* token before either revoked it are the only way to fork a chain.
Holders(chain) ==
    {<<"token", t>> : t \in {t \in DOMAIN token : token[t].chain = chain /\ token[t].state = "live"}}
    \union
    {<<"call", c>> : c \in {c \in Clients : req[c].pc = "issue" /\ token[req[c].t].chain = chain}}

RotationIsLinear ==
    \A chain \in Chains \ doubled :
        \A h, k \in Holders(chain) : h = k

\* A login whose tokens are all revoked or expired, with no refresh of it in
\* flight, is over: nothing brings it back.
Over(chain) ==
    /\ chain \in Chains
    /\ \A t \in DOMAIN token : token[t].chain = chain => token[t].state # "live"
    /\ \A c \in Clients : req[c].pc \in {"revoke", "issue"} => token[req[c].t].chain # chain

LoggedOutStaysOut == [][\A chain \in Chains : Over(chain) => Over(chain)']_vars
==============================================================================
