--------------------------- MODULE Accounts_proofs ---------------------------
(***************************************************************************)
(* What TLAPS proves of phone verification and of refresh tokens, for any  *)
(* number of phones, of accounts, of logins and of calls in flight.        *)
(*                                                                         *)
(*   LinearRotation      Spec => []RotationIsLinear                        *)
(*   LogoutIsFinal       Spec => LoggedOutStaysOut                         *)
(*   MarkedCodeIsSpent   Spec => []OtpIsSpent                              *)
(*   FiveStrikes         Spec => []StrikesEnforced                         *)
(*   GuessesAreBounded   Spec => []HourlyGuessLimit                        *)
(*                                                                         *)
(* What survives of a login is the tokens that are not revoked and the     *)
(* refreshes that have revoked one and not issued the next: its heirs.     *)
(* Every step of a call moves the one heir there is, or removes it, unless *)
(* it revokes what is revoked already; expired tokens are heirs too, for a *)
(* refresh that has read one before it expired still rotates it.           *)
(*                                                                         *)
(* A code counts the sessions it opened and the calls that may still open  *)
(* one; no call joins them once it is marked.  A phone whose calls never   *)
(* overlapped has one open attempt, whose strikes are its wrong codes, but *)
(* for the one the running call is about to save.                          *)
(***************************************************************************)
EXTENDS Accounts, SequenceTheorems, FiniteSetTheorems, WellFoundedInduction, TLAPS

TokenPcs == {"revoke", "issue", "logout"}

TokensOK ==
    /\ \E S : token \in Seq(S)
    /\ \A t \in DOMAIN token : {"state", "chain"} \subseteq DOMAIN token[t]

CallsOK ==
    /\ DOMAIN req = Clients
    /\ \A c \in Clients : "pc" \in DOMAIN req[c]
    /\ \A c \in Clients : req[c].pc \in TokenPcs => "t" \in DOMAIN req[c] /\ req[c].t \in DOMAIN token

\* Chains are numbered as they start.
ChainsOK == \E n \in Nat : Chains = 1..n

Kept(t) == t \in DOMAIN token /\ token[t].state # "revoked"
Issuing(c) == c \in Clients /\ req[c].pc = "issue"
ChainOf(c) == token[req[c].t].chain

OneHeir ==
    /\ \A t, u \in DOMAIN token :
          Kept(t) /\ Kept(u) /\ token[t].chain = token[u].chain /\ token[t].chain \notin doubled => t = u
    /\ \A c, d \in Clients :
          Issuing(c) /\ Issuing(d) /\ ChainOf(c) = ChainOf(d) /\ ChainOf(c) \notin doubled => c = d
    /\ \A c \in Clients, t \in DOMAIN token :
          Issuing(c) /\ Kept(t) /\ ChainOf(c) = token[t].chain => token[t].chain \in doubled

AccountsInv == TokensOK /\ CallsOK /\ ChainsOK /\ OneHeir

StillOver == \A chain \in Chains : Over(chain) => Over(chain)'

(***************************************************************************)
(* Two ways to write the table of tokens                                   *)
(***************************************************************************)
LEMMA TokenDomain == ASSUME TokensOK PROVE Len(token) \in Nat /\ DOMAIN token = 1..Len(token)
BY LenProperties DEF TokensOK

LEMMA TokenAppended ==
    ASSUME TokensOK, NEW e, {"state", "chain"} \subseteq DOMAIN e, token' = Append(token, e)
    PROVE  /\ TokensOK'
           /\ Len(token) + 1 \notin DOMAIN token
           /\ DOMAIN token' = DOMAIN token \union {Len(token) + 1}
           /\ token'[Len(token) + 1] = e
           /\ \A t \in DOMAIN token : token'[t] = token[t]
<1>1. PICK S : token \in Seq(S)
  BY DEF TokensOK
<1> DEFINE T == S \union {e}
<1>2. token \in Seq(T) /\ e \in T
  BY <1>1, SeqMonotonic
<1>3. /\ token' \in Seq(T) /\ Len(token') = Len(token) + 1
      /\ \A i \in 1..Len(token) : token'[i] = token[i]
      /\ token'[Len(token) + 1] = e
  BY <1>2, AppendProperties
<1> HIDE DEF T
<1>4. DOMAIN token' = 1..(Len(token) + 1) /\ DOMAIN token = 1..Len(token) /\ Len(token) \in Nat
  BY <1>2, <1>3, LenProperties
<1>5. \A t \in DOMAIN token' : {"state", "chain"} \subseteq DOMAIN token'[t]
  BY <1>3, <1>4 DEF TokensOK
<1>6. TokensOK'
  BY <1>3, <1>5 DEF TokensOK
<1> QED
  BY <1>3, <1>4, <1>6

LEMMA StateChanged ==
    ASSUME TokensOK, NEW t \in DOMAIN token, NEW s, token' = [token EXCEPT ![t].state = s]
    PROVE  /\ TokensOK' /\ DOMAIN token' = DOMAIN token /\ Chains' = Chains
           /\ \A u \in DOMAIN token :
                 /\ token'[u].chain = token[u].chain
                 /\ token'[u].state = IF u = t THEN s ELSE token[u].state
<1>1. PICK e : e = [token[t] EXCEPT !.state = s]
  OBVIOUS
<1>2. {"state", "chain"} \subseteq DOMAIN token[t]
  BY DEF TokensOK
<1>3. {"state", "chain"} \subseteq DOMAIN e /\ e.state = s /\ e.chain = token[t].chain
  BY <1>1, <1>2
<1>4. token' = [token EXCEPT ![t] = e]
  BY <1>1
<1>5. PICK S : token \in Seq(S)
  BY DEF TokensOK
<1> DEFINE T == S \union {e}
<1>6. token \in Seq(T) /\ e \in T
  BY <1>5, SeqMonotonic
<1>7. t \in 1..Len(token)
  BY TokenDomain
<1>8. token' \in Seq(T)
  BY <1>4, <1>6, <1>7, ExceptSeq
<1> HIDE DEF T
<1>9. DOMAIN token' = DOMAIN token /\ \A u \in DOMAIN token : token'[u] = IF u = t THEN e ELSE token[u]
  BY <1>4
<1>10. TokensOK'
  BY <1>3, <1>8, <1>9 DEF TokensOK
<1>11. \A u \in DOMAIN token : token'[u].chain = token[u].chain
  BY <1>3, <1>9
<1>12. Chains' = Chains
  BY <1>9, <1>11 DEF Chains
<1> QED
  BY <1>3, <1>9, <1>10, <1>11, <1>12

(***************************************************************************)
(* Calls that do not write tokens                                          *)
(***************************************************************************)
LEMMA TokensRead ==
    ASSUME AccountsInv, NEW c \in Clients, NEW x, "pc" \in DOMAIN x, x.pc # "issue",
           req' = [req EXCEPT ![c] = x], UNCHANGED tokenVars,
           x.pc \in TokenPcs => "t" \in DOMAIN x /\ x.t \in DOMAIN token,
           x.pc = "revoke" => token[x.t].state = "live"
    PROVE  AccountsInv' /\ StillOver
<1>1. token' = token /\ doubled' = doubled
  BY DEF tokenVars
<1>2. DOMAIN req' = Clients /\ \A d \in Clients : req'[d] = IF d = c THEN x ELSE req[d]
  BY DEF AccountsInv, CallsOK
<1>3. TokensOK' /\ ChainsOK'
  BY <1>1 DEF AccountsInv, TokensOK, ChainsOK, Chains
<1>4. CallsOK'
  BY <1>1, <1>2 DEF AccountsInv, CallsOK
<1>5. OneHeir'
  BY <1>1, <1>2 DEF AccountsInv, OneHeir, Issuing, Kept, ChainOf
<1>6. ASSUME NEW chain, Over(chain) PROVE Over(chain)'
  <2>1. \A t \in DOMAIN token : token[t].chain = chain => token[t].state # "live"
    BY <1>6 DEF Over
  <2>2. \A d \in Clients : req[d].pc \in {"revoke", "issue"} => token[req[d].t].chain # chain
    BY <1>6 DEF Over
  <2>3. x.pc = "revoke" => token[x.t].chain # chain
    BY <2>1 DEF TokenPcs
  <2>4. \A d \in Clients : req'[d].pc \in {"revoke", "issue"} => token[req'[d].t].chain # chain
    BY <1>2, <2>2, <2>3
  <2>5. Chains' = Chains
    BY <1>1 DEF Chains
  <2> QED
    BY <1>1, <1>6, <2>1, <2>4, <2>5 DEF Over
<1>7. StillOver
  BY <1>6 DEF StillOver
<1> QED
  BY <1>3, <1>4, <1>5, <1>7 DEF AccountsInv

LEMMA OtherCall ==
    ASSUME AccountsInv, NEW c \in Clients, NEW x, "pc" \in DOMAIN x, x.pc \notin TokenPcs,
           req' = [req EXCEPT ![c] = x], UNCHANGED tokenVars
    PROVE  AccountsInv' /\ StillOver
BY TokensRead DEF TokenPcs

LEMMA NothingWritten ==
    ASSUME AccountsInv, UNCHANGED <<tokenVars, req>>
    PROVE  AccountsInv' /\ StillOver
BY DEF AccountsInv, TokensOK, CallsOK, ChainsOK, OneHeir, Kept, Issuing, ChainOf, StillOver,
       Over, Chains, tokenVars

LEMMA CallEnds ==
    ASSUME AccountsInv, NEW c \in Clients, Finish(c), UNCHANGED tokenVars
    PROVE  AccountsInv' /\ StillOver
<1>1. PICK x : x = Idle
  OBVIOUS
<1>2. "pc" \in DOMAIN x /\ x.pc = "idle" /\ req' = [req EXCEPT ![c] = x]
  BY <1>1 DEF Idle, Finish, Goto
<1> QED
  BY <1>2, OtherCall DEF TokenPcs

\* A call for a phone goes on.
LEMMA CallGoesOn ==
    ASSUME AccountsInv, NEW c \in Clients, NEW pc, pc \notin TokenPcs,
           Goto(c, [req[c] EXCEPT !.pc = pc]), UNCHANGED tokenVars
    PROVE  AccountsInv' /\ StillOver
<1>1. PICK x : x = [req[c] EXCEPT !.pc = pc]
  OBVIOUS
<1>2. "pc" \in DOMAIN req[c]
  BY DEF AccountsInv, CallsOK
<1>3. "pc" \in DOMAIN x /\ x.pc = pc /\ req' = [req EXCEPT ![c] = x]
  BY <1>1, <1>2 DEF Goto
<1> QED
  BY <1>3, OtherCall

(***************************************************************************)
(* Calls that do                                                           *)
(***************************************************************************)
\* A login or a signup: the first token of a new chain.
LEMMA ChainStarts ==
    ASSUME AccountsInv, NEW p, StartChain(p), doubled' = doubled,
           req' = req \/ \E c \in Clients : Finish(c)
    PROVE  AccountsInv' /\ StillOver
<1>1. PICK n \in Nat : Chains = 1..n
  BY DEF AccountsInv, ChainsOK
<1>2. Cardinality(Chains) = n
  BY <1>1, FS_Interval
<1>3. PICK e : e = [state |-> "live", user |-> p, chain |-> n + 1]
  OBVIOUS
<1>4. token' = Append(token, e) /\ {"state", "chain"} \subseteq DOMAIN e
  BY <1>2, <1>3 DEF StartChain, NewToken
<1>5. PICK k : k = Len(token) + 1
  OBVIOUS
<1>6. /\ TokensOK' /\ k \notin DOMAIN token /\ DOMAIN token' = DOMAIN token \union {k}
      /\ token'[k] = e /\ \A t \in DOMAIN token : token'[t] = token[t]
  BY <1>4, <1>5, TokenAppended DEF AccountsInv
<1>7. \A t \in DOMAIN token : token[t].chain \in Chains
  BY DEF Chains
<1>8. Chains' = Chains \union {n + 1}
  BY <1>3, <1>6 DEF Chains
<1>9. n + 1 \notin Chains
  BY <1>1
<1>10. ChainsOK'
  <2>1. Chains' = 1..(n + 1)
    BY <1>1, <1>8
  <2> QED
    BY <2>1 DEF ChainsOK
<1>11. DOMAIN req' = Clients
       /\ \A c \in Clients : req'[c] = req[c] \/ req'[c] = Idle
  BY DEF AccountsInv, CallsOK, Finish, Goto
<1>12. "pc" \in DOMAIN Idle /\ Idle.pc \notin TokenPcs
  BY DEF Idle, TokenPcs
<1>13. CallsOK'
  BY <1>6, <1>11, <1>12 DEF AccountsInv, CallsOK
<1>14. \A c \in Clients : req'[c].pc \in TokenPcs =>
          req'[c] = req[c] /\ req[c].t \in DOMAIN token /\ token'[req[c].t] = token[req[c].t]
  BY <1>6, <1>11, <1>12 DEF AccountsInv, CallsOK
<1>15. OneHeir'
  <2>1. ASSUME NEW t \in DOMAIN token', NEW u \in DOMAIN token', Kept(t)', Kept(u)',
               token'[t].chain = token'[u].chain, token'[t].chain \notin doubled
        PROVE  t = u
    <3>1. token'[k].chain = n + 1
      BY <1>3, <1>6
    <3>2. CASE t = k \/ u = k
      BY <1>6, <1>7, <1>9, <2>1, <3>1, <3>2
    <3>3. CASE t # k /\ u # k
      BY <1>6, <2>1, <3>3 DEF AccountsInv, OneHeir, Kept
    <3> QED
      BY <3>2, <3>3
  <2>2. ASSUME NEW c \in Clients, NEW d \in Clients, Issuing(c)', Issuing(d)',
               ChainOf(c)' = ChainOf(d)', ChainOf(c)' \notin doubled
        PROVE  c = d
    BY <1>14, <2>2 DEF AccountsInv, OneHeir, Issuing, ChainOf, TokenPcs
  <2>3. ASSUME NEW c \in Clients, NEW t \in DOMAIN token', Issuing(c)', Kept(t)',
               ChainOf(c)' = token'[t].chain
        PROVE  token'[t].chain \in doubled
    <3>1. Issuing(c) /\ ChainOf(c)' = ChainOf(c) /\ ChainOf(c) \in Chains
      BY <1>7, <1>14, <2>3 DEF Issuing, ChainOf, TokenPcs
    <3>2. token'[k].chain = n + 1
      BY <1>3, <1>6
    <3>3. token'[t].chain \in Chains
      BY <2>3, <3>1
    <3>4. t # k
      BY <1>9, <3>2, <3>3
    <3> QED
      BY <1>6, <2>3, <3>1, <3>4 DEF AccountsInv, OneHeir, Kept
  <2> QED
    BY <2>1, <2>2, <2>3 DEF OneHeir
<1>16. ASSUME NEW chain \in Chains, Over(chain) PROVE Over(chain)'
  <2>1. \A t \in DOMAIN token' : token'[t].chain = chain => token'[t].state # "live"
    BY <1>3, <1>6, <1>9, <1>16 DEF Over
  <2>2. \A c \in Clients : req'[c].pc \in {"revoke", "issue"} => token'[req'[c].t].chain # chain
    BY <1>14, <1>16 DEF Over, TokenPcs
  <2> QED
    BY <1>8, <2>1, <2>2 DEF Over
<1> QED
  BY <1>6, <1>10, <1>13, <1>15, <1>16 DEF AccountsInv, StillOver

LEMMA CallReadsToken ==
    ASSUME AccountsInv, NEW c \in Clients, NEW t \in DOMAIN token, BeginRefresh(c, t) \/ BeginLogout(c, t)
    PROVE  AccountsInv' /\ StillOver
<1>1. CASE BeginRefresh(c, t)
  <2>1. PICK x : x = [pc |-> "revoke", t |-> t]
    OBVIOUS
  <2>2. req' = [req EXCEPT ![c] = x] /\ UNCHANGED tokenVars /\ token[t].state = "live"
    BY <1>1, <2>1 DEF BeginRefresh, Goto
  <2>3. "pc" \in DOMAIN x /\ x.pc # "issue" /\ "t" \in DOMAIN x /\ x.t \in DOMAIN token
        /\ token[x.t].state = "live"
    BY <2>1, <2>2
  <2> QED
    BY <2>2, <2>3, TokensRead
<1>2. CASE BeginLogout(c, t)
  <2>1. PICK x : x = [pc |-> "logout", t |-> t]
    OBVIOUS
  <2>2. req' = [req EXCEPT ![c] = x] /\ UNCHANGED tokenVars
    BY <1>2, <2>1 DEF BeginLogout, Goto
  <2>3. "pc" \in DOMAIN x /\ x.pc = "logout" /\ "t" \in DOMAIN x /\ x.t \in DOMAIN token
    BY <2>1
  <2> QED
    BY <2>2, <2>3, TokensRead
<1> QED
  BY <1>1, <1>2

\* A token that is not usable afterwards: revoked by logout, or expired.
LEMMA TokenEnds ==
    ASSUME AccountsInv, NEW t \in DOMAIN token, NEW s,
           s = "revoked" \/ (s = "expired" /\ token[t].state = "live"),
           token' = [token EXCEPT ![t].state = s], doubled' = doubled,
           req' = req \/ \E c \in Clients : Finish(c)
    PROVE  AccountsInv' /\ StillOver
<1>1. /\ TokensOK' /\ DOMAIN token' = DOMAIN token /\ Chains' = Chains
      /\ \A u \in DOMAIN token : token'[u].chain = token[u].chain
      /\ \A u \in DOMAIN token : token'[u].state = IF u = t THEN s ELSE token[u].state
  BY StateChanged DEF AccountsInv
<1>2. DOMAIN req' = Clients
      /\ \A c \in Clients : req'[c] = req[c] \/ req'[c] = Idle
  BY DEF AccountsInv, CallsOK, Finish, Goto
<1>3. "pc" \in DOMAIN Idle /\ Idle.pc \notin TokenPcs
  BY DEF Idle, TokenPcs
<1>4. CallsOK'
  BY <1>1, <1>2, <1>3 DEF AccountsInv, CallsOK
<1>5. \A c \in Clients : req'[c].pc \in TokenPcs =>
         req'[c] = req[c] /\ token'[req[c].t].chain = token[req[c].t].chain
  BY <1>1, <1>2, <1>3 DEF AccountsInv, CallsOK
<1>6. \A u \in DOMAIN token : Kept(u)' => Kept(u)
  BY <1>1 DEF Kept
<1>7. \A c \in Clients : Issuing(c)' => Issuing(c) /\ ChainOf(c)' = ChainOf(c)
  BY <1>5 DEF Issuing, ChainOf, TokenPcs
<1>8. OneHeir'
  BY <1>1, <1>6, <1>7 DEF AccountsInv, OneHeir
<1>9. ASSUME NEW chain, Over(chain) PROVE Over(chain)'
  BY <1>1, <1>5, <1>9 DEF Over, TokenPcs
<1>10. ChainsOK'
  BY <1>1 DEF AccountsInv, ChainsOK
<1> QED
  BY <1>1, <1>4, <1>8, <1>9, <1>10 DEF AccountsInv, StillOver

\* The token a refresh has read is replaced, as heir, by the refresh itself.
LEMMA RevokeTokenKeeps ==
    ASSUME AccountsInv, NEW c \in Clients, RevokeToken(c)
    PROVE  AccountsInv' /\ StillOver
<1>1. PICK t : t = req[c].t
  OBVIOUS
<1>2. PICK x : x = [req[c] EXCEPT !.pc = "issue"]
  OBVIOUS
<1>3. /\ req[c].pc = "revoke" /\ req' = [req EXCEPT ![c] = x]
      /\ token' = [token EXCEPT ![t].state = "revoked"]
      /\ doubled' = IF token[t].state = "revoked" THEN doubled \union {token[t].chain} ELSE doubled
  BY <1>1, <1>2 DEF RevokeToken, At, Goto
<1>4. t \in DOMAIN token /\ {"pc", "t"} \subseteq DOMAIN req[c]
  BY <1>1, <1>3 DEF AccountsInv, CallsOK, TokenPcs
<1>5. {"pc", "t"} \subseteq DOMAIN x /\ x.pc = "issue" /\ x.t = t
  BY <1>1, <1>2, <1>4
<1>6. /\ TokensOK' /\ DOMAIN token' = DOMAIN token /\ Chains' = Chains
      /\ \A u \in DOMAIN token : token'[u].chain = token[u].chain
      /\ \A u \in DOMAIN token : token'[u].state = IF u = t THEN "revoked" ELSE token[u].state
  BY <1>3, <1>4, StateChanged DEF AccountsInv
<1>7. DOMAIN req' = Clients /\ \A d \in Clients : req'[d] = IF d = c THEN x ELSE req[d]
  BY <1>3 DEF AccountsInv, CallsOK
<1>8. CallsOK'
  BY <1>4, <1>5, <1>6, <1>7 DEF AccountsInv, CallsOK
<1>9. ChainsOK'
  BY <1>6 DEF AccountsInv, ChainsOK
<1>10. \A u \in DOMAIN token : Kept(u)' => u # t /\ Kept(u)
  BY <1>4, <1>6 DEF Kept
<1>11. \A d \in Clients : Issuing(d)' => \/ d = c /\ ChainOf(d)' = token[t].chain
                                         \/ d # c /\ Issuing(d) /\ ChainOf(d)' = ChainOf(d)
  BY <1>4, <1>5, <1>6, <1>7 DEF Issuing, ChainOf, AccountsInv, CallsOK, TokenPcs
<1>12. /\ doubled \subseteq doubled'
       /\ token[t].chain \notin doubled' => Kept(t) /\ token[t].chain \notin doubled
  BY <1>3, <1>4 DEF Kept
<1>13. OneHeir'
  <2>1. ASSUME NEW u \in DOMAIN token', NEW v \in DOMAIN token', Kept(u)', Kept(v)',
               token'[u].chain = token'[v].chain, token'[u].chain \notin doubled'
        PROVE  u = v
    BY <1>6, <1>10, <1>12, <2>1 DEF AccountsInv, OneHeir
  <2>2. ASSUME NEW d \in Clients, NEW e \in Clients, Issuing(d)', Issuing(e)',
               ChainOf(d)' = ChainOf(e)', ChainOf(d)' \notin doubled'
        PROVE  d = e
    BY <1>4, <1>11, <1>12, <2>2 DEF AccountsInv, OneHeir
  <2>3. ASSUME NEW d \in Clients, NEW u \in DOMAIN token', Issuing(d)', Kept(u)',
               ChainOf(d)' = token'[u].chain
        PROVE  token'[u].chain \in doubled'
    <3>1. u \in DOMAIN token /\ u # t /\ Kept(u) /\ token'[u].chain = token[u].chain
      BY <1>6, <1>10, <2>3
    <3>2. CASE d = c
      BY <1>4, <1>11, <1>12, <2>3, <3>1, <3>2 DEF AccountsInv, OneHeir
    <3>3. CASE d # c
      BY <1>11, <1>12, <2>3, <3>1, <3>3 DEF AccountsInv, OneHeir
    <3> QED
      BY <3>2, <3>3
  <2> QED
    BY <2>1, <2>2, <2>3 DEF OneHeir
<1>14. ASSUME NEW chain, Over(chain) PROVE Over(chain)'
  <2>1. token[t].chain # chain
    BY <1>1, <1>3, <1>14 DEF Over
  <2>2. \A u \in DOMAIN token' : token'[u].chain = chain => token'[u].state # "live"
    BY <1>6, <1>14 DEF Over
  <2>3. \A d \in Clients : req'[d].pc \in {"revoke", "issue"} => token'[req'[d].t].chain # chain
    BY <1>4, <1>5, <1>6, <1>7, <1>14, <2>1 DEF Over, AccountsInv, CallsOK, TokenPcs
  <2> QED
    BY <1>6, <1>14, <2>2, <2>3 DEF Over
<1> QED
  BY <1>6, <1>8, <1>9, <1>13, <1>14 DEF AccountsInv, StillOver

\* The refresh is replaced, as heir, by the token it issues.
LEMMA IssueTokenKeeps ==
    ASSUME AccountsInv, NEW c \in Clients, IssueToken(c)
    PROVE  AccountsInv' /\ StillOver
<1>1. PICK t : t = req[c].t
  OBVIOUS
<1>2. PICK e : e = [state |-> "live", user |-> token[t].user, chain |-> token[t].chain]
  OBVIOUS
<1>3. /\ req[c].pc = "issue" /\ req' = [req EXCEPT ![c] = Idle]
      /\ token' = Append(token, e) /\ doubled' = doubled
  BY <1>1, <1>2 DEF IssueToken, NewToken, At, Finish, Goto
<1>4. t \in DOMAIN token
  BY <1>1, <1>3 DEF AccountsInv, CallsOK, TokenPcs
<1>5. {"state", "chain"} \subseteq DOMAIN e /\ e.state = "live" /\ e.chain = token[t].chain
  BY <1>2
<1>6. PICK k : k = Len(token) + 1
  OBVIOUS
<1>7. /\ TokensOK' /\ k \notin DOMAIN token /\ DOMAIN token' = DOMAIN token \union {k}
      /\ token'[k] = e /\ \A u \in DOMAIN token : token'[u] = token[u]
  BY <1>3, <1>5, <1>6, TokenAppended DEF AccountsInv
<1>8. Chains' = Chains
  BY <1>4, <1>5, <1>7 DEF Chains
<1>9. DOMAIN req' = Clients /\ \A d \in Clients : req'[d] = IF d = c THEN Idle ELSE req[d]
  BY <1>3 DEF AccountsInv, CallsOK
<1>10. "pc" \in DOMAIN Idle /\ Idle.pc \notin TokenPcs
  BY DEF Idle, TokenPcs
<1>11. CallsOK'
  BY <1>7, <1>9, <1>10 DEF AccountsInv, CallsOK
<1>12. \A d \in Clients : req'[d].pc \in TokenPcs =>
          d # c /\ req'[d] = req[d] /\ req[d].t \in DOMAIN token /\ token'[req[d].t] = token[req[d].t]
  BY <1>7, <1>9, <1>10 DEF AccountsInv, CallsOK
<1>13. \A d \in Clients : Issuing(d)' => d # c /\ Issuing(d) /\ ChainOf(d)' = ChainOf(d)
  BY <1>12 DEF Issuing, ChainOf, TokenPcs
<1>14. Issuing(c) /\ ChainOf(c) = token[t].chain
  BY <1>1, <1>3 DEF Issuing, ChainOf
<1>15. \A u \in DOMAIN token : (Kept(u)' <=> Kept(u)) /\ token'[u].chain = token[u].chain
  BY <1>7 DEF Kept
<1>16. token'[k].chain = token[t].chain
  BY <1>5, <1>7
<1>17. OneHeir'
  <2>1. ASSUME NEW u \in DOMAIN token', NEW v \in DOMAIN token', Kept(u)', Kept(v)',
               token'[u].chain = token'[v].chain, token'[u].chain \notin doubled'
        PROVE  u = v
    <3>1. ASSUME NEW w \in DOMAIN token, Kept(w)', token'[w].chain = token[t].chain
          PROVE  token[t].chain \in doubled
      BY <1>14, <1>15, <3>1 DEF AccountsInv, OneHeir
    <3>2. CASE u = k \/ v = k
      BY <1>3, <1>7, <1>16, <2>1, <3>1, <3>2
    <3>3. CASE u # k /\ v # k
      BY <1>3, <1>7, <1>15, <2>1, <3>3 DEF AccountsInv, OneHeir
    <3> QED
      BY <3>2, <3>3
  <2>2. ASSUME NEW d \in Clients, NEW f \in Clients, Issuing(d)', Issuing(f)',
               ChainOf(d)' = ChainOf(f)', ChainOf(d)' \notin doubled'
        PROVE  d = f
    BY <1>3, <1>13, <2>2 DEF AccountsInv, OneHeir
  <2>3. ASSUME NEW d \in Clients, NEW u \in DOMAIN token', Issuing(d)', Kept(u)',
               ChainOf(d)' = token'[u].chain
        PROVE  token'[u].chain \in doubled'
    <3>1. d # c /\ Issuing(d) /\ ChainOf(d) = token'[u].chain
      BY <1>13, <2>3
    <3>2. CASE u = k
      BY <1>3, <1>14, <1>16, <3>1, <3>2 DEF AccountsInv, OneHeir
    <3>3. CASE u # k
      BY <1>3, <1>7, <1>15, <2>3, <3>1, <3>3 DEF AccountsInv, OneHeir
    <3> QED
      BY <3>2, <3>3
  <2> QED
    BY <2>1, <2>2, <2>3 DEF OneHeir
<1>18. ASSUME NEW chain, Over(chain) PROVE Over(chain)'
  <2>1. token[t].chain # chain
    BY <1>1, <1>3, <1>18 DEF Over
  <2>2. \A u \in DOMAIN token' : token'[u].chain = chain => token'[u].state # "live"
    BY <1>7, <1>16, <1>18, <2>1 DEF Over
  <2>3. \A d \in Clients : req'[d].pc \in {"revoke", "issue"} => token'[req'[d].t].chain # chain
    BY <1>12, <1>18 DEF Over, TokenPcs
  <2> QED
    BY <1>8, <1>18, <2>2, <2>3 DEF Over
<1>19. ChainsOK'
  BY <1>8 DEF AccountsInv, ChainsOK
<1> QED
  BY <1>7, <1>11, <1>17, <1>18, <1>19 DEF AccountsInv, StillOver

(***************************************************************************)
(* The calls about a phone                                                 *)
(***************************************************************************)
LEMMA PhoneCall ==
    ASSUME AccountsInv, NEW c \in Clients, UNCHANGED tokenVars,
           req' = [req EXCEPT ![c] = req'[c]], "pc" \in DOMAIN req'[c], req'[c].pc \notin TokenPcs
    PROVE  AccountsInv' /\ StillOver
<1>1. PICK x : x = req'[c]
  OBVIOUS
<1> QED
  BY <1>1, OtherCall

LEMMA Asked ==
    ASSUME AccountsInv, NEW c \in Clients, NEW r, Goto(c, r)
    PROVE  req' = [req EXCEPT ![c] = req'[c]] /\ req'[c] = r
BY DEF Goto, AccountsInv, CallsOK

LEMMA BeginsKeep ==
    ASSUME AccountsInv, NEW c \in Clients, NEW p, NEW i,
           BeginSendOtp(c, p) \/ BeginVerify(c, p) \/ BeginSignup(c, p, i)
    PROVE  AccountsInv' /\ StillOver
<1>1. UNCHANGED tokenVars
  BY DEF BeginSendOtp, BeginVerify, BeginSignup
<1>2. PICK r : Goto(c, r) /\ "pc" \in DOMAIN r /\ r.pc \in {"store", "compare", "signup"}
  <2>1. CASE BeginSendOtp(c, p)
    <3>1. PICK r : r = [pc |-> "store", p |-> p]
      OBVIOUS
    <3> QED
      BY <2>1, <3>1 DEF BeginSendOtp
  <2>2. CASE BeginVerify(c, p)
    <3>1. PICK k, r : Goto(c, r) /\ r = [pc |-> "compare", p |-> p, i |-> k, copy |-> attempt[p][k]]
      BY <2>2 DEF BeginVerify
    <3> QED
      BY <3>1
  <2>3. CASE BeginSignup(c, p, i)
    <3>1. PICK r : r = [pc |-> "signup", p |-> p, i |-> i]
      OBVIOUS
    <3> QED
      BY <2>3, <3>1 DEF BeginSignup
  <2> QED
    BY <2>1, <2>2, <2>3
<1>3. req' = [req EXCEPT ![c] = req'[c]] /\ req'[c] = r
  BY <1>2, Asked
<1> QED
  BY <1>1, <1>2, <1>3, PhoneCall DEF TokenPcs

LEMMA SendOtpKeeps ==
    ASSUME AccountsInv, NEW c \in Clients,
           StoreOtp(c) \/ CheckLimit(c) \/ FailOpenAttempts(c) \/ InsertAttempt(c)
    PROVE  AccountsInv' /\ StillOver
<1>1. UNCHANGED tokenVars
  BY DEF StoreOtp, CheckLimit, FailOpenAttempts, InsertAttempt
<1>2. CASE Finish(c)
  BY <1>1, <1>2, CallEnds
<1>3. ASSUME NEW pc \in {"limit", "fail", "insert"}, Goto(c, [pc |-> pc, p |-> req[c].p])
      PROVE  AccountsInv' /\ StillOver
  <2>1. PICK r : r = [pc |-> pc, p |-> req[c].p]
    OBVIOUS
  <2>2. Goto(c, r) /\ "pc" \in DOMAIN r /\ r.pc \notin TokenPcs
    BY <1>3, <2>1 DEF TokenPcs
  <2>3. req' = [req EXCEPT ![c] = req'[c]] /\ req'[c] = r
    BY <2>2, Asked
  <2> QED
    BY <1>1, <2>2, <2>3, PhoneCall
<1>4. CASE StoreOtp(c)
  <2>1. Goto(c, [pc |-> "limit", p |-> req[c].p])
    BY <1>4 DEF StoreOtp
  <2> QED
    BY <1>3, <2>1
<1>5. CASE CheckLimit(c)
  <2>1. Finish(c) \/ Goto(c, [pc |-> "fail", p |-> req[c].p])
    BY <1>5 DEF CheckLimit
  <2> QED
    BY <1>2, <1>3, <2>1
<1>6. CASE FailOpenAttempts(c)
  <2>1. Goto(c, [pc |-> "insert", p |-> req[c].p])
    BY <1>6 DEF FailOpenAttempts
  <2> QED
    BY <1>3, <2>1
<1>7. CASE InsertAttempt(c)
  BY <1>2, <1>7 DEF InsertAttempt
<1> QED
  BY <1>4, <1>5, <1>6, <1>7

LEMMA VerifyOtpKeeps ==
    ASSUME AccountsInv, NEW c \in Clients,
           CompareRight(c) \/ CompareWrong(c) \/ MarkVerified(c) \/ OpenSession(c) \/ Strike(c)
    PROVE  AccountsInv' /\ StillOver
<1>1. UNCHANGED tokenVars
  BY DEF CompareRight, CompareWrong, MarkVerified, OpenSession, Strike
<1>2. CASE CompareRight(c)
  <2>1. PICK j, r : /\ Goto(c, r)
                    /\ r = [pc |-> "mark", p |-> req[c].p, i |-> req[c].i, copy |-> req[c].copy, j |-> j]
    BY <1>2 DEF CompareRight
  <2>2. req' = [req EXCEPT ![c] = req'[c]] /\ req'[c] = r
    BY <2>1, Asked
  <2> QED
    BY <1>1, <2>1, <2>2, PhoneCall DEF TokenPcs
<1>3. CASE CompareWrong(c)
  BY <1>1, <1>3, CallGoesOn DEF CompareWrong, TokenPcs
<1>4. CASE MarkVerified(c)
  BY <1>1, <1>4, CallGoesOn DEF MarkVerified, TokenPcs
<1>5. CASE OpenSession(c) \/ Strike(c)
  BY <1>1, <1>5, CallEnds DEF OpenSession, Strike
<1> QED
  BY <1>2, <1>3, <1>4, <1>5

(***************************************************************************)
(* The invariant                                                           *)
(***************************************************************************)
LEMMA AccountsInvInit == Init => AccountsInv
<1> SUFFICES ASSUME Init PROVE AccountsInv
  OBVIOUS
<1>1. token = <<>> /\ token \in Seq({}) /\ DOMAIN token = {}
  BY EmptySeq DEF Init
<1>2. DOMAIN req = Clients /\ \A c \in Clients : req[c] = Idle
  BY DEF Init
<1>3. TokensOK
  BY <1>1 DEF TokensOK
<1>4. CallsOK /\ OneHeir
  BY <1>1, <1>2 DEF CallsOK, OneHeir, Issuing, Idle, TokenPcs
<1>5. Chains = 1..0
  BY <1>1 DEF Chains
<1> QED
  BY <1>3, <1>4, <1>5 DEF AccountsInv, ChainsOK

LEMMA AccountsStep ==
    ASSUME AccountsInv, [Next]_vars
    PROVE  AccountsInv' /\ StillOver
<1> DEFINE Goal == AccountsInv' /\ StillOver
<1>1. ASSUME NEW c \in Clients, NEW p \in Phones, BeginSendOtp(c, p) \/ BeginVerify(c, p) PROVE Goal
  BY <1>1, BeginsKeep
<1>2. ASSUME NEW c \in Clients, NEW s \in session, BeginSignup(c, s[1], s[2]) PROVE Goal
  BY <1>2, BeginsKeep
<1>3. ASSUME NEW c \in Clients,
             StoreOtp(c) \/ CheckLimit(c) \/ FailOpenAttempts(c) \/ InsertAttempt(c)
      PROVE  Goal
  BY <1>3, SendOtpKeeps
<1>4. ASSUME NEW c \in Clients,
             CompareRight(c) \/ CompareWrong(c) \/ MarkVerified(c) \/ OpenSession(c) \/ Strike(c)
      PROVE  Goal
  BY <1>4, VerifyOtpKeeps
<1>5. ASSUME NEW c \in Clients, CommitSignup(c) PROVE Goal
  BY <1>5, ChainStarts DEF CommitSignup
<1>6. ASSUME NEW p \in Phones, Login(p) \/ LoginWithGoogle(p) PROVE Goal
  BY <1>6, ChainStarts DEF Login, LoginWithGoogle
<1>7. ASSUME NEW c \in Clients, NEW t \in DOMAIN token, BeginRefresh(c, t) \/ BeginLogout(c, t)
      PROVE  Goal
  BY <1>7, CallReadsToken
<1>8. ASSUME NEW c \in Clients, RevokeToken(c) PROVE Goal
  BY <1>8, RevokeTokenKeeps
<1>9. ASSUME NEW c \in Clients, IssueToken(c) PROVE Goal
  BY <1>9, IssueTokenKeeps
<1>10. ASSUME NEW c \in Clients, CommitLogout(c) PROVE Goal
  <2>1. req[c].t \in DOMAIN token
    BY <1>10 DEF CommitLogout, At, AccountsInv, CallsOK, TokenPcs
  <2>2. PICK t \in DOMAIN token : t = req[c].t
    BY <2>1
  <2>3. PICK s : s = "revoked"
    OBVIOUS
  <2>4. token' = [token EXCEPT ![t].state = s] /\ doubled' = doubled /\ Finish(c)
    BY <1>10, <2>2, <2>3 DEF CommitLogout
  <2> QED
    BY <2>3, <2>4, TokenEnds
<1>11. ASSUME NEW t \in DOMAIN token, TokenExpires(t) PROVE Goal
  <2>1. PICK s : s = "expired"
    OBVIOUS
  <2>2. /\ token' = [token EXCEPT ![t].state = s] /\ doubled' = doubled /\ req' = req
        /\ token[t].state = "live"
    BY <1>11, <2>1 DEF TokenExpires
  <2> QED
    BY <2>1, <2>2, TokenEnds
<1>12. ASSUME NEW c \in Clients, CutShort(c) PROVE Goal
  BY <1>12, CallEnds DEF CutShort
<1>13. ASSUME NEW p \in Phones, AttemptAges(p) PROVE Goal
  BY <1>13, NothingWritten DEF AttemptAges
<1>14. ASSUME NEW p \in Phones, NEW j \in DOMAIN otp[p], OtpExpires(p, j) PROVE Goal
  BY <1>14, NothingWritten DEF OtpExpires
<1>15. CASE UNCHANGED vars
  BY <1>15, NothingWritten DEF vars
<1> HIDE DEF Goal
<1>16. ASSUME NEW c \in Clients,
              \/ StoreOtp(c) \/ CheckLimit(c) \/ FailOpenAttempts(c) \/ InsertAttempt(c)
              \/ CompareRight(c) \/ CompareWrong(c) \/ MarkVerified(c) \/ OpenSession(c) \/ Strike(c)
              \/ CommitSignup(c) \/ RevokeToken(c) \/ IssueToken(c) \/ CommitLogout(c)
              \/ CutShort(c)
       PROVE  Goal
  BY <1>3, <1>4, <1>5, <1>8, <1>9, <1>10, <1>12, <1>16
<1>17. ASSUME Next PROVE Goal
  <2>1. CASE \E c \in Clients, p \in Phones : BeginSendOtp(c, p) \/ BeginVerify(c, p)
    BY <1>1, <2>1
  <2>2. CASE \E c \in Clients, s \in session : BeginSignup(c, s[1], s[2])
    BY <1>2, <2>2
  <2>3. CASE \E p \in Phones : Login(p) \/ LoginWithGoogle(p)
    BY <1>6, <2>3
  <2>4. CASE \E c \in Clients, t \in DOMAIN token : BeginRefresh(c, t) \/ BeginLogout(c, t)
    BY <1>7, <2>4
  <2>5. CASE \E p \in Phones : \E j \in DOMAIN otp[p] : OtpExpires(p, j)
    BY <1>14, <2>5
  <2>6. CASE \E p \in Phones : AttemptAges(p)
    BY <1>13, <2>6
  <2>7. CASE \E t \in DOMAIN token : TokenExpires(t)
    BY <1>11, <2>7
  <2> QED
    BY <1>16, <1>17, <2>1, <2>2, <2>3, <2>4, <2>5, <2>6, <2>7 DEF Next
<1> QED
  BY <1>15, <1>17 DEF Goal

LEMMA AccountsInvariant == Spec => []AccountsInv
<1>1. AccountsInv /\ [Next]_vars => AccountsInv'
  BY AccountsStep
<1> QED
  BY <1>1, AccountsInvInit, PTL DEF Spec

\* One usable token, or one refresh about to issue one, for every login whose
\* revoked tokens were never rotated, whatever calls run beside each other.
THEOREM LinearRotation == Spec => []RotationIsLinear
<1>1. ASSUME AccountsInv PROVE RotationIsLinear
  <2>1. SUFFICES ASSUME NEW chain \in Chains, chain \notin doubled,
                        NEW h \in Holders(chain), NEW k \in Holders(chain)
                 PROVE  h = k
    BY DEF RotationIsLinear
  <2>2. \A x \in Holders(chain) :
           \/ \E t \in DOMAIN token : Kept(t) /\ token[t].chain = chain /\ x = <<"token", t>>
           \/ \E c \in Clients : Issuing(c) /\ ChainOf(c) = chain /\ x = <<"call", c>>
    BY DEF Holders, Kept, Issuing, ChainOf
  <2>3. CASE \E t \in DOMAIN token : Kept(t) /\ token[t].chain = chain /\ h = <<"token", t>>
    BY <1>1, <2>1, <2>2, <2>3 DEF AccountsInv, OneHeir
  <2>4. CASE \E c \in Clients : Issuing(c) /\ ChainOf(c) = chain /\ h = <<"call", c>>
    BY <1>1, <2>1, <2>2, <2>4 DEF AccountsInv, OneHeir
  <2> QED
    BY <2>2, <2>3, <2>4
<1> QED
  BY <1>1, AccountsInvariant, PTL

\* Once every token of a login is revoked or expired and no refresh of it is on
\* its way, no call of anybody gives that login a usable token again.
THEOREM LogoutIsFinal == Spec => LoggedOutStaysOut
<1>1. AccountsInv /\ [Next]_vars => [\A chain \in Chains : Over(chain) => Over(chain)']_vars
  BY AccountsStep DEF StillOver
<1> QED
  BY <1>1, AccountsInvariant, PTL DEF Spec, LoggedOutStaysOut

(***************************************************************************)
(* One-time passwords: the tables of a phone and the calls about it        *)
(***************************************************************************)
\* The smallest and the greatest of a set of numbers, which Min and Max choose.
LEMMA Least ==
    ASSUME NEW S, S \subseteq Nat, S # {}
    PROVE  Min(S) \in S /\ \A y \in S : Min(S) <= y
<1>1. \E x \in S : \A y \in S : ~(<<y, x>> \in OpToRel(<, Nat))
  BY NatLessThanWellFounded, WFMin
<1>2. PICK x \in S : \A y \in S : ~(y < x)
  BY <1>1 DEF OpToRel
<1>3. \A y \in S : x <= y
  BY <1>2
<1>4. QED
  BY <1>3 DEF Min

LEMMA Greatest ==
    ASSUME NEW n \in Nat, NEW S, S \subseteq 1..n, S # {}
    PROVE  Max(S) \in S /\ \A y \in S : Max(S) >= y
<1>1. PICK T : T = {n - k : k \in S}
  OBVIOUS
<1>2. T \subseteq Nat /\ T # {}
  <2>1. \A k \in S : n - k \in Nat
    OBVIOUS
  <2>2. QED
    BY <1>1, <2>1
<1>3. PICK m \in T : \A y \in T : m <= y
  BY <1>2, Least
<1>4. PICK x \in S : m = n - x
  BY <1>1, <1>3
<1>5. ASSUME NEW y \in S PROVE x >= y
  <2>1. n - x <= n - y
    BY <1>1, <1>3, <1>4
  <2>2. QED
    BY <2>1
<1>6. QED
  BY <1>5 DEF Max

LEMMA LatestIsOne ==
    ASSUME NEW T, NEW s \in Seq(T), NEW S, S \subseteq DOMAIN s, Latest(S) # 0
    PROVE  Latest(S) \in S
<1>1. Len(s) \in Nat /\ DOMAIN s = 1..Len(s)
  BY LenProperties
<1>2. S # {} /\ Latest(S) = Max(S)
  BY DEF Latest
<1>3. QED
  BY <1>1, <1>2, Greatest

\* Three ways to write a table: a row more, one row changed, every row changed.
LEMMA RowAdded ==
    ASSUME NEW T, NEW s \in Seq(T), NEW e \in T
    PROVE  /\ Append(s, e) \in Seq(T)
           /\ Len(Append(s, e)) = Len(s) + 1 /\ Len(s) + 1 \notin DOMAIN s
           /\ DOMAIN Append(s, e) = DOMAIN s \union {Len(s) + 1}
           /\ Append(s, e)[Len(s) + 1] = e
           /\ \A i \in DOMAIN s : Append(s, e)[i] = s[i]
<1>1. Len(s) \in Nat /\ DOMAIN s = 1..Len(s)
  BY LenProperties
<1>2. /\ Append(s, e) \in Seq(T) /\ Len(Append(s, e)) = Len(s) + 1
      /\ \A i \in 1..Len(s) : Append(s, e)[i] = s[i]
      /\ Append(s, e)[Len(s) + 1] = e
  BY AppendProperties
<1>3. DOMAIN Append(s, e) = 1..(Len(s) + 1)
  BY <1>2, LenProperties
<1>4. QED
  BY <1>1, <1>2, <1>3

LEMMA RowChanged ==
    ASSUME NEW T, NEW s \in Seq(T), NEW k \in DOMAIN s, NEW e \in T
    PROVE  [s EXCEPT ![k] = e] \in Seq(T) /\ Len([s EXCEPT ![k] = e]) = Len(s)
<1>1. k \in 1..Len(s)
  BY LenProperties
<1>2. QED
  BY <1>1, ExceptSeq

LEMMA RowsChanged ==
    ASSUME NEW T, NEW s \in Seq(T), NEW r \in [DOMAIN s -> T]
    PROVE  r \in Seq(T) /\ Len(r) = Len(s)
<1>1. Len(s) \in Nat /\ DOMAIN s = 1..Len(s)
  BY LenProperties
<1>2. r \in Seq(T)
  BY <1>1, SeqDef
<1>3. Len(r) \in Nat /\ DOMAIN r = 1..Len(r)
  BY <1>2, LenProperties
<1>4. 1..Len(r) = 1..Len(s)
  BY <1>1, <1>3
<1>5. QED
  BY <1>1, <1>3, <1>4

VerifyPcs == {"compare", "mark", "verified", "strike"}
SendPcs == {"store", "limit", "fail", "insert"}

Call ==
    {Idle}
    \union [pc: SendPcs, p: Phones]
    \union [pc: {"compare", "strike"}, p: Phones, i: Nat, copy: AttemptRow]
    \union [pc: {"mark", "verified"}, p: Phones, i: Nat, copy: AttemptRow, j: Nat]
    \union [pc: {"signup"}, p: Phones, i: Nat]
    \union [pc: TokenPcs, t: Nat]

\* What the record of a call names is there.
Names(x) ==
    /\ x.pc \in VerifyPcs => x.i \in DOMAIN attempt[x.p]
    /\ x.pc \in {"mark", "verified"} => x.j \in DOMAIN otp[x.p]
    /\ x.pc = "signup" => <<x.p, x.i>> \in session

TablesTyped ==
    /\ otp \in [Phones -> Seq(OtpRow)] /\ opened \in [Phones -> Seq(Nat)]
    /\ attempt \in [Phones -> Seq(AttemptRow)] /\ guesses \in [Phones -> Seq(Nat)]
    /\ \A p \in Phones : Len(opened[p]) = Len(otp[p]) /\ Len(guesses[p]) = Len(attempt[p])
    /\ \A p, i : <<p, i>> \in session => p \in Phones /\ i \in DOMAIN attempt[p]

CallsTyped == req \in [Clients -> Call] /\ \A c \in Clients : Names(req[c])

PhoneTypes == TablesTyped /\ CallsTyped

LEMMA CallMembers ==
    ASSUME NEW x \in Call
    PROVE  /\ x.pc \in {"idle", "signup"} \union SendPcs \union VerifyPcs \union TokenPcs
           /\ x.pc \in SendPcs => x.p \in Phones
           /\ x.pc \in VerifyPcs => x.p \in Phones /\ x.i \in Nat /\ x.copy \in AttemptRow
           /\ x.pc \in {"mark", "verified"} =>
                 x \in [pc: {"mark", "verified"}, p: Phones, i: Nat, copy: AttemptRow, j: Nat]
           /\ x.pc \in {"compare", "strike"} =>
                 x \in [pc: {"compare", "strike"}, p: Phones, i: Nat, copy: AttemptRow]
           /\ x.pc = "signup" => x.p \in Phones /\ x.i \in Nat
           /\ x.pc \in TokenPcs => x \in [pc: TokenPcs, t: Nat]
  BY DEF Call, Idle, SendPcs, VerifyPcs, TokenPcs

\* The rows of a phone's tables, and how many there are.
LEMMA PhoneRows ==
    ASSUME TablesTyped, NEW p \in Phones
    PROVE  /\ otp[p] \in Seq(OtpRow) /\ opened[p] \in Seq(Nat)
           /\ attempt[p] \in Seq(AttemptRow) /\ guesses[p] \in Seq(Nat)
           /\ DOMAIN opened[p] = DOMAIN otp[p] /\ DOMAIN guesses[p] = DOMAIN attempt[p]
           /\ \A j \in DOMAIN otp[p] : j \in Nat /\ otp[p][j] \in OtpRow /\ opened[p][j] \in Nat
           /\ \A i \in DOMAIN attempt[p] :
                 i \in Nat /\ attempt[p][i] \in AttemptRow /\ guesses[p][i] \in Nat
<1>1. /\ otp[p] \in Seq(OtpRow) /\ opened[p] \in Seq(Nat)
      /\ attempt[p] \in Seq(AttemptRow) /\ guesses[p] \in Seq(Nat)
      /\ Len(opened[p]) = Len(otp[p]) /\ Len(guesses[p]) = Len(attempt[p])
  BY DEF TablesTyped
<1>2. DOMAIN opened[p] = 1..Len(opened[p]) /\ DOMAIN otp[p] = 1..Len(otp[p])
  BY <1>1, LenProperties
<1>3. DOMAIN guesses[p] = 1..Len(guesses[p]) /\ DOMAIN attempt[p] = 1..Len(attempt[p])
  BY <1>1, LenProperties
<1>4. \A j \in 1..Len(otp[p]) : otp[p][j] \in OtpRow
  BY <1>1, ElementOfSeq
<1>5. \A j \in 1..Len(opened[p]) : opened[p][j] \in Nat
  BY <1>1, ElementOfSeq
<1>6. \A i \in 1..Len(attempt[p]) : attempt[p][i] \in AttemptRow
  BY <1>1, ElementOfSeq
<1>7. \A i \in 1..Len(guesses[p]) : guesses[p][i] \in Nat
  BY <1>1, ElementOfSeq
<1>8. QED
  BY <1>1, <1>2, <1>3, <1>4, <1>5, <1>6, <1>7

LEMMA CellWritten ==
    ASSUME NEW T, NEW tab \in [Phones -> Seq(T)], NEW p \in Phones, NEW k \in DOMAIN tab[p],
           NEW e \in T, NEW new, new = [tab EXCEPT ![p][k] = e]
    PROVE  /\ new \in [Phones -> Seq(T)] /\ new[p][k] = e
           /\ \A q \in Phones : Len(new[q]) = Len(tab[q]) /\ DOMAIN new[q] = DOMAIN tab[q]
           /\ \A q \in Phones : \A i \in DOMAIN tab[q] : q # p \/ i # k => new[q][i] = tab[q][i]
           /\ \A q \in Phones : q # p => new[q] = tab[q]
<1>1. PICK r : r = [tab[p] EXCEPT ![k] = e]
  OBVIOUS
<1>2. r \in Seq(T) /\ Len(r) = Len(tab[p])
  BY <1>1, RowChanged
<1>3. DOMAIN r = DOMAIN tab[p] /\ r[k] = e /\ \A i \in DOMAIN tab[p] : i # k => r[i] = tab[p][i]
  BY <1>1
<1>4. new = [tab EXCEPT ![p] = r]
  BY <1>1
<1>5. QED
  BY <1>2, <1>3, <1>4

LEMMA RowInserted ==
    ASSUME NEW T, NEW tab \in [Phones -> Seq(T)], NEW p \in Phones,
           NEW e \in T, NEW new, new = [tab EXCEPT ![p] = Append(@, e)]
    PROVE  /\ new \in [Phones -> Seq(T)]
           /\ Len(new[p]) = Len(tab[p]) + 1 /\ new[p][Len(tab[p]) + 1] = e
           /\ DOMAIN new[p] = DOMAIN tab[p] \union {Len(tab[p]) + 1}
           /\ Len(tab[p]) + 1 \notin DOMAIN tab[p]
           /\ \A i \in DOMAIN tab[p] : new[p][i] = tab[p][i]
           /\ \A q \in Phones : q # p => new[q] = tab[q]
<1>1. PICK s : s = tab[p]
  OBVIOUS
<1>2. s \in Seq(T) /\ new = [tab EXCEPT ![p] = Append(s, e)]
  BY <1>1
<1>3. /\ Append(s, e) \in Seq(T)
      /\ Len(Append(s, e)) = Len(s) + 1 /\ Len(s) + 1 \notin DOMAIN s
      /\ DOMAIN Append(s, e) = DOMAIN s \union {Len(s) + 1}
      /\ Append(s, e)[Len(s) + 1] = e
      /\ \A i \in DOMAIN s : Append(s, e)[i] = s[i]
  BY <1>2, RowAdded
<1>4. PICK r : r = Append(s, e)
  OBVIOUS
<1>5. QED
  BY <1>1, <1>2, <1>3, <1>4

LEMMA ColumnWritten ==
    ASSUME NEW T, NEW tab \in [Phones -> Seq(T)], NEW p \in Phones,
           NEW r \in [DOMAIN tab[p] -> T], NEW new, new = [tab EXCEPT ![p] = r]
    PROVE  /\ new \in [Phones -> Seq(T)] /\ new[p] = r
           /\ \A q \in Phones : Len(new[q]) = Len(tab[q]) /\ DOMAIN new[q] = DOMAIN tab[q]
           /\ \A q \in Phones : q # p => new[q] = tab[q]
<1>1. r \in Seq(T) /\ Len(r) = Len(tab[p])
  BY RowsChanged
<1>2. QED
  BY <1>1

RowsKept ==
    /\ \A p \in Phones : DOMAIN attempt[p] \subseteq DOMAIN attempt'[p]
    /\ \A p \in Phones : DOMAIN otp[p] \subseteq DOMAIN otp'[p]
    /\ session \subseteq session'

LEMMA CallMoved ==
    ASSUME CallsTyped, NEW c \in Clients, NEW x \in Call, Goto(c, x)
    PROVE  /\ req' \in [Clients -> Call] /\ req'[c] = x
           /\ \A d \in Clients : d # c => req'[d] = req[d]
  BY DEF CallsTyped, Goto

LEMMA TypesKept ==
    ASSUME PhoneTypes, TablesTyped', RowsKept,
           \/ UNCHANGED req
           \/ \E c \in Clients, x \in Call : Goto(c, x) /\ Names(x)'
    PROVE  PhoneTypes'
<1>1. ASSUME NEW x \in Call, Names(x) PROVE Names(x)'
  <2>1. x.pc \in VerifyPcs \union {"mark", "verified"} => x.p \in Phones
    BY CallMembers DEF VerifyPcs
  <2>2. QED
    BY <1>1, <2>1 DEF Names, RowsKept
<1>2. CASE UNCHANGED req
  BY <1>1, <1>2 DEF PhoneTypes, CallsTyped, Names
<1>3. ASSUME NEW c \in Clients, NEW x \in Call, Goto(c, x), Names(x)' PROVE PhoneTypes'
  <2>1. /\ req' \in [Clients -> Call] /\ req'[c] = x
        /\ \A d \in Clients : d # c => req'[d] = req[d]
    BY <1>3, CallMoved DEF PhoneTypes
  <2>2. ASSUME NEW d \in Clients PROVE Names(req[d])' 
    <3>1. CASE d = c
      BY <1>3, <2>1, <3>1 DEF Names
    <3>2. CASE d # c
      <4>1. PICK y \in Call : y = req[d] /\ y = req'[d] /\ Names(y)
        BY <2>1, <3>2 DEF PhoneTypes, CallsTyped
      <4>2. Names(y)'
        BY <1>1, <4>1
      <4>3. QED
        BY <4>1, <4>2 DEF Names
    <3>3. QED
      BY <3>1, <3>2
  <2>3. QED
    BY <2>1, <2>2 DEF PhoneTypes, CallsTyped
<1>4. QED
  BY <1>2, <1>3

LEMMA TablesSame ==
    ASSUME TablesTyped, UNCHANGED <<otp, attempt, session, guesses, opened>>
    PROVE  TablesTyped' /\ RowsKept
  BY DEF TablesTyped, RowsKept

\* Steps that leave the tables of the phones alone.
LEMMA QuietTypes ==
    ASSUME PhoneTypes, UNCHANGED <<otp, attempt, session, guesses, opened>>,
           \/ UNCHANGED req
           \/ \E c \in Clients, x \in Call : Goto(c, x) /\ Names(x)
    PROVE  PhoneTypes'
<1>1. TablesTyped' /\ RowsKept
  BY TablesSame DEF PhoneTypes
<1>2. \A x : Names(x) => Names(x)'
  BY DEF Names
<1>3. QED
  BY <1>1, <1>2, TypesKept

LEMMA IdleNames == Idle \in Call /\ Idle.pc = "idle" /\ Names(Idle)
  BY DEF Idle, Call, Names, VerifyPcs

\* The same about the record in the next state.
LEMMA IdleNamesThen == Names(Idle)'
  BY DEF Idle, Names, VerifyPcs

LEMMA LesserOf ==
    ASSUME NEW a \in Nat, NEW b \in Nat
    PROVE  Min({a, b}) \in Nat /\ Min({a, b}) <= a /\ Min({a, b}) <= b
<1>1. Min({a, b}) \in {a, b} /\ \A y \in {a, b} : Min({a, b}) <= y
  BY Least
<1>2. QED
  BY <1>1

\* What becomes of the row of an attempt.
LEMMA FailedRow ==
    ASSUME NEW a \in AttemptRow, NEW e, e = [a EXCEPT !.stage = "failed", !.strikes = 0]
    PROVE  e \in AttemptRow /\ e.stage = "failed" /\ e.strikes = 0 /\ e.recent = a.recent
<1>1. 0 \in 0..MaxStrikes
  BY AccountsAssumption
<1>2. PICK f : f = [a EXCEPT !.stage = "failed"]
  OBVIOUS
<1>3. f \in AttemptRow /\ f.stage = "failed" /\ f.recent = a.recent
  BY <1>2 DEF AttemptRow
<1>4. e = [f EXCEPT !.strikes = 0]
  BY <1>2
<1>5. QED
  BY <1>1, <1>3, <1>4 DEF AttemptRow

LEMMA StruckRow ==
    ASSUME NEW a \in AttemptRow, NEW n \in 0..MaxStrikes, NEW e, e = [a EXCEPT !.strikes = n]
    PROVE  e \in AttemptRow /\ e.stage = a.stage /\ e.strikes = n /\ e.recent = a.recent
  BY DEF AttemptRow

LEMMA CallAt ==
    ASSUME PhoneTypes, NEW c \in Clients
    PROVE  req[c] \in Call /\ Names(req[c])
  BY DEF PhoneTypes, CallsTyped

LEMMA TypesAfterSend ==
    ASSUME PhoneTypes, NEW c \in Clients,
           \/ \E p \in Phones : BeginSendOtp(c, p)
           \/ StoreOtp(c) \/ CheckLimit(c) \/ FailOpenAttempts(c) \/ InsertAttempt(c)
    PROVE  PhoneTypes'
<1>0. TablesTyped
  BY DEF PhoneTypes
<1>1. ASSUME NEW p \in Phones, NEW pc \in SendPcs
      PROVE  [pc |-> pc, p |-> p] \in Call /\ Names([pc |-> pc, p |-> p])'
  <2>1. PICK x : x = [pc |-> pc, p |-> p]
    OBVIOUS
  <2>2. x \in [pc: SendPcs, p: Phones]
    BY <2>1
  <2>3. x \in Call /\ x.pc = pc
    BY <2>1, <2>2 DEF Call
  <2>4. Names(x)'
    BY <2>3 DEF Names, SendPcs, VerifyPcs
  <2>5. QED
    BY <2>1, <2>3, <2>4
<1>2. ASSUME NEW p \in Phones, BeginSendOtp(c, p) PROVE PhoneTypes'
  <2>1. PICK r : r = [j \in DOMAIN otp[p] |->
                        IF otp[p][j].verified THEN otp[p][j] ELSE [otp[p][j] EXCEPT !.live = FALSE]]
    OBVIOUS
  <2>2. \A j \in DOMAIN otp[p] : otp[p][j] \in OtpRow
    BY <1>0, PhoneRows
  <2>3. r \in [DOMAIN otp[p] -> OtpRow]
    BY <2>1, <2>2 DEF OtpRow
  <2>4. otp' = [otp EXCEPT ![p] = r] /\ UNCHANGED <<attempt, session, guesses, opened>>
    BY <1>2, <2>1 DEF BeginSendOtp, ExpireOtps
  <2>5. /\ otp' \in [Phones -> Seq(OtpRow)]
        /\ \A q \in Phones : Len(otp'[q]) = Len(otp[q]) /\ DOMAIN otp'[q] = DOMAIN otp[q]
    BY <1>0, <2>3, <2>4, ColumnWritten DEF TablesTyped
  <2>6. TablesTyped' /\ RowsKept
    BY <1>0, <2>4, <2>5 DEF TablesTyped, RowsKept
  <2>7. "store" \in SendPcs /\ Goto(c, [pc |-> "store", p |-> p])
    BY <1>2 DEF BeginSendOtp, SendPcs
  <2>8. QED
    BY <1>1, <2>6, <2>7, TypesKept
<1>3. ASSUME req[c].pc \in SendPcs PROVE req[c].p \in Phones
  BY <1>3, CallAt, CallMembers
<1>4. CASE StoreOtp(c)
  <2>0. PICK e : e = [live |-> TRUE, verified |-> FALSE]
    OBVIOUS
  <2>1. PICK p \in Phones : p = req[c].p
    BY <1>3, <1>4 DEF StoreOtp, At, SendPcs
  <2>2. /\ otp' = [otp EXCEPT ![p] = Append(@, e)] /\ opened' = [opened EXCEPT ![p] = Append(@, 0)]
        /\ UNCHANGED <<attempt, session, guesses>> /\ Goto(c, [pc |-> "limit", p |-> p])
    BY <1>4, <2>0, <2>1 DEF StoreOtp
  <2>3. e \in OtpRow
    BY <2>0, <2>1 DEF OtpRow
  <2>4. /\ otp' \in [Phones -> Seq(OtpRow)] /\ Len(otp'[p]) = Len(otp[p]) + 1
        /\ DOMAIN otp'[p] = DOMAIN otp[p] \union {Len(otp[p]) + 1}
        /\ \A q \in Phones : q # p => otp'[q] = otp[q]
    BY <1>0, <2>2, <2>3, RowInserted DEF TablesTyped
  <2>5. /\ opened' \in [Phones -> Seq(Nat)] /\ Len(opened'[p]) = Len(opened[p]) + 1
        /\ \A q \in Phones : q # p => opened'[q] = opened[q]
    BY <1>0, <2>2, RowInserted DEF TablesTyped
  <2>6. TablesTyped' /\ RowsKept
    BY <1>0, <2>2, <2>4, <2>5 DEF TablesTyped, RowsKept
  <2>7. QED
    BY <1>1, <2>2, <2>6, TypesKept DEF SendPcs
<1>5. CASE CheckLimit(c)
  <2>1. PICK p \in Phones : p = req[c].p
    BY <1>3, <1>5 DEF CheckLimit, At, SendPcs
  <2>2. UNCHANGED <<otp, attempt, session, guesses, opened>>
        /\ (Goto(c, Idle) \/ Goto(c, [pc |-> "fail", p |-> p]))
    BY <1>5, <2>1 DEF CheckLimit, otpVars, Finish
  <2>3. TablesTyped' /\ RowsKept
    BY <1>0, <2>2, TablesSame
  <2>4. QED
    BY <1>1, <2>2, <2>3, TypesKept, IdleNames, IdleNamesThen DEF SendPcs
<1>6. CASE FailOpenAttempts(c)
  <2>1. PICK p \in Phones : p = req[c].p
    BY <1>3, <1>6 DEF FailOpenAttempts, At, SendPcs
  <2>2. PICK r : r = [i \in DOMAIN attempt[p] |->
                        IF attempt[p][i].stage = "otp_sent"
                        THEN [attempt[p][i] EXCEPT !.stage = "failed", !.strikes = 0]
                        ELSE attempt[p][i]]
    OBVIOUS
  <2>3. \A i \in DOMAIN attempt[p] : attempt[p][i] \in AttemptRow
    BY <1>0, PhoneRows
  <2>4. r \in [DOMAIN attempt[p] -> AttemptRow]
    <3>1. ASSUME NEW i \in DOMAIN attempt[p] PROVE r[i] \in AttemptRow
      <4>1. PICK e : e = [attempt[p][i] EXCEPT !.stage = "failed", !.strikes = 0]
        OBVIOUS
      <4>2. e \in AttemptRow
        BY <2>3, <4>1, FailedRow
      <4>3. QED
        BY <2>2, <2>3, <4>1, <4>2
    <3>2. QED
      BY <2>2, <3>1
  <2>5. /\ attempt' = [attempt EXCEPT ![p] = r]
        /\ UNCHANGED <<otp, session, guesses, opened>> /\ Goto(c, [pc |-> "insert", p |-> p])
    BY <1>6, <2>1, <2>2 DEF FailOpenAttempts
  <2>6. /\ attempt' \in [Phones -> Seq(AttemptRow)]
        /\ \A q \in Phones : Len(attempt'[q]) = Len(attempt[q]) /\ DOMAIN attempt'[q] = DOMAIN attempt[q]
    BY <1>0, <2>4, <2>5, ColumnWritten DEF TablesTyped
  <2>7. TablesTyped' /\ RowsKept
    BY <1>0, <2>5, <2>6 DEF TablesTyped, RowsKept
  <2>8. QED
    BY <1>1, <2>5, <2>7, TypesKept DEF SendPcs
<1>7. CASE InsertAttempt(c)
  <2>0. PICK e : e = [stage |-> "otp_sent", strikes |-> 0, recent |-> TRUE]
    OBVIOUS
  <2>1. PICK p \in Phones : p = req[c].p
    BY <1>3, <1>7 DEF InsertAttempt, At, SendPcs
  <2>2. /\ attempt' = [attempt EXCEPT ![p] = Append(@, e)]
        /\ guesses' = [guesses EXCEPT ![p] = Append(@, 0)]
        /\ UNCHANGED <<otp, session, opened>> /\ Goto(c, Idle)
    BY <1>7, <2>0, <2>1 DEF InsertAttempt, Finish
  <2>3. e \in AttemptRow
    BY <2>0, <2>1, AccountsAssumption DEF AttemptRow
  <2>4. /\ attempt' \in [Phones -> Seq(AttemptRow)] /\ Len(attempt'[p]) = Len(attempt[p]) + 1
        /\ DOMAIN attempt'[p] = DOMAIN attempt[p] \union {Len(attempt[p]) + 1}
        /\ \A q \in Phones : q # p => attempt'[q] = attempt[q]
    BY <1>0, <2>2, <2>3, RowInserted DEF TablesTyped
  <2>5. /\ guesses' \in [Phones -> Seq(Nat)] /\ Len(guesses'[p]) = Len(guesses[p]) + 1
        /\ \A q \in Phones : q # p => guesses'[q] = guesses[q]
    BY <1>0, <2>2, RowInserted DEF TablesTyped
  <2>6. TablesTyped' /\ RowsKept
    BY <1>0, <2>2, <2>4, <2>5 DEF TablesTyped, RowsKept
  <2>7. QED
    BY <2>2, <2>6, TypesKept, IdleNames, IdleNamesThen
<1>8. QED
  BY <1>2, <1>4, <1>5, <1>6, <1>7

\* A call that verifies a code: what it holds is typed and goes on being there.
LEMMA Verifying ==
    ASSUME PhoneTypes, NEW c \in Clients, req[c].pc \in VerifyPcs
    PROVE  /\ req[c] \in Call /\ req[c].p \in Phones /\ req[c].copy \in AttemptRow
           /\ req[c].i \in DOMAIN attempt[req[c].p]
           /\ req[c].pc \in {"mark", "verified"} => req[c].j \in DOMAIN otp[req[c].p]
  BY CallAt, CallMembers DEF Names

LEMMA TypesAfterVerify ==
    ASSUME PhoneTypes, NEW c \in Clients,
           \/ \E p \in Phones : BeginVerify(c, p)
           \/ CompareRight(c) \/ CompareWrong(c) \/ MarkVerified(c) \/ OpenSession(c) \/ Strike(c)
    PROVE  PhoneTypes'
<1>0. TablesTyped
  BY DEF PhoneTypes
<1>1. ASSUME NEW p \in Phones, BeginVerify(c, p) PROVE PhoneTypes'
  <2>1. PICK i : /\ i = Latest({k \in DOMAIN attempt[p] : attempt[p][k].stage = "otp_sent"})
                 /\ i # 0
                 /\ Goto(c, [pc |-> "compare", p |-> p, i |-> i, copy |-> attempt[p][i]])
    BY <1>1 DEF BeginVerify
  <2>2. i \in DOMAIN attempt[p]
    BY <1>0, <2>1, PhoneRows, LatestIsOne
  <2>3. i \in Nat /\ attempt[p][i] \in AttemptRow
    BY <1>0, <2>2, PhoneRows
  <2>4. PICK x : x = [pc |-> "compare", p |-> p, i |-> i, copy |-> attempt[p][i]]
    OBVIOUS
  <2>5. x \in Call /\ x.pc = "compare" /\ x.p = p /\ x.i = i
    BY <2>3, <2>4 DEF Call
  <2>6. Names(x)
    BY <2>2, <2>5 DEF Names
  <2>7. UNCHANGED <<otp, attempt, session, guesses, opened>>
    BY <1>1 DEF BeginVerify
  <2>8. QED
    BY <2>1, <2>4, <2>5, <2>6, <2>7, QuietTypes
<1>2. CASE CompareRight(c)
  <2>1. PICK r, j, x : /\ r = req[c] /\ j = UsableOtp(r.p) /\ j # 0 /\ r.pc = "compare"
                       /\ x = [pc |-> "mark", p |-> r.p, i |-> r.i, copy |-> r.copy, j |-> j]
                       /\ Goto(c, x)
    BY <1>2 DEF CompareRight, At
  <2>2. r.p \in Phones /\ r.copy \in AttemptRow /\ r.i \in DOMAIN attempt[r.p]
    BY <2>1, Verifying DEF VerifyPcs
  <2>3. j \in DOMAIN otp[r.p]
    BY <1>0, <2>1, <2>2, PhoneRows, LatestIsOne DEF UsableOtp
  <2>4. r.i \in Nat /\ j \in Nat
    BY <1>0, <2>2, <2>3, PhoneRows
  <2>5. x \in Call /\ x.pc = "mark" /\ x.p = r.p /\ x.i = r.i /\ x.j = j
    BY <2>1, <2>2, <2>4 DEF Call
  <2>6. Names(x)
    BY <2>2, <2>3, <2>5 DEF Names
  <2>7. UNCHANGED <<otp, attempt, session, guesses, opened>>
    BY <1>2 DEF CompareRight, otpVars
  <2>8. QED
    BY <2>1, <2>5, <2>6, <2>7, QuietTypes
<1>3. CASE CompareWrong(c)
  <2>1. PICK r, x : r = req[c] /\ r.pc = "compare" /\ x = [r EXCEPT !.pc = "strike"] /\ Goto(c, x)
    BY <1>3 DEF CompareWrong, At
  <2>2. r.p \in Phones /\ r.i \in DOMAIN attempt[r.p]
        /\ r \in [pc: {"compare", "strike"}, p: Phones, i: Nat, copy: AttemptRow]
    BY <2>1, Verifying, CallMembers DEF VerifyPcs
  <2>3. x \in [pc: {"compare", "strike"}, p: Phones, i: Nat, copy: AttemptRow]
        /\ x.pc = "strike" /\ x.p = r.p /\ x.i = r.i
    BY <2>1, <2>2
  <2>4. x \in Call
    BY <2>3 DEF Call
  <2>5. PICK p \in Phones : \E i \in DOMAIN attempt[p] : p = r.p /\ i = r.i
    BY <2>2
  <2>6. PICK i \in DOMAIN attempt[p] : p = r.p /\ i = r.i
    BY <2>5
  <2>7. PICK n : n = Min({guesses[p][i] + 1, MaxStrikes + 1})
    OBVIOUS
  <2>8. n \in Nat /\ i \in DOMAIN guesses[p]
    <3>1. i \in DOMAIN guesses[p] /\ guesses[p][i] \in Nat
      BY <1>0, <2>5, <2>6, PhoneRows
    <3>2. guesses[p][i] + 1 \in Nat /\ MaxStrikes + 1 \in Nat
      BY <3>1, AccountsAssumption
    <3>3. QED
      BY <2>7, <3>1, <3>2, LesserOf
  <2>9. /\ guesses' = guesses \/ guesses' = [guesses EXCEPT ![p][i] = n]
        /\ UNCHANGED <<otp, attempt, session, opened>>
    BY <1>3, <2>1, <2>5, <2>6, <2>7 DEF CompareWrong
  <2>10. guesses' \in [Phones -> Seq(Nat)] /\ \A q \in Phones : Len(guesses'[q]) = Len(guesses[q])
    <3>1. guesses \in [Phones -> Seq(Nat)]
      BY <1>0 DEF TablesTyped
    <3>2. PICK new : new = [guesses EXCEPT ![p][i] = n]
      OBVIOUS
    <3>3. new \in [Phones -> Seq(Nat)] /\ \A q \in Phones : Len(new[q]) = Len(guesses[q])
      BY <2>8, <3>1, <3>2, CellWritten
    <3>4. QED
      BY <2>9, <3>1, <3>2, <3>3
  <2>11. TablesTyped' /\ RowsKept
    BY <1>0, <2>9, <2>10 DEF TablesTyped, RowsKept
  <2>12. Names(x)'
    BY <2>2, <2>3, <2>9 DEF Names
  <2>13. QED
    BY <2>1, <2>4, <2>11, <2>12, TypesKept
<1>4. CASE MarkVerified(c)
  <2>1. PICK r, x : r = req[c] /\ r.pc = "mark" /\ x = [r EXCEPT !.pc = "verified"] /\ Goto(c, x)
    BY <1>4 DEF MarkVerified, At
  <2>2. r.p \in Phones /\ r.i \in DOMAIN attempt[r.p] /\ r.j \in DOMAIN otp[r.p]
        /\ r \in [pc: {"mark", "verified"}, p: Phones, i: Nat, copy: AttemptRow, j: Nat]
    BY <2>1, Verifying, CallMembers DEF VerifyPcs
  <2>3. x \in [pc: {"mark", "verified"}, p: Phones, i: Nat, copy: AttemptRow, j: Nat]
        /\ x.pc = "verified" /\ x.p = r.p /\ x.i = r.i /\ x.j = r.j
    BY <2>1, <2>2
  <2>4. x \in Call
    BY <2>3 DEF Call
  <2>5. PICK e : e = [live |-> TRUE, verified |-> TRUE]
    OBVIOUS
  <2>6. /\ otp' = [otp EXCEPT ![r.p][r.j] = e] /\ e \in OtpRow
        /\ UNCHANGED <<attempt, session, guesses, opened>>
    BY <1>4, <2>1, <2>5 DEF MarkVerified, OtpRow
  <2>7. /\ otp' \in [Phones -> Seq(OtpRow)]
        /\ \A q \in Phones : Len(otp'[q]) = Len(otp[q]) /\ DOMAIN otp'[q] = DOMAIN otp[q]
    BY <1>0, <2>2, <2>6, CellWritten DEF TablesTyped
  <2>8. TablesTyped' /\ RowsKept
    BY <1>0, <2>6, <2>7 DEF TablesTyped, RowsKept
  <2>9. Names(x)'
    BY <2>2, <2>3, <2>6, <2>7 DEF Names
  <2>10. QED
    BY <2>1, <2>4, <2>8, <2>9, TypesKept
<1>5. ASSUME NEW e \in AttemptRow, req[c].pc \in VerifyPcs, SaveAttempt(req[c], e)
      PROVE  /\ attempt' \in [Phones -> Seq(AttemptRow)]
             /\ \A q \in Phones : Len(attempt'[q]) = Len(attempt[q]) /\ DOMAIN attempt'[q] = DOMAIN attempt[q]
  <2>1. PICK p, i : p = req[c].p /\ i = req[c].i
    OBVIOUS
  <2>2. p \in Phones /\ i \in DOMAIN attempt[p]
    BY <1>5, <2>1, Verifying
  <2>3. PICK f : f = [e EXCEPT !.recent = attempt[p][i].recent]
    OBVIOUS
  <2>4. attempt[p][i] \in AttemptRow
    BY <1>0, <2>2, PhoneRows
  <2>5. f \in AttemptRow
    BY <2>3, <2>4 DEF AttemptRow
  <2>6. attempt' = [attempt EXCEPT ![p][i] = f]
    BY <1>5, <2>1, <2>3 DEF SaveAttempt
  <2>7. QED
    BY <1>0, <2>2, <2>5, <2>6, CellWritten DEF TablesTyped
<1>6. CASE OpenSession(c)
  <2>1. PICK r, e : /\ r = req[c] /\ r.pc = "verified" /\ e = [r.copy EXCEPT !.stage = "otp_verified"]
                    /\ SaveAttempt(r, e)
    BY <1>6 DEF OpenSession, At
  <2>2. r.p \in Phones /\ r.copy \in AttemptRow /\ r.i \in DOMAIN attempt[r.p] /\ r.j \in DOMAIN otp[r.p]
    BY <2>1, Verifying DEF VerifyPcs
  <2>3. e \in AttemptRow
    BY <2>1, <2>2 DEF AttemptRow
  <2>4. /\ attempt' \in [Phones -> Seq(AttemptRow)]
        /\ \A q \in Phones : Len(attempt'[q]) = Len(attempt[q]) /\ DOMAIN attempt'[q] = DOMAIN attempt[q]
    BY <1>5, <2>1, <2>3 DEF VerifyPcs
  <2>5. PICK n : n = Min({opened[r.p][r.j] + 1, Cardinality(Clients) + 1})
    OBVIOUS
  <2>6. n \in Nat /\ r.j \in DOMAIN opened[r.p]
    <3>1. r.j \in DOMAIN opened[r.p] /\ opened[r.p][r.j] \in Nat
      BY <1>0, <2>2, PhoneRows
    <3>2. opened[r.p][r.j] + 1 \in Nat /\ Cardinality(Clients) + 1 \in Nat
      BY <3>1, FS_CardinalityType, AccountsAssumption
    <3>3. QED
      BY <2>5, <3>1, <3>2, LesserOf
  <2>7. /\ opened' = [opened EXCEPT ![r.p][r.j] = n] /\ session' = session \union {<<r.p, r.i>>}
        /\ UNCHANGED <<otp, guesses>> /\ Goto(c, Idle)
    BY <1>6, <2>1, <2>5 DEF OpenSession, Finish
  <2>8. opened' \in [Phones -> Seq(Nat)] /\ \A q \in Phones : Len(opened'[q]) = Len(opened[q])
    BY <1>0, <2>2, <2>6, <2>7, CellWritten DEF TablesTyped
  <2>9. \A p, i : <<p, i>> \in session' => p \in Phones /\ i \in DOMAIN attempt[p]
    BY <1>0, <2>2, <2>7 DEF TablesTyped
  <2>10. TablesTyped' /\ RowsKept
    BY <1>0, <2>4, <2>7, <2>8, <2>9 DEF TablesTyped, RowsKept
  <2>11. QED
    BY <2>7, <2>10, TypesKept, IdleNames, IdleNamesThen
<1>7. CASE Strike(c)
  <2>1. PICK r : r = req[c] /\ r.pc = "strike"
    BY <1>7 DEF Strike, At
  <2>2. r.copy \in AttemptRow
    BY <2>1, Verifying DEF VerifyPcs
  <2>3. PICK e : /\ SaveAttempt(r, e)
                 /\ e = IF r.copy.strikes + 1 >= MaxStrikes
                        THEN [r.copy EXCEPT !.stage = "failed", !.strikes = 0]
                        ELSE [r.copy EXCEPT !.strikes = r.copy.strikes + 1]
    BY <1>7, <2>1 DEF Strike
  <2>4. e \in AttemptRow
    <3>1. PICK a \in AttemptRow : a = r.copy
      BY <2>2
    <3>2. a.strikes \in 0..MaxStrikes
      BY DEF AttemptRow
    <3>3. CASE a.strikes + 1 >= MaxStrikes
      BY <2>3, <3>1, <3>3, FailedRow
    <3>4. CASE ~(a.strikes + 1 >= MaxStrikes)
      <4>1. a.strikes + 1 \in 0..MaxStrikes
        BY <3>2, <3>4, AccountsAssumption
      <4>2. QED
        BY <2>3, <3>1, <3>4, <4>1, StruckRow
    <3>5. QED
      BY <3>3, <3>4
  <2>5. /\ attempt' \in [Phones -> Seq(AttemptRow)]
        /\ \A q \in Phones : Len(attempt'[q]) = Len(attempt[q]) /\ DOMAIN attempt'[q] = DOMAIN attempt[q]
    BY <1>5, <2>1, <2>3, <2>4 DEF VerifyPcs
  <2>6. UNCHANGED <<otp, guesses, opened, session>> /\ Goto(c, Idle)
    BY <1>7 DEF Strike, Finish
  <2>7. TablesTyped' /\ RowsKept
    BY <1>0, <2>5, <2>6 DEF TablesTyped, RowsKept
  <2>8. QED
    BY <2>6, <2>7, TypesKept, IdleNames, IdleNamesThen
<1>8. QED
  BY <1>1, <1>2, <1>3, <1>4, <1>6, <1>7

LEMMA TypesAfterSignup ==
    ASSUME PhoneTypes, NEW c \in Clients,
           (\E s \in session : BeginSignup(c, s[1], s[2])) \/ CommitSignup(c)
    PROVE  PhoneTypes'
<1>0. TablesTyped
  BY DEF PhoneTypes
<1>1. ASSUME NEW s \in session, BeginSignup(c, s[1], s[2]) PROVE PhoneTypes'
  <2>1. PICK p, i, x : /\ <<p, i>> \in session /\ x = [pc |-> "signup", p |-> p, i |-> i]
                       /\ Goto(c, x) /\ UNCHANGED <<otp, attempt, session, guesses, opened>>
    BY <1>1 DEF BeginSignup, otpVars
  <2>2. p \in Phones /\ i \in Nat
    BY <1>0, <2>1, PhoneRows DEF TablesTyped
  <2>3. x \in Call /\ x.pc = "signup" /\ x.p = p /\ x.i = i
    BY <2>1, <2>2 DEF Call
  <2>4. Names(x)
    BY <2>1, <2>3 DEF Names, VerifyPcs
  <2>5. QED
    BY <2>1, <2>3, <2>4, QuietTypes
<1>2. CASE CommitSignup(c)
  <2>1. PICK p, i : /\ p = req[c].p /\ i = req[c].i /\ req[c].pc = "signup" /\ CompleteAttempt(p, i)
                    /\ UNCHANGED <<otp, session, guesses, opened>> /\ Goto(c, Idle)
    BY <1>2 DEF CommitSignup, At, Finish
  <2>2. p \in Phones /\ i \in DOMAIN attempt[p]
    <3>1. <<p, i>> \in session
      BY <2>1, CallAt DEF Names
    <3>2. QED
      BY <1>0, <3>1 DEF TablesTyped
  <2>3. PICK e : e = [attempt[p][i] EXCEPT !.stage = "completed"]
    OBVIOUS
  <2>4. e \in AttemptRow
    <3>1. attempt[p][i] \in AttemptRow
      BY <1>0, <2>2, PhoneRows
    <3>2. QED
      BY <2>3, <3>1 DEF AttemptRow
  <2>5. attempt' = [attempt EXCEPT ![p][i] = e]
    BY <2>1, <2>3 DEF CompleteAttempt
  <2>6. /\ attempt' \in [Phones -> Seq(AttemptRow)]
        /\ \A q \in Phones : Len(attempt'[q]) = Len(attempt[q]) /\ DOMAIN attempt'[q] = DOMAIN attempt[q]
    BY <1>0, <2>2, <2>4, <2>5, CellWritten DEF TablesTyped
  <2>7. TablesTyped' /\ RowsKept
    BY <1>0, <2>1, <2>6 DEF TablesTyped, RowsKept
  <2>8. QED
    BY <2>1, <2>7, TypesKept, IdleNames, IdleNamesThen
<1>3. QED
  BY <1>1, <1>2

LEMMA TypesAfterTokens ==
    ASSUME PhoneTypes, AccountsInv,
           \/ \E p \in Phones : Login(p) \/ LoginWithGoogle(p)
           \/ \E c \in Clients, t \in DOMAIN token : BeginRefresh(c, t) \/ BeginLogout(c, t)
           \/ \E c \in Clients : RevokeToken(c) \/ IssueToken(c) \/ CommitLogout(c) \/ CutShort(c)
           \/ \E t \in DOMAIN token : TokenExpires(t)
           \/ UNCHANGED vars
    PROVE  PhoneTypes'
<1>1. UNCHANGED <<otp, attempt, session, guesses, opened>>
  BY DEF Login, LoginWithGoogle, BeginRefresh, BeginLogout, RevokeToken, IssueToken, CommitLogout,
         CutShort, TokenExpires, otpVars, vars
<1>2. ASSUME NEW pc \in TokenPcs, NEW t \in Nat
      PROVE  [pc |-> pc, t |-> t] \in Call /\ Names([pc |-> pc, t |-> t])
  <2>1. PICK x : x = [pc |-> pc, t |-> t]
    OBVIOUS
  <2>2. x \in [pc: TokenPcs, t: Nat]
    BY <2>1
  <2>3. x \in Call /\ x.pc = pc
    BY <2>1, <2>2 DEF Call
  <2>4. Names(x)
    BY <2>3 DEF Names, TokenPcs, VerifyPcs
  <2>5. QED
    BY <2>1, <2>3, <2>4
<1>3. ASSUME NEW c \in Clients, NEW t \in DOMAIN token, BeginRefresh(c, t) \/ BeginLogout(c, t)
      PROVE  PhoneTypes'
  <2>1. t \in Nat
    BY TokenDomain DEF AccountsInv
  <2>2. Goto(c, [pc |-> "revoke", t |-> t]) \/ Goto(c, [pc |-> "logout", t |-> t])
    BY <1>3 DEF BeginRefresh, BeginLogout
  <2>3. QED
    BY <1>1, <1>2, <2>1, <2>2, QuietTypes DEF TokenPcs
<1>4. ASSUME NEW c \in Clients, RevokeToken(c) PROVE PhoneTypes'
  <2>1. PICK r, x : r = req[c] /\ r.pc = "revoke" /\ x = [r EXCEPT !.pc = "issue"] /\ Goto(c, x)
    BY <1>4 DEF RevokeToken, At
  <2>2. r \in [pc: TokenPcs, t: Nat]
    BY <2>1, CallAt, CallMembers DEF TokenPcs
  <2>3. x = [pc |-> "issue", t |-> r.t] /\ r.t \in Nat
    BY <2>1, <2>2
  <2>4. QED
    BY <1>1, <1>2, <2>1, <2>3, QuietTypes DEF TokenPcs
<1>5. ASSUME NEW c \in Clients, IssueToken(c) \/ CommitLogout(c) \/ CutShort(c) PROVE PhoneTypes'
  <2>1. Goto(c, Idle)
    BY <1>5 DEF IssueToken, CommitLogout, CutShort, Finish
  <2>2. QED
    BY <1>1, <2>1, QuietTypes, IdleNames
<1>6. CASE \/ \E p \in Phones : Login(p) \/ LoginWithGoogle(p)
           \/ \E t \in DOMAIN token : TokenExpires(t)
           \/ UNCHANGED vars
  <2>1. UNCHANGED req
    BY <1>6 DEF Login, LoginWithGoogle, TokenExpires, vars
  <2>2. QED
    BY <1>1, <2>1, QuietTypes
<1>7. QED
  BY <1>3, <1>4, <1>5, <1>6

\* The oldest attempt of the last hour is one.
LEMMA OldestIsOne ==
    ASSUME TablesTyped, NEW p \in Phones, NEW young,
           young = {i \in DOMAIN attempt[p] : attempt[p][i].recent}, young # {}
    PROVE  Min(young) \in DOMAIN attempt[p]
<1>1. young \subseteq Nat
  BY PhoneRows
<1>2. QED
  BY <1>1, Least

LEMMA TypesAfterTime ==
    ASSUME PhoneTypes, NEW p \in Phones,
           (\E j \in DOMAIN otp[p] : OtpExpires(p, j)) \/ AttemptAges(p)
    PROVE  PhoneTypes'
<1>0. TablesTyped
  BY DEF PhoneTypes
<1>1. ASSUME NEW j \in DOMAIN otp[p], OtpExpires(p, j) PROVE PhoneTypes'
  <2>1. PICK e : e = [otp[p][j] EXCEPT !.live = FALSE]
    OBVIOUS
  <2>2. otp[p][j] \in OtpRow
    BY <1>0, PhoneRows
  <2>3. e \in OtpRow
    BY <2>1, <2>2 DEF OtpRow
  <2>4. otp' = [otp EXCEPT ![p][j] = e] /\ UNCHANGED <<attempt, session, guesses, opened, req>>
    BY <1>1, <2>1 DEF OtpExpires
  <2>5. /\ otp' \in [Phones -> Seq(OtpRow)]
        /\ \A q \in Phones : Len(otp'[q]) = Len(otp[q]) /\ DOMAIN otp'[q] = DOMAIN otp[q]
    BY <1>0, <2>3, <2>4, CellWritten DEF TablesTyped
  <2>6. TablesTyped' /\ RowsKept
    BY <1>0, <2>4, <2>5 DEF TablesTyped, RowsKept
  <2>7. QED
    BY <2>4, <2>6, TypesKept
<1>2. CASE AttemptAges(p)
  <2>1. PICK young : young = {i \in DOMAIN attempt[p] : attempt[p][i].recent} /\ young # {}
    BY <1>2 DEF AttemptAges
  <2>2. PICK i \in DOMAIN attempt[p] : i = Min(young)
    BY <1>0, <2>1, OldestIsOne
  <2>3. PICK e : e = [attempt[p][i] EXCEPT !.recent = FALSE]
    OBVIOUS
  <2>4. e \in AttemptRow
    <3>1. attempt[p][i] \in AttemptRow
      BY <1>0, PhoneRows
    <3>2. QED
      BY <2>3, <3>1 DEF AttemptRow
  <2>5. attempt' = [attempt EXCEPT ![p][i] = e] /\ UNCHANGED <<otp, session, guesses, opened, req>>
    BY <1>2, <2>1, <2>2, <2>3 DEF AttemptAges
  <2>6. /\ attempt' \in [Phones -> Seq(AttemptRow)]
        /\ \A q \in Phones : Len(attempt'[q]) = Len(attempt[q]) /\ DOMAIN attempt'[q] = DOMAIN attempt[q]
    BY <1>0, <2>4, <2>5, CellWritten DEF TablesTyped
  <2>7. TablesTyped' /\ RowsKept
    BY <1>0, <2>5, <2>6 DEF TablesTyped, RowsKept
  <2>8. QED
    BY <2>5, <2>7, TypesKept
<1>3. QED
  BY <1>1, <1>2

LEMMA TypesInit == Init => PhoneTypes
<1> SUFFICES ASSUME Init PROVE PhoneTypes
  OBVIOUS
<1>1. <<>> \in Seq(OtpRow) /\ <<>> \in Seq(AttemptRow) /\ <<>> \in Seq(Nat)
  BY EmptySeq
<1>2. TablesTyped
  BY <1>1 DEF Init, TablesTyped
<1>3. req \in [Clients -> Call] /\ \A c \in Clients : req[c] = Idle
  BY IdleNames DEF Init
<1>4. QED
  BY <1>2, <1>3, IdleNames DEF PhoneTypes, CallsTyped

LEMMA TypesStep == ASSUME PhoneTypes, AccountsInv, [Next]_vars PROVE PhoneTypes'
<1> USE TypesAfterSend, TypesAfterVerify, TypesAfterSignup, TypesAfterTokens, TypesAfterTime
<1>1. CASE \E c \in Clients, p \in Phones : BeginSendOtp(c, p) \/ BeginVerify(c, p)
  BY <1>1
<1>2. ASSUME NEW c \in Clients,
             \/ StoreOtp(c) \/ CheckLimit(c) \/ FailOpenAttempts(c) \/ InsertAttempt(c)
             \/ CompareRight(c) \/ CompareWrong(c) \/ MarkVerified(c) \/ OpenSession(c) \/ Strike(c)
             \/ CommitSignup(c) \/ RevokeToken(c) \/ IssueToken(c) \/ CommitLogout(c)
             \/ CutShort(c)
      PROVE  PhoneTypes'
  BY <1>2
<1>3. CASE \E c \in Clients, s \in session : BeginSignup(c, s[1], s[2])
  BY <1>3
<1>4. CASE \/ \E p \in Phones : Login(p) \/ LoginWithGoogle(p)
           \/ \E c \in Clients, t \in DOMAIN token : BeginRefresh(c, t) \/ BeginLogout(c, t)
           \/ \E t \in DOMAIN token : TokenExpires(t)
           \/ UNCHANGED vars
  BY <1>4
<1>5. CASE \/ \E p \in Phones : \E j \in DOMAIN otp[p] : OtpExpires(p, j)
           \/ \E p \in Phones : AttemptAges(p)
  BY <1>5
<1>6. QED
  BY <1>1, <1>2, <1>3, <1>4, <1>5 DEF Next

(***************************************************************************)
(* A one-time password is spent once it is marked                          *)
(***************************************************************************)
Holds(x, p, j) == x.pc \in {"mark", "verified"} /\ x.p = p /\ x.j = j
Holding(p, j) == {c \in Clients : Holds(req[c], p, j)}

\* The sessions a code has opened and those it may still open, and that a code
\* nobody has marked has opened none.
Spent(p, j) ==
    /\ opened[p][j] + Cardinality(Holding(p, j)) <= Cardinality(Clients)
    /\ ~otp[p][j].verified =>
          opened[p][j] = 0 /\ \A c \in Holding(p, j) : req[c].pc = "mark"

OtpInv == \A p \in Phones : \A j \in DOMAIN otp[p] : Spent(p, j)

LEMMA HoldingIsFinite ==
    ASSUME NEW S, S \subseteq Clients
    PROVE  IsFiniteSet(S) /\ Cardinality(S) \in Nat /\ Cardinality(S) <= Cardinality(Clients)
  BY FS_Subset, FS_CardinalityType, AccountsAssumption

\* A code nobody writes, which no more calls hold than before.
LEMMA SpentStays ==
    ASSUME PhoneTypes, NEW p \in Phones, NEW j \in DOMAIN otp[p], Spent(p, j),
           otp'[p][j].verified = otp[p][j].verified, opened'[p][j] = opened[p][j],
           \A c \in Clients : Holds(req'[c], p, j) => Holds(req[c], p, j) /\ req'[c].pc = req[c].pc
    PROVE  Spent(p, j)'
<1>1. PICK S, U : S = Holding(p, j) /\ U = {c \in Clients : Holds(req'[c], p, j)}
  OBVIOUS
<1>2. U \subseteq S /\ S \subseteq Clients /\ U \subseteq Clients
  BY <1>1 DEF Holding
<1>3. Cardinality(U) \in Nat /\ Cardinality(S) \in Nat /\ Cardinality(Clients) \in Nat
  BY <1>2, HoldingIsFinite, FS_CardinalityType, AccountsAssumption
<1>4. Cardinality(U) <= Cardinality(S)
  BY <1>2, HoldingIsFinite, FS_Subset
<1>5. opened[p][j] \in Nat
  BY PhoneRows DEF PhoneTypes
<1>6. opened[p][j] + Cardinality(S) <= Cardinality(Clients)
  BY <1>1 DEF Spent
<1>7. opened'[p][j] + Cardinality(U) <= Cardinality(Clients)
  BY <1>3, <1>4, <1>5, <1>6
<1>8. U = Holding(p, j)'
  BY <1>1 DEF Holding, Holds
<1>9. ~otp'[p][j].verified => opened'[p][j] = 0 /\ \A c \in U : req'[c].pc = "mark"
  BY <1>1, <1>2 DEF Spent, Holding
<1>10. QED
  BY <1>7, <1>8, <1>9 DEF Spent

\* Steps that mark no code and open no session with one.
LEMMA QuietOtps ==
    ASSUME PhoneTypes, OtpInv, UNCHANGED opened,
           \A p \in Phones : DOMAIN otp'[p] = DOMAIN otp[p],
           \A p \in Phones : \A j \in DOMAIN otp[p] : otp'[p][j].verified = otp[p][j].verified,
           UNCHANGED req \/ \E c \in Clients : \E x : Goto(c, x) /\ x.pc \notin {"mark", "verified"}
    PROVE  OtpInv'
<1>1. SUFFICES ASSUME NEW p \in Phones, NEW j \in DOMAIN otp[p] PROVE Spent(p, j)'
  BY DEF OtpInv
<1>2. ASSUME NEW c \in Clients, Holds(req'[c], p, j)
      PROVE  Holds(req[c], p, j) /\ req'[c].pc = req[c].pc
  <2>1. CASE UNCHANGED req
    BY <1>2, <2>1
  <2>2. ASSUME NEW d \in Clients, NEW x, Goto(d, x), x.pc \notin {"mark", "verified"}
        PROVE  req'[c] = req[c]
    BY <1>2, <2>2 DEF Goto, Holds, PhoneTypes, CallsTyped
  <2>3. QED
    BY <1>2, <2>1, <2>2
<1>3. QED
  BY <1>2, SpentStays DEF OtpInv

LEMMA OtpInvStore ==
    ASSUME PhoneTypes, PhoneTypes', OtpInv, NEW c \in Clients, StoreOtp(c)
    PROVE  OtpInv'
<1>0. TablesTyped /\ TablesTyped'
  BY DEF PhoneTypes
<1>1. PICK p, e, x : /\ p = req[c].p /\ e = [live |-> TRUE, verified |-> FALSE]
                     /\ otp' = [otp EXCEPT ![p] = Append(@, e)]
                     /\ opened' = [opened EXCEPT ![p] = Append(@, 0)]
                     /\ Goto(c, x) /\ x = [pc |-> "limit", p |-> p]
  BY DEF StoreOtp
<1>2. p \in Phones
  BY <1>1, CallAt, CallMembers DEF StoreOtp, At, SendPcs
<1>3. e \in OtpRow /\ ~e.verified
  BY <1>1 DEF OtpRow
<1>4. PICK n : n = Len(otp[p]) + 1
  OBVIOUS
<1>5. /\ otp'[p][n] = e /\ DOMAIN otp'[p] = DOMAIN otp[p] \union {n} /\ n \notin DOMAIN otp[p]
      /\ \A j \in DOMAIN otp[p] : otp'[p][j] = otp[p][j]
      /\ \A q \in Phones : q # p => otp'[q] = otp[q]
  <2>1. otp \in [Phones -> Seq(OtpRow)] /\ otp' = [otp EXCEPT ![p] = Append(@, e)] /\ e \in OtpRow
    BY <1>0, <1>1, <1>3 DEF TablesTyped
  <2>2. QED
    BY <1>2, <1>4, <2>1, RowInserted
<1>6. /\ opened'[p][n] = 0
      /\ \A j \in DOMAIN otp[p] : opened'[p][j] = opened[p][j]
      /\ \A q \in Phones : q # p => opened'[q] = opened[q]
  <2>1. Len(opened[p]) = Len(otp[p]) /\ DOMAIN opened[p] = DOMAIN otp[p]
    BY <1>0, <1>2, PhoneRows DEF TablesTyped
  <2>2. QED
    BY <1>0, <1>1, <1>2, <1>4, <2>1, RowInserted DEF TablesTyped
<1>7. req'[c] = x /\ \A d \in Clients : d # c => req'[d] = req[d]
  BY <1>1 DEF Goto, PhoneTypes, CallsTyped
<1>8. \A d \in Clients : \A q, j : Holds(req'[d], q, j) => req'[d] = req[d]
  BY <1>1, <1>7 DEF Holds
<1>9. ASSUME NEW q \in Phones, NEW j \in DOMAIN otp[q] PROVE Spent(q, j)'
  <2>1. otp'[q][j].verified = otp[q][j].verified /\ opened'[q][j] = opened[q][j]
    BY <1>5, <1>6
  <2>2. QED
    BY <1>8, <2>1, SpentStays DEF OtpInv
<1>10. Spent(p, n)'
  <2>1. ASSUME NEW d \in Clients PROVE ~Holds(req'[d], p, n)
    <3>1. SUFFICES ASSUME Holds(req'[d], p, n) PROVE FALSE
      OBVIOUS
    <3>2. Holds(req[d], p, n)
      BY <1>8, <3>1
    <3>3. n \in DOMAIN otp[p]
      BY <3>2, CallAt DEF Holds, Names
    <3>4. QED
      BY <1>5, <3>3
  <2>2. PICK U : U = {d \in Clients : Holds(req'[d], p, n)}
    OBVIOUS
  <2>3. U = {}
    BY <2>1, <2>2
  <2>4. Cardinality(U) = 0 /\ Cardinality(Clients) \in Nat
    BY <2>3, FS_EmptySet, FS_CardinalityType, AccountsAssumption
  <2>5. U = Holding(p, n)'
    BY <2>2 DEF Holding, Holds
  <2>6. opened'[p][n] + Cardinality(U) <= Cardinality(Clients)
    BY <1>6, <2>4
  <2>7. QED
    BY <1>6, <2>3, <2>5, <2>6 DEF Spent
<1>11. QED
  BY <1>5, <1>9, <1>10 DEF OtpInv

LEMMA OtpInvRight ==
    ASSUME PhoneTypes, OtpInv, NEW c \in Clients, CompareRight(c)
    PROVE  OtpInv'
<1>0. TablesTyped
  BY DEF PhoneTypes
<1>1. PICK r, k, x : /\ r = req[c] /\ k = UsableOtp(r.p) /\ k # 0 /\ r.pc = "compare"
                     /\ x = [pc |-> "mark", p |-> r.p, i |-> r.i, copy |-> r.copy, j |-> k]
                     /\ Goto(c, x) /\ UNCHANGED <<otp, opened>>
  BY DEF CompareRight, At, otpVars
<1>2. r.p \in Phones
  BY <1>1, Verifying DEF VerifyPcs
<1>3. k \in DOMAIN otp[r.p] /\ ~otp[r.p][k].verified
  <2>1. PICK S : S = {m \in DOMAIN otp[r.p] : otp[r.p][m].live /\ ~otp[r.p][m].verified}
    OBVIOUS
  <2>2. Latest(S) \in S
    BY <1>0, <1>1, <1>2, <2>1, PhoneRows, LatestIsOne DEF UsableOtp
  <2>3. QED
    BY <1>1, <2>1, <2>2 DEF UsableOtp
<1>4. req'[c] = x /\ \A d \in Clients : d # c => req'[d] = req[d]
  BY <1>1 DEF Goto, PhoneTypes, CallsTyped
<1>5. SUFFICES ASSUME NEW p \in Phones, NEW j \in DOMAIN otp[p] PROVE Spent(p, j)'
  BY <1>1 DEF OtpInv
<1>6. CASE p = r.p /\ j = k
  <2>1. PICK U : U = {d \in Clients : Holds(req'[d], p, j)}
    OBVIOUS
  <2>2. Cardinality(U) \in Nat /\ Cardinality(U) <= Cardinality(Clients)
    BY <2>1, HoldingIsFinite
  <2>3. opened[p][j] = 0 /\ \A d \in Holding(p, j) : req[d].pc = "mark"
    BY <1>3, <1>6 DEF OtpInv, Spent
  <2>4. opened'[p][j] + Cardinality(U) <= Cardinality(Clients)
    BY <1>1, <2>2, <2>3
  <2>5. ASSUME NEW d \in U PROVE req'[d].pc = "mark"
    <3>1. CASE d = c
      BY <1>1, <1>4, <3>1
    <3>2. CASE d # c
      BY <1>4, <2>1, <2>3, <2>5, <3>2 DEF Holding
    <3>3. QED
      BY <3>1, <3>2
  <2>6. U = Holding(p, j)'
    BY <2>1 DEF Holding, Holds
  <2>7. QED
    BY <1>1, <2>3, <2>4, <2>5, <2>6 DEF Spent
<1>7. CASE ~(p = r.p /\ j = k)
  <2>1. \A d \in Clients : Holds(req'[d], p, j) => req'[d] = req[d]
    BY <1>1, <1>4, <1>7 DEF Holds
  <2>2. QED
    BY <1>1, <2>1, SpentStays DEF OtpInv
<1>8. QED
  BY <1>6, <1>7

LEMMA OtpInvMark ==
    ASSUME PhoneTypes, OtpInv, NEW c \in Clients, MarkVerified(c)
    PROVE  OtpInv'
<1>0. TablesTyped
  BY DEF PhoneTypes
<1>1. PICK r, x, e : /\ r = req[c] /\ r.pc = "mark" /\ x = [r EXCEPT !.pc = "verified"] /\ Goto(c, x)
                     /\ e = [live |-> TRUE, verified |-> TRUE]
                     /\ otp' = [otp EXCEPT ![r.p][r.j] = e] /\ UNCHANGED opened
  BY DEF MarkVerified, At
<1>2. r.p \in Phones /\ r.j \in DOMAIN otp[r.p]
  BY <1>1, Verifying DEF VerifyPcs
<1>3. e \in OtpRow /\ e.verified
  BY <1>1 DEF OtpRow
<1>4. /\ otp'[r.p][r.j] = e
      /\ \A q \in Phones : DOMAIN otp'[q] = DOMAIN otp[q]
      /\ \A q \in Phones : \A j \in DOMAIN otp[q] : q # r.p \/ j # r.j => otp'[q][j] = otp[q][j]
  BY <1>0, <1>1, <1>2, <1>3, CellWritten DEF TablesTyped
<1>5. x.p = r.p /\ x.j = r.j
  <2>1. r \in [pc: {"mark", "verified"}, p: Phones, i: Nat, copy: AttemptRow, j: Nat]
    BY <1>1, CallAt, CallMembers
  <2>2. QED
    BY <1>1, <2>1
<1>6. req'[c] = x /\ \A d \in Clients : d # c => req'[d] = req[d]
  BY <1>1 DEF Goto, PhoneTypes, CallsTyped
<1>7. ASSUME NEW d \in Clients, NEW p, NEW j, Holds(req'[d], p, j)
      PROVE  Holds(req[d], p, j) /\ (req'[d] = req[d] \/ (p = r.p /\ j = r.j))
  <2>1. CASE d = c
    <3>1. p = r.p /\ j = r.j
      BY <1>5, <1>6, <1>7, <2>1 DEF Holds
    <3>2. req[d].pc = "mark" /\ req[d].p = r.p /\ req[d].j = r.j
      BY <1>1, <2>1
    <3>3. QED
      BY <3>1, <3>2 DEF Holds
  <2>2. CASE d # c
    BY <1>6, <1>7, <2>2
  <2>3. QED
    BY <2>1, <2>2
<1>8. SUFFICES ASSUME NEW p \in Phones, NEW j \in DOMAIN otp[p] PROVE Spent(p, j)'
  BY <1>4 DEF OtpInv
<1>9. CASE p = r.p /\ j = r.j
  <2>1. PICK S, U : S = Holding(p, j) /\ U = {d \in Clients : Holds(req'[d], p, j)}
    OBVIOUS
  <2>2. U \subseteq S /\ S \subseteq Clients /\ U \subseteq Clients
    BY <1>7, <2>1 DEF Holding
  <2>3. Cardinality(U) \in Nat /\ Cardinality(S) \in Nat /\ Cardinality(Clients) \in Nat
    BY <2>2, HoldingIsFinite, FS_CardinalityType, AccountsAssumption
  <2>4. Cardinality(U) <= Cardinality(S)
    BY <2>2, HoldingIsFinite, FS_Subset
  <2>5. opened[p][j] \in Nat /\ opened[p][j] + Cardinality(S) <= Cardinality(Clients)
    BY <1>0, <2>1, PhoneRows DEF OtpInv, Spent
  <2>6. opened'[p][j] + Cardinality(U) <= Cardinality(Clients)
    BY <1>1, <2>3, <2>4, <2>5
  <2>7. U = Holding(p, j)'
    BY <2>1 DEF Holding, Holds
  <2>8. otp'[p][j].verified
    BY <1>3, <1>4, <1>9
  <2>9. QED
    BY <2>6, <2>7, <2>8 DEF Spent
<1>10. CASE ~(p = r.p /\ j = r.j)
  <2>1. \A d \in Clients : Holds(req'[d], p, j) => req'[d] = req[d]
    BY <1>7, <1>10
  <2>2. otp'[p][j].verified = otp[p][j].verified /\ opened'[p][j] = opened[p][j]
    BY <1>1, <1>4, <1>10
  <2>3. QED
    BY <2>1, <2>2, SpentStays DEF OtpInv
<1>11. QED
  BY <1>9, <1>10

LEMMA OtpInvOpen ==
    ASSUME PhoneTypes, OtpInv, NEW c \in Clients, OpenSession(c)
    PROVE  OtpInv'
<1>0. TablesTyped
  BY DEF PhoneTypes
<1>1. PICK r, n : /\ r = req[c] /\ r.pc = "verified" /\ Goto(c, Idle)
                  /\ n = Min({opened[r.p][r.j] + 1, Cardinality(Clients) + 1})
                  /\ opened' = [opened EXCEPT ![r.p][r.j] = n] /\ UNCHANGED otp
  BY DEF OpenSession, At, Finish
<1>2. r.p \in Phones /\ r.j \in DOMAIN otp[r.p]
  BY <1>1, Verifying DEF VerifyPcs
<1>3. opened[r.p][r.j] \in Nat /\ Cardinality(Clients) \in Nat
  BY <1>0, <1>2, PhoneRows, FS_CardinalityType, AccountsAssumption
<1>4. n \in Nat /\ n <= opened[r.p][r.j] + 1
  <2>1. opened[r.p][r.j] + 1 \in Nat /\ Cardinality(Clients) + 1 \in Nat
    BY <1>3
  <2>2. QED
    BY <1>1, <2>1, LesserOf
<1>5. r.j \in DOMAIN opened[r.p]
  BY <1>0, <1>2, PhoneRows
<1>6. /\ opened'[r.p][r.j] = n
      /\ \A q \in Phones : \A j \in DOMAIN opened[q] : q # r.p \/ j # r.j => opened'[q][j] = opened[q][j]
  BY <1>0, <1>1, <1>2, <1>4, <1>5, CellWritten DEF TablesTyped
<1>7. req'[c] = Idle /\ \A d \in Clients : d # c => req'[d] = req[d]
  BY <1>1 DEF Goto, PhoneTypes, CallsTyped
<1>8. \A d \in Clients : \A p, j : Holds(req'[d], p, j) => d # c /\ req'[d] = req[d]
  BY <1>7, IdleNames DEF Holds
<1>9. SUFFICES ASSUME NEW p \in Phones, NEW j \in DOMAIN otp[p] PROVE Spent(p, j)'
  BY <1>1 DEF OtpInv
<1>10. CASE p = r.p /\ j = r.j
  <2>1. PICK S, U : S = Holding(p, j) /\ U = {d \in Clients : Holds(req'[d], p, j)}
    OBVIOUS
  <2>2. c \in S /\ c \notin U /\ U \subseteq S \ {c} /\ S \subseteq Clients
    BY <1>1, <1>8, <1>10, <2>1 DEF Holding, Holds
  <2>3. IsFiniteSet(S) /\ Cardinality(S) \in Nat
    BY <2>2, HoldingIsFinite
  <2>4. IsFiniteSet(S \ {c}) /\ Cardinality(S \ {c}) = Cardinality(S) - 1
    BY <2>2, <2>3, FS_RemoveElement
  <2>5. Cardinality(U) <= Cardinality(S \ {c})
    BY <2>2, <2>4, FS_Subset
  <2>6. Cardinality(U) \in Nat
    BY <2>1, HoldingIsFinite
  <2>7. opened[p][j] + Cardinality(S) <= Cardinality(Clients)
    BY <2>1 DEF OtpInv, Spent
  <2>8. opened'[p][j] + Cardinality(U) <= Cardinality(Clients)
    BY <1>3, <1>4, <1>6, <1>10, <2>3, <2>4, <2>5, <2>6, <2>7
  <2>9. U = Holding(p, j)'
    BY <2>1 DEF Holding, Holds
  <2>10. otp'[p][j].verified
    <3>1. ~otp[p][j].verified => req[c].pc = "mark"
      BY <2>1, <2>2 DEF OtpInv, Spent
    <3>2. QED
      BY <1>1, <3>1
  <2>11. QED
    BY <2>8, <2>9, <2>10 DEF Spent
<1>11. CASE ~(p = r.p /\ j = r.j)
  <2>1. j \in DOMAIN opened[p]
    BY <1>0, PhoneRows
  <2>2. otp'[p][j].verified = otp[p][j].verified /\ opened'[p][j] = opened[p][j]
    BY <1>1, <1>6, <1>11, <2>1
  <2>3. QED
    BY <1>8, <2>2, SpentStays DEF OtpInv
<1>12. QED
  BY <1>10, <1>11

LEMMA OtpInvInit == Init => OtpInv
  BY DEF Init, OtpInv

LEMMA OtpInvStep ==
    ASSUME PhoneTypes, PhoneTypes', OtpInv, [Next]_vars
    PROVE  OtpInv'
<1> DEFINE SameOtps ==
      /\ UNCHANGED opened
      /\ \A p \in Phones : DOMAIN otp'[p] = DOMAIN otp[p]
      /\ \A p \in Phones : \A j \in DOMAIN otp[p] : otp'[p][j].verified = otp[p][j].verified
<1>0. TablesTyped
  BY DEF PhoneTypes
<1>1. ASSUME UNCHANGED <<otp, opened>> PROVE SameOtps
  BY <1>1
<1>2. ASSUME NEW c \in Clients, NEW p \in Phones, BeginSendOtp(c, p) PROVE OtpInv'
  <2>1. PICK r : r = [j \in DOMAIN otp[p] |->
                        IF otp[p][j].verified THEN otp[p][j] ELSE [otp[p][j] EXCEPT !.live = FALSE]]
    OBVIOUS
  <2>2. \A j \in DOMAIN otp[p] : otp[p][j] \in OtpRow
    BY <1>0, PhoneRows
  <2>3. DOMAIN r = DOMAIN otp[p] /\ \A j \in DOMAIN otp[p] : r[j].verified = otp[p][j].verified
    BY <2>1, <2>2 DEF OtpRow
  <2>4. otp' = [otp EXCEPT ![p] = r] /\ UNCHANGED opened
    BY <1>2, <2>1 DEF BeginSendOtp, ExpireOtps
  <2>5. otp'[p] = r /\ \A q \in Phones : q # p => otp'[q] = otp[q]
    BY <1>0, <2>4 DEF TablesTyped
  <2>6. SameOtps
    BY <2>3, <2>4, <2>5
  <2>7. PICK x : x = [pc |-> "store", p |-> p] /\ x.pc = "store" /\ Goto(c, x)
    BY <1>2 DEF BeginSendOtp
  <2>8. QED
    BY <2>6, <2>7, QuietOtps
<1>3. ASSUME NEW p \in Phones, NEW j \in DOMAIN otp[p], OtpExpires(p, j) PROVE OtpInv'
  <2>1. PICK e : e = [otp[p][j] EXCEPT !.live = FALSE]
    OBVIOUS
  <2>2. otp[p][j] \in OtpRow
    BY <1>0, PhoneRows
  <2>3. e \in OtpRow /\ e.verified = otp[p][j].verified
    BY <2>1, <2>2 DEF OtpRow
  <2>4. otp' = [otp EXCEPT ![p][j] = e] /\ UNCHANGED <<opened, req>>
    BY <1>3, <2>1 DEF OtpExpires
  <2>5. /\ otp'[p][j] = e
        /\ \A q \in Phones : DOMAIN otp'[q] = DOMAIN otp[q]
        /\ \A q \in Phones : \A k \in DOMAIN otp[q] : q # p \/ k # j => otp'[q][k] = otp[q][k]
    BY <1>0, <2>3, <2>4, CellWritten DEF TablesTyped
  <2>6. SameOtps
    BY <2>3, <2>4, <2>5
  <2>7. QED
    BY <2>4, <2>6, QuietOtps
<1>4. ASSUME UNCHANGED <<otp, opened>>, NEW c \in Clients, NEW x, Goto(c, x), x.pc \notin {"mark", "verified"}
      PROVE  OtpInv'
  BY <1>1, <1>4, QuietOtps
<1>5. ASSUME UNCHANGED <<otp, opened, req>> PROVE OtpInv'
  BY <1>1, <1>5, QuietOtps
<1> HIDE DEF SameOtps
<1>6. ASSUME NEW c \in Clients, NEW p \in Phones, BeginVerify(c, p) PROVE OtpInv'
  <2>1. PICK x : x.pc = "compare" /\ Goto(c, x)
    BY <1>6 DEF BeginVerify
  <2>2. QED
    BY <1>4, <1>6, <2>1 DEF BeginVerify
<1>7. ASSUME NEW c \in Clients,
             CheckLimit(c) \/ FailOpenAttempts(c) \/ InsertAttempt(c) \/ Strike(c) \/ CommitSignup(c)
             \/ IssueToken(c) \/ CommitLogout(c) \/ CutShort(c)
      PROVE  OtpInv'
  <2>1. \E p : Goto(c, Idle) \/ Goto(c, [pc |-> "fail", p |-> p]) \/ Goto(c, [pc |-> "insert", p |-> p])
    BY <1>7 DEF CheckLimit, FailOpenAttempts, InsertAttempt, Strike, CommitSignup, IssueToken,
                CommitLogout, CutShort, Finish
  <2>2. UNCHANGED <<otp, opened>>
    BY <1>7 DEF CheckLimit, FailOpenAttempts, InsertAttempt, Strike, CommitSignup, IssueToken,
                CommitLogout, CutShort, otpVars
  <2>3. \A p, pc : [pc |-> pc, p |-> p].pc = pc
    OBVIOUS
  <2>4. QED
    BY <1>4, <2>1, <2>2, <2>3, IdleNames
<1>8. ASSUME NEW c \in Clients, CompareWrong(c) PROVE OtpInv'
  <2>1. PICK r, x : r = req[c] /\ r.pc = "compare" /\ x = [r EXCEPT !.pc = "strike"] /\ Goto(c, x)
    BY <1>8 DEF CompareWrong, At
  <2>2. r \in [pc: {"compare", "strike"}, p: Phones, i: Nat, copy: AttemptRow]
    BY <2>1, CallAt, CallMembers
  <2>3. x.pc = "strike"
    BY <2>1, <2>2
  <2>4. QED
    BY <1>4, <1>8, <2>1, <2>3 DEF CompareWrong
<1>9. ASSUME NEW c \in Clients, RevokeToken(c) PROVE OtpInv'
  <2>1. PICK r, x : r = req[c] /\ r.pc = "revoke" /\ x = [r EXCEPT !.pc = "issue"] /\ Goto(c, x)
    BY <1>9 DEF RevokeToken, At
  <2>2. r \in [pc: TokenPcs, t: Nat]
    BY <2>1, CallAt, CallMembers DEF TokenPcs
  <2>3. x.pc = "issue"
    BY <2>1, <2>2
  <2>4. QED
    BY <1>4, <1>9, <2>1, <2>3 DEF RevokeToken, otpVars
<1>10. ASSUME NEW c \in Clients,
              \/ StoreOtp(c) \/ CheckLimit(c) \/ FailOpenAttempts(c) \/ InsertAttempt(c)
              \/ CompareRight(c) \/ CompareWrong(c) \/ MarkVerified(c) \/ OpenSession(c) \/ Strike(c)
              \/ CommitSignup(c) \/ RevokeToken(c) \/ IssueToken(c) \/ CommitLogout(c)
              \/ CutShort(c)
       PROVE  OtpInv'
  BY <1>7, <1>8, <1>9, <1>10, OtpInvStore, OtpInvRight, OtpInvMark, OtpInvOpen
<1>11. ASSUME NEW c \in Clients, NEW s \in session, BeginSignup(c, s[1], s[2]) PROVE OtpInv'
  <2>1. PICK x : x.pc = "signup" /\ Goto(c, x)
    BY <1>11 DEF BeginSignup
  <2>2. QED
    BY <1>4, <1>11, <2>1 DEF BeginSignup, otpVars
<1>12. ASSUME NEW c \in Clients, NEW t \in DOMAIN token, BeginRefresh(c, t) \/ BeginLogout(c, t) PROVE OtpInv'
  <2>1. PICK x : x.pc \in {"revoke", "logout"} /\ Goto(c, x)
    BY <1>12 DEF BeginRefresh, BeginLogout
  <2>2. QED
    BY <1>4, <1>12, <2>1 DEF BeginRefresh, BeginLogout, otpVars
<1>13. CASE \/ \E p \in Phones : Login(p) \/ LoginWithGoogle(p)
            \/ \E p \in Phones : AttemptAges(p)
            \/ \E t \in DOMAIN token : TokenExpires(t)
            \/ UNCHANGED vars
  BY <1>5, <1>13 DEF Login, LoginWithGoogle, AttemptAges, TokenExpires, vars, otpVars
<1>14. QED
  BY <1>2, <1>3, <1>6, <1>10, <1>11, <1>12, <1>13 DEF Next

LEMMA PhoneTypesInvariant == Spec => [](AccountsInv /\ PhoneTypes)
<1>1. PhoneTypes /\ AccountsInv /\ [Next]_vars => PhoneTypes'
  BY TypesStep
<1> QED
  BY <1>1, TypesInit, AccountsInvariant, PTL DEF Spec

\* However the calls interleave, a code opens at most as many sessions as there
\* are calls in flight: those that compared it before the first of them marked it.
THEOREM MarkedCodeIsSpent == Spec => []OtpIsSpent
<1>1. PhoneTypes /\ PhoneTypes' /\ OtpInv /\ [Next]_vars => OtpInv'
  BY OtpInvStep
<1>2. ASSUME PhoneTypes, OtpInv PROVE OtpIsSpent
  <2>1. SUFFICES ASSUME NEW p \in Phones, NEW j \in DOMAIN otp[p]
                 PROVE  opened[p][j] <= Cardinality(Clients)
    BY DEF OtpIsSpent
  <2>2. opened[p][j] \in Nat /\ Cardinality(Clients) \in Nat
    BY <1>2, PhoneRows, FS_CardinalityType, AccountsAssumption DEF PhoneTypes
  <2>3. Cardinality(Holding(p, j)) \in Nat
    BY HoldingIsFinite DEF Holding
  <2>4. opened[p][j] + Cardinality(Holding(p, j)) <= Cardinality(Clients)
    BY <1>2 DEF OtpInv, Spent
  <2>5. QED
    BY <2>2, <2>3, <2>4
<1> QED
  BY <1>1, <1>2, OtpInvInit, PhoneTypesInvariant, PTL DEF Spec

(***************************************************************************)
(* The lockout of a phone whose calls come one after another               *)
(***************************************************************************)
On(x, p) == x.pc \in OtpPcs /\ x.p = p
Open(p, i) == attempt[p][i].stage = "otp_sent"

\* What a call knows holds of the rows it read, and a request that got past the
\* limit leaves room for one more attempt of the hour.
Fits(x, p) ==
    /\ x.pc \in VerifyPcs =>
          Open(p, x.i) /\ x.copy.stage = "otp_sent" /\ x.copy.strikes = attempt[p][x.i].strikes
    /\ x.pc = "fail" => Cardinality(RecentFailures(p)) < MaxFailures
    /\ x.pc = "insert" =>
          Cardinality(Unanswered(p)) <= MaxFailures /\ \A i \in DOMAIN attempt[p] : ~Open(p, i)

\* A wrong code is a strike, or will be one when its call saves the attempt.
Tally(p, i) ==
    /\ guesses[p][i] <= MaxStrikes
    /\ Open(p, i) =>
          /\ attempt[p][i].strikes < MaxStrikes
          /\ \/ guesses[p][i] <= attempt[p][i].strikes
             \/ /\ guesses[p][i] <= attempt[p][i].strikes + 1
                /\ \E c \in Clients : On(req[c], p) /\ req[c].pc = "strike" /\ req[c].i = i
    /\ <<p, i>> \in session => ~Open(p, i)

Lockout(p) ==
    /\ \A c, d \in Clients : On(req[c], p) /\ On(req[d], p) => c = d
    /\ \A c \in Clients : On(req[c], p) => Fits(req[c], p)
    /\ \A i \in DOMAIN attempt[p] : Tally(p, i)
    /\ \A i, k \in DOMAIN attempt[p] : Open(p, i) /\ Open(p, k) => i = k
    /\ Cardinality(Unanswered(p)) <= MaxFailures + 1

Secure(p) == p \notin disturbed => Lockout(p)

LEMMA RowsAreFinite ==
    ASSUME TablesTyped, NEW p \in Phones, NEW S, S \subseteq DOMAIN attempt[p]
    PROVE  IsFiniteSet(S) /\ Cardinality(S) \in Nat
<1>1. Len(attempt[p]) \in Nat /\ DOMAIN attempt[p] = 1..Len(attempt[p])
  BY PhoneRows, LenProperties
<1>2. IsFiniteSet(DOMAIN attempt[p])
  BY <1>1, FS_Interval
<1>3. QED
  BY <1>2, FS_Subset, FS_CardinalityType

\* Steps that leave the calls about the phone alone and at most complete an
\* answered attempt or let one grow old.
LEMMA LockoutKept ==
    ASSUME PhoneTypes, NEW p \in Phones, Secure(p), disturbed \subseteq disturbed',
           \A c \in Clients : On(req'[c], p) \/ On(req[c], p) => req'[c] = req[c],
           DOMAIN attempt'[p] = DOMAIN attempt[p], guesses'[p] = guesses[p],
           \A i \in DOMAIN attempt[p] :
              /\ \/ attempt'[p][i].stage = attempt[p][i].stage
                 \/ attempt'[p][i].stage = "completed" /\ ~Open(p, i)
              /\ attempt'[p][i].strikes = attempt[p][i].strikes
              /\ attempt'[p][i].recent => attempt[p][i].recent,
           \A i \in DOMAIN attempt[p] : <<p, i>> \in session' => <<p, i>> \in session
    PROVE  Secure(p)'
<1>0. TablesTyped
  BY DEF PhoneTypes
<1>1. SUFFICES ASSUME Lockout(p) PROVE Lockout(p)'
  BY DEF Secure
<1>2. \A i \in DOMAIN attempt[p] : attempt'[p][i].stage = "otp_sent" <=> Open(p, i)
  BY DEF Open
<1>3. PICK U, V, R, Q :
          /\ U = Unanswered(p) /\ R = RecentFailures(p)
          /\ V = {i \in DOMAIN attempt'[p] : /\ attempt'[p][i].recent
                                             /\ attempt'[p][i].stage \in {"otp_sent", "failed"}}
          /\ Q = {i \in DOMAIN attempt'[p] : attempt'[p][i].stage = "failed" /\ attempt'[p][i].recent}
  OBVIOUS
<1>4. V = Unanswered(p)' /\ Q = RecentFailures(p)'
  BY <1>3 DEF Unanswered, RecentFailures
<1>5. V \subseteq U /\ U \subseteq DOMAIN attempt[p] /\ Q \subseteq R /\ R \subseteq DOMAIN attempt[p]
  <2>1. V \subseteq U
    BY <1>3 DEF Unanswered
  <2>2. Q \subseteq R
    BY <1>3 DEF RecentFailures
  <2>3. QED
    BY <1>3, <2>1, <2>2 DEF Unanswered, RecentFailures
<1>6. /\ Cardinality(V) <= Cardinality(U) /\ Cardinality(V) \in Nat /\ Cardinality(U) \in Nat
      /\ Cardinality(Q) <= Cardinality(R) /\ Cardinality(Q) \in Nat /\ Cardinality(R) \in Nat
  <2>1. IsFiniteSet(U) /\ IsFiniteSet(R) /\ Cardinality(U) \in Nat /\ Cardinality(R) \in Nat
    BY <1>0, <1>5, RowsAreFinite
  <2>2. QED
    BY <1>5, <2>1, FS_Subset, FS_CardinalityType
<1>7. \A c, d \in Clients : On(req'[c], p) /\ On(req'[d], p) => c = d
  BY <1>1 DEF Lockout
<1>8. ASSUME NEW c \in Clients, On(req'[c], p) PROVE Fits(req[c], p)' /\ req'[c] = req[c]
  <2>1. PICK x : x = req[c] /\ x = req'[c] /\ On(x, p) /\ Fits(x, p)
    BY <1>1, <1>8 DEF Lockout
  <2>2. x.pc \in VerifyPcs => x.i \in DOMAIN attempt[p]
    BY <2>1, Verifying DEF On
  <2>3. x.pc \in VerifyPcs =>
            attempt'[p][x.i].stage = "otp_sent" /\ x.copy.strikes = attempt'[p][x.i].strikes
    BY <1>2, <2>1, <2>2 DEF Fits
  <2>4. x.pc = "fail" => Cardinality(Q) < MaxFailures
    BY <1>3, <1>6, <2>1, AccountsAssumption DEF Fits
  <2>5. x.pc = "insert" => Cardinality(V) <= MaxFailures /\ \A i \in DOMAIN attempt'[p] : ~(attempt'[p][i].stage = "otp_sent")
    BY <1>2, <1>3, <1>6, <2>1, AccountsAssumption DEF Fits
  <2>6. Fits(x, p)'
    BY <1>4, <2>1, <2>3, <2>4, <2>5 DEF Fits, Open
  <2>7. QED
    BY <2>1, <2>6 DEF Fits, Open
<1>9. ASSUME NEW i \in DOMAIN attempt[p] PROVE Tally(p, i)'
  <2>1. Tally(p, i)
    BY <1>1 DEF Lockout
  <2>2. ASSUME NEW c \in Clients, On(req[c], p), req[c].pc = "strike", req[c].i = i
        PROVE  On(req'[c], p) /\ req'[c].pc = "strike" /\ req'[c].i = i
    BY <2>2
  <2>3. QED
    BY <1>2, <2>1, <2>2 DEF Tally, Open, On
<1>10. \A i, k \in DOMAIN attempt'[p] :
           attempt'[p][i].stage = "otp_sent" /\ attempt'[p][k].stage = "otp_sent" => i = k
  BY <1>1, <1>2 DEF Lockout
<1>11. Cardinality(V) <= MaxFailures + 1
  BY <1>1, <1>3, <1>6, AccountsAssumption DEF Lockout
<1>12. \A c \in Clients : (On(req[c], p) => Fits(req[c], p))'
  BY <1>8 DEF On, Fits, Open
<1>13. QED
  BY <1>4, <1>7, <1>9, <1>10, <1>11, <1>12 DEF Lockout, On, Open

\* A step of the one call about the phone that writes no row of it.
LEMMA LockoutMoved ==
    ASSUME PhoneTypes, NEW p \in Phones, NEW c \in Clients, NEW x, Goto(c, x), Lockout(p),
           UNCHANGED <<attempt, session, guesses>>,
           \A d \in Clients : On(req[d], p) => d = c,
           On(req[c], p) => req[c].pc # "strike",
           On(x, p) => Fits(x, p)
    PROVE  Lockout(p)'
<1>1. req'[c] = x /\ \A d \in Clients : d # c => req'[d] = req[d]
  BY DEF Goto, PhoneTypes, CallsTyped
<1>2. \A d \in Clients : On(req'[d], p) => d = c
  BY <1>1
<1>3. ASSUME On(req'[c], p) PROVE Fits(x, p)'
  BY <1>1, <1>3 DEF Fits, Open, RecentFailures, Unanswered
<1>4. ASSUME NEW i \in DOMAIN attempt[p] PROVE Tally(p, i)'
  <2>1. Tally(p, i)
    BY DEF Lockout
  <2>2. ~\E d \in Clients : On(req[d], p) /\ req[d].pc = "strike" /\ req[d].i = i
    OBVIOUS
  <2>3. QED
    BY <2>1, <2>2 DEF Tally, Open
<1>5. \A d \in Clients : (On(req[d], p) => Fits(req[d], p))'
  BY <1>1, <1>2, <1>3 DEF On, Fits, Open
<1>6. QED
  BY <1>2, <1>4, <1>5 DEF Lockout, On, Open, Unanswered

LEMMA BeginsSecure ==
    ASSUME PhoneTypes, NEW c \in Clients, NEW p \in Phones, Secure(p),
           BeginSendOtp(c, p) \/ BeginVerify(c, p)
    PROVE  Secure(p)'
<1>0. TablesTyped
  BY DEF PhoneTypes
<1>1. disturbed' = IF Busy(p) THEN disturbed \union {p} ELSE disturbed
  BY DEF BeginSendOtp, BeginVerify, Enter
<1>2. SUFFICES ASSUME ~Busy(p), Lockout(p) PROVE Lockout(p)'
  BY <1>1 DEF Secure
<1>3. \A d \in Clients : ~On(req[d], p)
  BY <1>2 DEF Busy, On
<1>4. UNCHANGED <<attempt, session, guesses>>
  BY DEF BeginSendOtp, BeginVerify
<1>5. CASE BeginSendOtp(c, p)
  <2>1. PICK x : x = [pc |-> "store", p |-> p] /\ Goto(c, x)
    BY <1>5 DEF BeginSendOtp
  <2>2. Fits(x, p)
    BY <2>1 DEF Fits, VerifyPcs
  <2>3. QED
    BY <1>2, <1>3, <1>4, <2>1, <2>2, LockoutMoved
<1>6. CASE BeginVerify(c, p)
  <2>1. PICK S, i, x :
            /\ S = {k \in DOMAIN attempt[p] : attempt[p][k].stage = "otp_sent"} /\ i = Latest(S) /\ i # 0
            /\ x = [pc |-> "compare", p |-> p, i |-> i, copy |-> attempt[p][i]] /\ Goto(c, x)
    BY <1>6 DEF BeginVerify
  <2>2. i \in S
    BY <1>0, <2>1, PhoneRows, LatestIsOne
  <2>3. Fits(x, p)
    BY <2>1, <2>2 DEF Fits, Open
  <2>4. QED
    BY <1>2, <1>3, <1>4, <2>1, <2>3, LockoutMoved
<1>7. QED
  BY <1>5, <1>6

\* The phone of an OTP call, which no other call is about while it is secure.
LEMMA AboutPhone ==
    ASSUME PhoneTypes, NEW c \in Clients, req[c].pc \in OtpPcs
    PROVE  /\ req[c].p \in Phones /\ On(req[c], req[c].p)
           /\ Lockout(req[c].p) =>
                 Fits(req[c], req[c].p) /\ \A d \in Clients : On(req[d], req[c].p) => d = c
<1>1. req[c].p \in Phones
  BY CallAt, CallMembers DEF OtpPcs, SendPcs, VerifyPcs
<1>2. On(req[c], req[c].p)
  BY DEF On
<1>3. QED
  BY <1>1, <1>2 DEF Lockout

LEMMA MovesSecure ==
    ASSUME PhoneTypes, NEW c \in Clients, NEW p, p = req[c].p, Secure(p),
           StoreOtp(c) \/ CheckLimit(c) \/ CompareRight(c) \/ MarkVerified(c)
    PROVE  Secure(p)'
<1>0. TablesTyped
  BY DEF PhoneTypes
<1>1. req[c].pc \in {"store", "limit", "compare", "mark"}
  BY DEF StoreOtp, CheckLimit, CompareRight, MarkVerified, At
<1>2. p \in Phones /\ On(req[c], p)
  BY <1>1, AboutPhone DEF OtpPcs
<1>3. UNCHANGED <<attempt, session, guesses, disturbed>>
  BY DEF StoreOtp, CheckLimit, CompareRight, MarkVerified, otpVars
<1>4. SUFFICES ASSUME Lockout(p) PROVE Lockout(p)'
  BY <1>3 DEF Secure
<1>5. Fits(req[c], p) /\ \A d \in Clients : On(req[d], p) => d = c
  BY <1>1, <1>4, AboutPhone DEF OtpPcs
<1>6. ASSUME NEW x, Goto(c, x), On(x, p) => Fits(x, p) PROVE Lockout(p)'
  BY <1>1, <1>2, <1>3, <1>4, <1>5, <1>6, LockoutMoved
<1>7. CASE StoreOtp(c)
  <2>1. PICK x : x = [pc |-> "limit", p |-> p] /\ Goto(c, x)
    BY <1>7 DEF StoreOtp
  <2>2. Fits(x, p)
    BY <2>1 DEF Fits, VerifyPcs
  <2>3. QED
    BY <1>6, <2>1, <2>2
<1>8. CASE CheckLimit(c)
  <2>1. CASE Goto(c, Idle)
    BY <1>6, <2>1, IdleNames DEF On, OtpPcs
  <2>2. CASE ~Goto(c, Idle)
    <3>1. PICK R : R = RecentFailures(p)
      OBVIOUS
    <3>2. Cardinality(R) \in Nat
      BY <1>0, <1>2, <3>1, RowsAreFinite DEF RecentFailures
    <3>3. PICK x : /\ x = [pc |-> "fail", p |-> p] /\ Goto(c, x)
                   /\ ~(Cardinality(RecentFailures(p)) >= MaxFailures)
      BY <1>8, <2>2 DEF CheckLimit, Finish
    <3>4. Cardinality(RecentFailures(p)) < MaxFailures
      BY <3>1, <3>2, <3>3, AccountsAssumption
    <3>5. Fits(x, p)
      BY <3>3, <3>4 DEF Fits, VerifyPcs
    <3>6. QED
      BY <1>6, <3>3, <3>5
  <2>3. QED
    BY <2>1, <2>2
<1>9. CASE CompareRight(c)
  <2>1. PICK r, x, j : /\ r = req[c] /\ r.pc = "compare" /\ Goto(c, x)
                       /\ x = [pc |-> "mark", p |-> r.p, i |-> r.i, copy |-> r.copy, j |-> j]
    BY <1>9 DEF CompareRight, At
  <2>2. x.pc = "mark" /\ x.i = r.i /\ x.copy = r.copy
    BY <2>1
  <2>3. Fits(x, p)
    BY <1>5, <2>1, <2>2 DEF Fits, VerifyPcs
  <2>4. QED
    BY <1>6, <2>1, <2>3
<1>10. CASE MarkVerified(c)
  <2>1. PICK r, x : r = req[c] /\ r.pc = "mark" /\ x = [r EXCEPT !.pc = "verified"] /\ Goto(c, x)
    BY <1>10 DEF MarkVerified, At
  <2>2. r \in [pc: {"mark", "verified"}, p: Phones, i: Nat, copy: AttemptRow, j: Nat]
    BY <2>1, CallAt, CallMembers
  <2>3. x.pc = "verified" /\ x.i = r.i /\ x.copy = r.copy
    BY <2>1, <2>2
  <2>4. Fits(x, p)
    BY <1>5, <2>1, <2>3 DEF Fits, VerifyPcs
  <2>5. QED
    BY <1>6, <2>1, <2>4
<1>11. QED
  BY <1>7, <1>8, <1>9, <1>10

\* A wrong code is counted as the call goes to save its strike.
LEMMA WrongSecure ==
    ASSUME PhoneTypes, NEW c \in Clients, NEW p, p = req[c].p, Secure(p), CompareWrong(c)
    PROVE  Secure(p)'
<1>0. TablesTyped
  BY DEF PhoneTypes
<1>1. PICK r, x : r = req[c] /\ r.pc = "compare" /\ x = [r EXCEPT !.pc = "strike"] /\ Goto(c, x)
  BY DEF CompareWrong, At
<1>2. r \in [pc: {"compare", "strike"}, p: Phones, i: Nat, copy: AttemptRow]
  BY <1>1, CallAt, CallMembers
<1>3. x.pc = "strike" /\ x.p = p /\ x.i = r.i /\ x.copy = r.copy
  BY <1>1, <1>2
<1>4. p \in Phones /\ On(r, p) /\ On(x, p)
  BY <1>1, <1>2, <1>3 DEF On, OtpPcs
<1>5. UNCHANGED <<attempt, session, disturbed>>
  BY DEF CompareWrong
<1>6. SUFFICES ASSUME p \notin disturbed, Lockout(p) PROVE Lockout(p)'
  BY <1>5 DEF Secure
<1>7. Fits(r, p) /\ \A d \in Clients : On(req[d], p) => d = c
  BY <1>1, <1>6, AboutPhone DEF OtpPcs
<1>8. PICK i : i = r.i /\ i \in DOMAIN attempt[p] /\ Open(p, i)
  BY <1>1, <1>7, Verifying DEF Fits, VerifyPcs
<1>9. req'[c] = x /\ \A d \in Clients : d # c => req'[d] = req[d]
  BY <1>1 DEF Goto, PhoneTypes, CallsTyped
<1>10. \A k \in DOMAIN attempt[p] : guesses[p][k] \in Nat /\ attempt[p][k].strikes \in Nat
  <2>1. \A k \in DOMAIN attempt[p] : guesses[p][k] \in Nat /\ attempt[p][k] \in AttemptRow
    BY <1>0, <1>4, PhoneRows
  <2>2. \A a \in AttemptRow : a.strikes \in Nat
    BY AccountsAssumption DEF AttemptRow
  <2>3. QED
    BY <2>1, <2>2
<1>11. ASSUME NEW k \in DOMAIN attempt[p], Open(p, k)
       PROVE  guesses[p][k] <= attempt[p][k].strikes /\ attempt[p][k].strikes < MaxStrikes
  <2>1. Tally(p, k)
    BY <1>6 DEF Lockout
  <2>2. ~\E d \in Clients : On(req[d], p) /\ req[d].pc = "strike" /\ req[d].i = k
    BY <1>1, <1>7
  <2>3. QED
    BY <1>11, <2>1, <2>2 DEF Tally
<1>12. PICK n : n = Min({guesses[p][i] + 1, MaxStrikes + 1})
  OBVIOUS
<1>13. n \in Nat /\ n <= guesses[p][i] + 1
  <2>1. guesses[p][i] + 1 \in Nat /\ MaxStrikes + 1 \in Nat
    BY <1>8, <1>10, AccountsAssumption
  <2>2. QED
    BY <1>12, <2>1, LesserOf
<1>14. guesses' = guesses \/ guesses' = [guesses EXCEPT ![p][i] = n]
  BY <1>1, <1>8, <1>12 DEF CompareWrong
<1>15. \A k \in DOMAIN attempt[p] : k # i => guesses'[p][k] = guesses[p][k]
  BY <1>0, <1>4, <1>14, PhoneRows DEF TablesTyped
<1>16. guesses'[p][i] \in Nat /\ guesses'[p][i] <= guesses[p][i] + 1
  <2>1. i \in DOMAIN guesses[p] /\ guesses \in [Phones -> Seq(Nat)]
    BY <1>0, <1>4, <1>8, PhoneRows DEF TablesTyped
  <2>2. CASE guesses' = guesses
    BY <1>8, <1>10, <2>2
  <2>3. CASE guesses' = [guesses EXCEPT ![p][i] = n]
    BY <1>4, <1>13, <2>1, <2>3, CellWritten
  <2>4. QED
    BY <1>14, <2>2, <2>3
<1>17. ASSUME NEW k \in DOMAIN attempt[p] PROVE Tally(p, k)'
  <2>1. Tally(p, k)
    BY <1>6 DEF Lockout
  <2>2. CASE k # i
    <3>1. Open(p, k) => guesses'[p][k] <= attempt'[p][k].strikes /\ attempt'[p][k].strikes < MaxStrikes
      BY <1>5, <1>11, <1>15, <2>2
    <3>2. QED
      BY <1>5, <1>15, <2>1, <2>2, <3>1 DEF Tally, Open
  <2>3. CASE k = i
    <3>1. guesses[p][i] <= attempt[p][i].strikes /\ attempt[p][i].strikes < MaxStrikes
      BY <1>8, <1>11
    <3>2. guesses'[p][i] <= attempt'[p][i].strikes + 1 /\ guesses'[p][i] <= MaxStrikes
      BY <1>5, <1>8, <1>10, <1>16, <3>1, AccountsAssumption
    <3>3. On(req'[c], p) /\ req'[c].pc = "strike" /\ req'[c].i = i
      BY <1>3, <1>4, <1>8, <1>9
    <3>4. attempt'[p][i].strikes < MaxStrikes /\ <<p, i>> \notin session'
      BY <1>5, <1>8, <2>1, <2>3, <3>1 DEF Tally
    <3>5. QED
      BY <2>3, <3>2, <3>3, <3>4 DEF Tally, On
  <2>4. QED
    BY <2>2, <2>3
<1>18. \A d \in Clients : On(req'[d], p) => d = c
  BY <1>7, <1>9
<1>19. Fits(x, p)'
  BY <1>1, <1>3, <1>5, <1>7 DEF Fits, Open, VerifyPcs
<1>20. \A d \in Clients : (On(req[d], p) => Fits(req[d], p))'
  BY <1>9, <1>18, <1>19 DEF On, Fits, Open
<1>21. QED
  BY <1>5, <1>6, <1>17, <1>18, <1>20 DEF Lockout, On, Open, Unanswered

\* A call that answers, or strikes, the open attempt and ends.
LEMMA LockoutEnds ==
    ASSUME PhoneTypes, NEW p \in Phones, NEW c \in Clients, Goto(c, Idle), Lockout(p),
           On(req[c], p), req[c].pc \in VerifyPcs, NEW i, i = req[c].i,
           DOMAIN attempt'[p] = DOMAIN attempt[p], guesses'[p] = guesses[p],
           \A k \in DOMAIN attempt[p] : k # i => attempt'[p][k] = attempt[p][k],
           attempt'[p][i].recent = attempt[p][i].recent,
           attempt'[p][i].stage = "otp_sent" =>
              /\ attempt'[p][i].strikes < MaxStrikes
              /\ guesses[p][i] <= attempt'[p][i].strikes,
           \A k : <<p, k>> \in session' =>
              <<p, k>> \in session \/ (k = i /\ attempt'[p][i].stage # "otp_sent")
    PROVE  Lockout(p)'
<1>0. TablesTyped
  BY DEF PhoneTypes
<1>1. Fits(req[c], p) /\ \A d \in Clients : On(req[d], p) => d = c
  BY DEF Lockout
<1>2. i \in DOMAIN attempt[p] /\ Open(p, i) /\ <<p, i>> \notin session
  <2>1. i \in DOMAIN attempt[p] /\ Open(p, i)
    BY <1>1, Verifying DEF On, Fits
  <2>2. Tally(p, i)
    BY <2>1 DEF Lockout
  <2>3. QED
    BY <2>1, <2>2 DEF Tally
<1>3. \A d \in Clients : ~On(req'[d], p)
  <2>1. req'[c] = Idle /\ \A d \in Clients : d # c => req'[d] = req[d]
    BY DEF Goto, PhoneTypes, CallsTyped
  <2>2. QED
    BY <1>1, <2>1, IdleNames DEF On, OtpPcs
<1>4. ASSUME NEW k \in DOMAIN attempt[p] PROVE Tally(p, k)'
  <2>1. Tally(p, k)
    BY DEF Lockout
  <2>2. CASE k = i
    BY <1>2, <2>1, <2>2 DEF Tally, Open
  <2>3. CASE k # i
    <3>1. attempt'[p][k] = attempt[p][k] /\ (<<p, k>> \in session' => <<p, k>> \in session)
      BY <2>3
    <3>2. ~\E d \in Clients : On(req[d], p) /\ req[d].pc = "strike" /\ req[d].i = k
      BY <1>1, <2>3
    <3>3. QED
      BY <2>1, <3>1, <3>2 DEF Tally, Open
  <2>4. QED
    BY <2>2, <2>3
<1>5. \A k, m \in DOMAIN attempt'[p] :
          attempt'[p][k].stage = "otp_sent" /\ attempt'[p][m].stage = "otp_sent" => k = m
  <2>1. \A k \in DOMAIN attempt[p] : attempt'[p][k].stage = "otp_sent" => Open(p, k)
    BY <1>2 DEF Open
  <2>2. QED
    BY <2>1 DEF Lockout
<1>6. PICK U, V :
          /\ U = Unanswered(p)
          /\ V = {k \in DOMAIN attempt'[p] : /\ attempt'[p][k].recent
                                             /\ attempt'[p][k].stage \in {"otp_sent", "failed"}}
  OBVIOUS
<1>7. V \subseteq U /\ U \subseteq DOMAIN attempt[p]
  <2>1. ASSUME NEW k \in V PROVE k \in U
    <3>1. CASE k = i
      BY <1>2, <1>6, <2>1, <3>1 DEF Unanswered, Open
    <3>2. CASE k # i
      BY <1>6, <2>1, <3>2 DEF Unanswered
    <3>3. QED
      BY <3>1, <3>2
  <2>2. QED
    BY <1>6, <2>1 DEF Unanswered
<1>8. Cardinality(V) <= MaxFailures + 1
  <2>1. IsFiniteSet(U) /\ Cardinality(U) \in Nat
    BY <1>0, <1>7, RowsAreFinite
  <2>2. Cardinality(V) <= Cardinality(U) /\ Cardinality(V) \in Nat
    BY <1>7, <2>1, FS_Subset, FS_CardinalityType
  <2>3. QED
    BY <1>6, <2>1, <2>2, AccountsAssumption DEF Lockout
<1>9. V = Unanswered(p)'
  BY <1>6 DEF Unanswered
<1>10. QED
  BY <1>3, <1>4, <1>5, <1>8, <1>9 DEF Lockout, On, Open

LEMMA SavesSecure ==
    ASSUME PhoneTypes, NEW c \in Clients, NEW p, p = req[c].p, Secure(p),
           OpenSession(c) \/ Strike(c)
    PROVE  Secure(p)'
<1>0. TablesTyped
  BY DEF PhoneTypes
<1>1. PICK r : r = req[c] /\ r.pc \in {"verified", "strike"}
  BY DEF OpenSession, Strike, At
<1>2. p \in Phones /\ On(r, p) /\ r.copy \in AttemptRow /\ r.pc \in VerifyPcs
  BY <1>1, Verifying DEF On, OtpPcs, VerifyPcs
<1>3. UNCHANGED <<guesses, disturbed>> /\ Goto(c, Idle)
  BY DEF OpenSession, Strike, Finish
<1>4. SUFFICES ASSUME Lockout(p) PROVE Lockout(p)'
  BY <1>3 DEF Secure
<1>5. Fits(r, p) /\ \A d \in Clients : On(req[d], p) => d = c
  BY <1>1, <1>2, <1>4 DEF Lockout
<1>6. PICK i : i = r.i /\ i \in DOMAIN attempt[p] /\ Open(p, i)
  BY <1>1, <1>2, <1>5, Verifying DEF Fits
<1>7. ASSUME NEW e \in AttemptRow, SaveAttempt(r, e)
      PROVE  /\ DOMAIN attempt'[p] = DOMAIN attempt[p]
             /\ \A k \in DOMAIN attempt[p] : k # i => attempt'[p][k] = attempt[p][k]
             /\ attempt'[p][i].recent = attempt[p][i].recent
             /\ attempt'[p][i].stage = e.stage /\ attempt'[p][i].strikes = e.strikes
  <2>1. PICK f : f = [e EXCEPT !.recent = attempt[p][i].recent]
    OBVIOUS
  <2>2. attempt[p][i] \in AttemptRow
    BY <1>0, <1>2, <1>6, PhoneRows
  <2>3. f \in AttemptRow /\ f.recent = attempt[p][i].recent /\ f.stage = e.stage /\ f.strikes = e.strikes
    BY <2>1, <2>2 DEF AttemptRow
  <2>4. attempt' = [attempt EXCEPT ![p][i] = f]
    BY <1>1, <1>6, <1>7, <2>1 DEF SaveAttempt
  <2>5. attempt \in [Phones -> Seq(AttemptRow)]
    BY <1>0 DEF TablesTyped
  <2>6. /\ attempt'[p][i] = f /\ DOMAIN attempt'[p] = DOMAIN attempt[p]
        /\ \A k \in DOMAIN attempt[p] : k # i => attempt'[p][k] = attempt[p][k]
    BY <1>2, <1>6, <2>3, <2>4, <2>5, CellWritten
  <2>7. QED
    BY <2>3, <2>6
<1>11. ASSUME NEW e \in AttemptRow, SaveAttempt(r, e),
              e.stage = "otp_sent" => e.strikes < MaxStrikes /\ guesses[p][i] <= e.strikes,
              \A k : <<p, k>> \in session' => <<p, k>> \in session \/ (k = i /\ e.stage # "otp_sent")
       PROVE  Lockout(p)'
  <2>1. On(req[c], p) /\ req[c].pc \in VerifyPcs /\ i = req[c].i /\ p \in Phones
    BY <1>1, <1>2, <1>6
  <2>2. /\ DOMAIN attempt'[p] = DOMAIN attempt[p] /\ guesses'[p] = guesses[p]
        /\ \A k \in DOMAIN attempt[p] : k # i => attempt'[p][k] = attempt[p][k]
        /\ attempt'[p][i].recent = attempt[p][i].recent
        /\ attempt'[p][i].stage = e.stage /\ attempt'[p][i].strikes = e.strikes
    BY <1>3, <1>7, <1>11
  <2>3. attempt'[p][i].stage = "otp_sent" =>
            attempt'[p][i].strikes < MaxStrikes /\ guesses[p][i] <= attempt'[p][i].strikes
    BY <1>11, <2>2
  <2>4. \A k : <<p, k>> \in session' =>
            <<p, k>> \in session \/ (k = i /\ attempt'[p][i].stage # "otp_sent")
    BY <1>11, <2>2
  <2>5. QED
    BY <1>3, <1>4, <2>1, <2>2, <2>3, <2>4, LockoutEnds
<1>8. CASE OpenSession(c)
  <2>1. PICK e : e = [r.copy EXCEPT !.stage = "otp_verified"] /\ SaveAttempt(r, e)
    BY <1>1, <1>8 DEF OpenSession
  <2>2. e \in AttemptRow /\ e.stage = "otp_verified"
    BY <1>2, <2>1 DEF AttemptRow
  <2>3. session' = session \union {<<p, i>>}
    BY <1>1, <1>6, <1>8 DEF OpenSession
  <2>4. QED
    BY <1>11, <2>1, <2>2, <2>3
<1>9. CASE Strike(c)
  <2>1. r.pc = "strike" /\ UNCHANGED session
    BY <1>1, <1>9 DEF Strike, At
  <2>2. PICK a \in AttemptRow : a = r.copy
    BY <1>2
  <2>3. PICK e : /\ SaveAttempt(r, e)
                 /\ e = IF a.strikes + 1 >= MaxStrikes
                        THEN [a EXCEPT !.stage = "failed", !.strikes = 0]
                        ELSE [a EXCEPT !.strikes = a.strikes + 1]
    BY <1>1, <1>9, <2>2 DEF Strike
  <2>4. a.strikes \in Nat /\ a.strikes = attempt[p][i].strikes
    BY <1>2, <1>5, <1>6, <2>2, AccountsAssumption DEF AttemptRow, Fits
  <2>5. guesses[p][i] \in Nat /\ guesses[p][i] <= a.strikes + 1
    <3>1. Tally(p, i) /\ guesses[p][i] \in Nat
      BY <1>0, <1>2, <1>4, <1>6, PhoneRows DEF Lockout
    <3>2. QED
      BY <1>6, <2>4, <3>1 DEF Tally
  <2>6. CASE a.strikes + 1 >= MaxStrikes
    <3>1. e \in AttemptRow /\ e.stage = "failed"
      BY <2>2, <2>3, <2>6, FailedRow
    <3>2. QED
      BY <1>11, <2>1, <2>3, <3>1
  <2>7. CASE ~(a.strikes + 1 >= MaxStrikes)
    <3>1. a.strikes + 1 \in 0..MaxStrikes /\ a.strikes + 1 < MaxStrikes
      BY <2>4, <2>7, AccountsAssumption
    <3>2. e = [a EXCEPT !.strikes = a.strikes + 1]
      BY <2>3, <2>7
    <3>3. e \in AttemptRow /\ e.strikes = a.strikes + 1
      BY <3>1, <3>2, StruckRow
    <3>4. QED
      BY <1>11, <2>1, <2>3, <2>5, <3>1, <3>3
  <2>8. QED
    BY <2>6, <2>7
<1>10. QED
  BY <1>8, <1>9

\* The open attempt fails, which leaves the unanswered ones what they were.
LEMMA FailSecure ==
    ASSUME PhoneTypes, NEW c \in Clients, NEW p, p = req[c].p, Secure(p), FailOpenAttempts(c)
    PROVE  Secure(p)'
<1>0. TablesTyped
  BY DEF PhoneTypes
<1>1. req[c].pc = "fail"
  BY DEF FailOpenAttempts, At
<1>2. p \in Phones /\ On(req[c], p)
  BY <1>1, AboutPhone DEF OtpPcs
<1>3. UNCHANGED <<session, guesses, disturbed>>
  BY DEF FailOpenAttempts
<1>4. SUFFICES ASSUME Lockout(p) PROVE Lockout(p)'
  BY <1>3 DEF Secure
<1>5. Fits(req[c], p) /\ \A d \in Clients : On(req[d], p) => d = c
  BY <1>2, <1>4 DEF Lockout
<1>6. PICK x : x = [pc |-> "insert", p |-> p] /\ Goto(c, x)
  BY DEF FailOpenAttempts
<1>7. req'[c] = x /\ \A d \in Clients : d # c => req'[d] = req[d]
  BY <1>6 DEF Goto, PhoneTypes, CallsTyped
<1>8. PICK r : r = [k \in DOMAIN attempt[p] |->
                      IF attempt[p][k].stage = "otp_sent"
                      THEN [attempt[p][k] EXCEPT !.stage = "failed", !.strikes = 0]
                      ELSE attempt[p][k]]
  OBVIOUS
<1>9. /\ DOMAIN attempt'[p] = DOMAIN attempt[p]
      /\ \A k \in DOMAIN attempt[p] :
            /\ attempt'[p][k].stage = IF Open(p, k) THEN "failed" ELSE attempt[p][k].stage
            /\ attempt'[p][k].recent = attempt[p][k].recent
  <2>1. attempt' = [attempt EXCEPT ![p] = r]
    BY <1>8 DEF FailOpenAttempts
  <2>2. attempt'[p] = r
    BY <1>0, <1>2, <2>1 DEF TablesTyped
  <2>3. ASSUME NEW k \in DOMAIN attempt[p]
        PROVE  /\ r[k].stage = IF Open(p, k) THEN "failed" ELSE attempt[p][k].stage
               /\ r[k].recent = attempt[p][k].recent
    <3>1. PICK a \in AttemptRow : a = attempt[p][k]
      BY <1>0, <1>2, PhoneRows
    <3>2. PICK e : e = [a EXCEPT !.stage = "failed", !.strikes = 0]
      OBVIOUS
    <3>3. e.stage = "failed" /\ e.recent = a.recent
      BY <3>2, FailedRow
    <3>4. r[k] = IF Open(p, k) THEN e ELSE a
      BY <1>8, <3>1, <3>2 DEF Open
    <3>5. QED
      BY <3>1, <3>3, <3>4
  <2>4. QED
    BY <1>8, <2>2, <2>3
<1>10. \A k \in DOMAIN attempt'[p] : ~(attempt'[p][k].stage = "otp_sent")
  BY <1>9 DEF Open
<1>11. PICK U, V, R, O :
           /\ U = Unanswered(p) /\ R = RecentFailures(p) /\ O = {k \in DOMAIN attempt[p] : Open(p, k)}
           /\ V = {k \in DOMAIN attempt'[p] : /\ attempt'[p][k].recent
                                              /\ attempt'[p][k].stage \in {"otp_sent", "failed"}}
  OBVIOUS
<1>12. V = Unanswered(p)'
  BY <1>11 DEF Unanswered
<1>13. V \subseteq R \union O /\ R \subseteq DOMAIN attempt[p] /\ O \subseteq DOMAIN attempt[p]
  <2>1. \A k \in DOMAIN attempt[p] : ~Open(p, k) => attempt[p][k].stage # "otp_sent"
    BY DEF Open
  <2>2. ASSUME NEW k \in V, k \notin O PROVE k \in R
    <3>1. k \in DOMAIN attempt[p] /\ ~Open(p, k)
      BY <1>9, <1>11, <2>2
    <3>2. QED
      BY <1>9, <1>11, <2>1, <2>2, <3>1 DEF RecentFailures
  <2>3. QED
    BY <1>11, <2>2 DEF RecentFailures
<1>14. Cardinality(V) <= MaxFailures
  <2>1. IsFiniteSet(R) /\ Cardinality(R) \in Nat /\ IsFiniteSet(O) /\ Cardinality(O) \in Nat
    BY <1>0, <1>2, <1>13, RowsAreFinite
  <2>2. Cardinality(R) < MaxFailures
    BY <1>1, <1>5, <1>11 DEF Fits
  <2>3. Cardinality(O) <= 1
    <3>1. CASE O = {}
      BY <3>1, FS_EmptySet
    <3>2. CASE O # {}
      <4>1. PICK k : k \in O
        BY <3>2
      <4>2. O = {k}
        BY <1>4, <1>11, <4>1 DEF Lockout
      <4>3. Cardinality(O) = 1
        BY <4>2, FS_Singleton
      <4>4. QED
        BY <4>3
    <3>3. QED
      BY <3>1, <3>2
  <2>4. PICK W : W = R \union O
    OBVIOUS
  <2>5. IsFiniteSet(W) /\ Cardinality(W) = Cardinality(R) + Cardinality(O) - Cardinality(R \cap O)
    BY <2>1, <2>4, FS_Union
  <2>6. Cardinality(R \cap O) \in Nat
    BY <2>1, FS_Subset, FS_CardinalityType
  <2>7. Cardinality(W) \in Nat /\ Cardinality(W) <= MaxFailures
    BY <2>1, <2>2, <2>3, <2>5, <2>6, FS_CardinalityType, AccountsAssumption
  <2>8. Cardinality(V) <= Cardinality(W) /\ Cardinality(V) \in Nat
    BY <1>13, <2>4, <2>5, FS_Subset, FS_CardinalityType
  <2>9. QED
    BY <2>7, <2>8, AccountsAssumption
<1>15. Cardinality(V) <= MaxFailures + 1
  <2>1. Cardinality(V) \in Nat
    <3>1. V \subseteq DOMAIN attempt[p]
      BY <1>9, <1>11
    <3>2. QED
      BY <1>0, <1>2, <3>1, RowsAreFinite
  <2>2. QED
    BY <1>14, <2>1, AccountsAssumption
<1>16. \A d \in Clients : On(req'[d], p) => d = c
  BY <1>5, <1>7
<1>17. Fits(x, p)'
  BY <1>6, <1>10, <1>12, <1>14 DEF Fits, Open, VerifyPcs
<1>18. \A d \in Clients : (On(req[d], p) => Fits(req[d], p))'
  BY <1>7, <1>16, <1>17 DEF On, Fits, Open
<1>19. \A k \in DOMAIN attempt[p] : Tally(p, k)'
  BY <1>3, <1>4, <1>9, <1>10 DEF Tally, Open, Lockout
<1>20. QED
  BY <1>9, <1>10, <1>12, <1>15, <1>16, <1>18, <1>19 DEF Lockout, On, Open

LEMMA InsertSecure ==
    ASSUME PhoneTypes, NEW c \in Clients, NEW p, p = req[c].p, Secure(p), InsertAttempt(c)
    PROVE  Secure(p)'
<1>0. TablesTyped
  BY DEF PhoneTypes
<1>1. req[c].pc = "insert" /\ UNCHANGED <<session, disturbed>> /\ Goto(c, Idle)
  BY DEF InsertAttempt, At, Finish
<1>2. p \in Phones /\ On(req[c], p)
  BY <1>1, AboutPhone DEF OtpPcs
<1>3. SUFFICES ASSUME Lockout(p) PROVE Lockout(p)'
  BY <1>1 DEF Secure
<1>4. Fits(req[c], p) /\ \A d \in Clients : On(req[d], p) => d = c
  BY <1>2, <1>3 DEF Lockout
<1>5. PICK e, n : /\ e = [stage |-> "otp_sent", strikes |-> 0, recent |-> TRUE] /\ n = Len(attempt[p]) + 1
                  /\ attempt' = [attempt EXCEPT ![p] = Append(@, e)]
                  /\ guesses' = [guesses EXCEPT ![p] = Append(@, 0)]
  BY DEF InsertAttempt
<1>6. e \in AttemptRow
  BY <1>5, AccountsAssumption DEF AttemptRow
<1>7. /\ attempt'[p][n] = e /\ DOMAIN attempt'[p] = DOMAIN attempt[p] \union {n} /\ n \notin DOMAIN attempt[p]
      /\ \A k \in DOMAIN attempt[p] : attempt'[p][k] = attempt[p][k]
  <2>1. attempt \in [Phones -> Seq(AttemptRow)]
    BY <1>0 DEF TablesTyped
  <2>2. QED
    BY <1>2, <1>5, <1>6, <2>1, RowInserted
<1>8. guesses'[p][n] = 0 /\ \A k \in DOMAIN attempt[p] : guesses'[p][k] = guesses[p][k]
  <2>1. Len(guesses[p]) = Len(attempt[p]) /\ DOMAIN guesses[p] = DOMAIN attempt[p]
        /\ guesses \in [Phones -> Seq(Nat)]
    BY <1>0, <1>2, PhoneRows DEF TablesTyped
  <2>2. QED
    BY <1>2, <1>5, <2>1, RowInserted
<1>9. \A d \in Clients : ~On(req'[d], p)
  <2>1. req'[c] = Idle /\ \A d \in Clients : d # c => req'[d] = req[d]
    BY <1>1 DEF Goto, PhoneTypes, CallsTyped
  <2>2. QED
    BY <1>4, <2>1, IdleNames DEF On, OtpPcs
<1>10. ASSUME NEW k \in DOMAIN attempt[p] PROVE Tally(p, k)' /\ attempt'[p][k].stage # "otp_sent"
  <2>1. Tally(p, k) /\ ~Open(p, k)
    BY <1>1, <1>3, <1>4 DEF Lockout, Fits
  <2>2. QED
    BY <1>1, <1>7, <1>8, <2>1 DEF Tally, Open
<1>11. Tally(p, n)'
  <2>1. <<p, n>> \notin session'
    BY <1>0, <1>1, <1>7 DEF TablesTyped
  <2>2. e.strikes = 0 /\ 0 <= MaxStrikes /\ 0 < MaxStrikes /\ 0 <= 0
    BY <1>5, AccountsAssumption
  <2>3. QED
    BY <1>7, <1>8, <2>1, <2>2 DEF Tally
<1>12. \A k, m \in DOMAIN attempt'[p] :
           attempt'[p][k].stage = "otp_sent" /\ attempt'[p][m].stage = "otp_sent" => k = m
  BY <1>7, <1>10
<1>13. PICK U, V :
           /\ U = Unanswered(p)
           /\ V = {k \in DOMAIN attempt'[p] : /\ attempt'[p][k].recent
                                              /\ attempt'[p][k].stage \in {"otp_sent", "failed"}}
  OBVIOUS
<1>14. V = Unanswered(p)'
  BY <1>13 DEF Unanswered
<1>15. V \subseteq U \union {n} /\ U \subseteq DOMAIN attempt[p]
  BY <1>7, <1>13 DEF Unanswered
<1>16. Cardinality(V) <= MaxFailures + 1
  <2>1. IsFiniteSet(U) /\ Cardinality(U) \in Nat /\ Cardinality(U) <= MaxFailures
    BY <1>0, <1>1, <1>2, <1>4, <1>13, <1>15, RowsAreFinite DEF Fits
  <2>2. PICK W : W = U \union {n}
    OBVIOUS
  <2>3. IsFiniteSet(W) /\ Cardinality(W) = Cardinality(U) + 1
    BY <1>7, <1>15, <2>1, <2>2, FS_AddElement
  <2>4. Cardinality(V) <= Cardinality(W) /\ Cardinality(V) \in Nat
    BY <1>15, <2>2, <2>3, FS_Subset, FS_CardinalityType
  <2>5. QED
    BY <2>1, <2>3, <2>4, AccountsAssumption
<1>17. \A k \in DOMAIN attempt'[p] : Tally(p, k)'
  BY <1>7, <1>10, <1>11
<1>18. QED
  BY <1>9, <1>12, <1>14, <1>16, <1>17 DEF Lockout, On, Open

SecureInv == \A p \in Phones : Secure(p)

\* A step of a call that is about another phone, before it and after.
LEMMA Elsewhere ==
    ASSUME PhoneTypes, NEW p \in Phones, Secure(p), NEW c \in Clients, NEW x, Goto(c, x),
           ~On(req[c], p), ~On(x, p), disturbed \subseteq disturbed',
           attempt'[p] = attempt[p], guesses'[p] = guesses[p],
           \A i : <<p, i>> \in session' => <<p, i>> \in session
    PROVE  Secure(p)'
<1>1. req'[c] = x /\ \A d \in Clients : d # c => req'[d] = req[d]
  BY DEF Goto, PhoneTypes, CallsTyped
<1>2. \A d \in Clients : On(req'[d], p) \/ On(req[d], p) => req'[d] = req[d]
  BY <1>1
<1>3. QED
  BY <1>2, LockoutKept

LEMMA OtpCallSecure ==
    ASSUME PhoneTypes, SecureInv, NEW c \in Clients,
           \/ StoreOtp(c) \/ CheckLimit(c) \/ FailOpenAttempts(c) \/ InsertAttempt(c)
           \/ CompareRight(c) \/ CompareWrong(c) \/ MarkVerified(c) \/ OpenSession(c) \/ Strike(c)
    PROVE  SecureInv'
<1>0. TablesTyped
  BY DEF PhoneTypes
<1>1. PICK r, q : r = req[c] /\ q = r.p /\ r.pc \in OtpPcs
  BY DEF StoreOtp, CheckLimit, FailOpenAttempts, InsertAttempt, CompareRight, CompareWrong, MarkVerified,
         OpenSession, Strike, At, OtpPcs
<1>2. q \in Phones
  BY <1>1, AboutPhone
<1>3. Secure(q)'
  BY <1>1, <1>2, MovesSecure, WrongSecure, SavesSecure, FailSecure, InsertSecure DEF SecureInv
<1>4. SUFFICES ASSUME NEW p \in Phones, p # q PROVE Secure(p)'
  BY <1>3 DEF SecureInv
<1>5. UNCHANGED disturbed
  BY DEF StoreOtp, CheckLimit, FailOpenAttempts, InsertAttempt, CompareRight, CompareWrong, MarkVerified,
         OpenSession, Strike, otpVars
<1>6. attempt'[p] = attempt[p]
  <2>1. CASE UNCHANGED attempt
    BY <2>1
  <2>2. CASE ~UNCHANGED attempt
    <3>1. \E e : attempt' = [attempt EXCEPT ![q] = e]
      <4>1. CASE FailOpenAttempts(c)
        BY <1>1, <4>1 DEF FailOpenAttempts
      <4>2. CASE InsertAttempt(c)
        BY <1>1, <4>2 DEF InsertAttempt
      <4>3. CASE OpenSession(c)
        BY <1>1, <4>3 DEF OpenSession, SaveAttempt
      <4>4. CASE Strike(c)
        BY <1>1, <4>4 DEF Strike, SaveAttempt
      <4>5. QED
        BY <2>2, <4>1, <4>2, <4>3, <4>4 DEF StoreOtp, CheckLimit, CompareRight, CompareWrong, MarkVerified,
                                           otpVars
    <3>2. QED
      BY <1>0, <1>4, <3>1 DEF TablesTyped
  <2>3. QED
    BY <2>1, <2>2
<1>7. guesses'[p] = guesses[p]
  <2>1. UNCHANGED guesses \/ \E e : guesses' = [guesses EXCEPT ![q] = e]
    <3>1. CASE InsertAttempt(c)
      BY <1>1, <3>1 DEF InsertAttempt
    <3>2. CASE CompareWrong(c)
      BY <1>1, <3>2 DEF CompareWrong
    <3>3. QED
      BY <3>1, <3>2 DEF StoreOtp, CheckLimit, FailOpenAttempts, CompareRight, MarkVerified, OpenSession,
                        Strike, otpVars
  <2>2. QED
    BY <1>0, <1>4, <2>1 DEF TablesTyped
<1>8. \A i : <<p, i>> \in session' => <<p, i>> \in session
  <2>1. UNCHANGED session \/ session' = session \union {<<q, r.i>>}
    BY <1>1 DEF StoreOtp, CheckLimit, FailOpenAttempts, InsertAttempt, CompareRight, CompareWrong,
                MarkVerified, OpenSession, Strike, otpVars
  <2>2. QED
    BY <1>4, <2>1
<1>9. ~On(r, p)
  BY <1>1, <1>4 DEF On
<1>10. ASSUME NEW x, Goto(c, x), x = Idle \/ x.p = q PROVE Secure(p)'
  <2>1. ~On(x, p)
    BY <1>4, <1>10, IdleNames DEF On, OtpPcs
  <2>2. QED
    BY <1>1, <1>5, <1>6, <1>7, <1>8, <1>9, <1>10, <2>1, Elsewhere DEF SecureInv
<1>11. CASE CheckLimit(c) \/ InsertAttempt(c) \/ OpenSession(c) \/ Strike(c)
  <2>1. Goto(c, Idle) \/ Goto(c, [pc |-> "fail", p |-> q])
    BY <1>1, <1>11 DEF CheckLimit, InsertAttempt, OpenSession, Strike, Finish
  <2>2. [pc |-> "fail", p |-> q].p = q
    OBVIOUS
  <2>3. QED
    BY <1>10, <2>1, <2>2
<1>12. CASE StoreOtp(c) \/ FailOpenAttempts(c)
  <2>1. \E pc : Goto(c, [pc |-> pc, p |-> q])
    BY <1>1, <1>12 DEF StoreOtp, FailOpenAttempts
  <2>2. \A pc : [pc |-> pc, p |-> q].p = q
    OBVIOUS
  <2>3. QED
    BY <1>10, <2>1, <2>2
<1>13. CASE CompareRight(c)
  <2>1. PICK x, j : x = [pc |-> "mark", p |-> r.p, i |-> r.i, copy |-> r.copy, j |-> j] /\ Goto(c, x)
    BY <1>1, <1>13 DEF CompareRight
  <2>2. x.p = q
    BY <1>1, <2>1
  <2>3. QED
    BY <1>10, <2>1, <2>2
<1>14. CASE CompareWrong(c) \/ MarkVerified(c)
  <2>1. PICK x, pc : x = [r EXCEPT !.pc = pc] /\ Goto(c, x)
    BY <1>1, <1>14 DEF CompareWrong, MarkVerified
  <2>2. x.p = r.p
    BY <2>1
  <2>3. QED
    BY <1>1, <1>10, <2>1, <2>2
<1>15. QED
  BY <1>11, <1>12, <1>13, <1>14

LEMMA SignupSecure ==
    ASSUME PhoneTypes, SecureInv, NEW c \in Clients, CommitSignup(c)
    PROVE  SecureInv'
<1>0. TablesTyped
  BY DEF PhoneTypes
<1>1. PICK q, i : /\ q = req[c].p /\ i = req[c].i /\ req[c].pc = "signup" /\ CompleteAttempt(q, i)
                  /\ UNCHANGED <<session, guesses, disturbed>> /\ Goto(c, Idle)
  BY DEF CommitSignup, At, Finish
<1>2. <<q, i>> \in session /\ q \in Phones /\ i \in DOMAIN attempt[q]
  <2>1. <<q, i>> \in session
    BY <1>1, CallAt DEF Names
  <2>2. QED
    BY <1>0, <2>1 DEF TablesTyped
<1>3. PICK e : e = [attempt[q][i] EXCEPT !.stage = "completed"]
  OBVIOUS
<1>4. attempt[q][i] \in AttemptRow
  BY <1>0, <1>2, PhoneRows
<1>5. /\ e \in AttemptRow /\ e.stage = "completed"
      /\ e.strikes = attempt[q][i].strikes /\ e.recent = attempt[q][i].recent
  BY <1>3, <1>4 DEF AttemptRow
<1>6. attempt' = [attempt EXCEPT ![q][i] = e] /\ attempt \in [Phones -> Seq(AttemptRow)]
  BY <1>0, <1>1, <1>3 DEF CompleteAttempt, TablesTyped
<1>7. /\ attempt'[q][i] = e
      /\ \A p \in Phones : DOMAIN attempt'[p] = DOMAIN attempt[p]
      /\ \A p \in Phones : \A k \in DOMAIN attempt[p] : p # q \/ k # i => attempt'[p][k] = attempt[p][k]
  BY <1>2, <1>5, <1>6, CellWritten
<1>8. req'[c] = Idle /\ \A d \in Clients : d # c => req'[d] = req[d]
  BY <1>1 DEF Goto, PhoneTypes, CallsTyped
<1>9. \A d \in Clients : \A p : On(req'[d], p) \/ On(req[d], p) => req'[d] = req[d]
  BY <1>1, <1>8, IdleNames DEF On, OtpPcs
<1>10. SUFFICES ASSUME NEW p \in Phones, Lockout(p) PROVE Secure(p)'
  BY <1>1 DEF SecureInv, Secure
<1>11. p = q => ~Open(p, i)
  <2>1. p = q => Tally(p, i)
    BY <1>2, <1>10 DEF Lockout
  <2>2. QED
    BY <1>2, <2>1 DEF Tally
<1>12. \A k \in DOMAIN attempt[p] :
          /\ \/ attempt'[p][k].stage = attempt[p][k].stage
             \/ attempt'[p][k].stage = "completed" /\ ~Open(p, k)
          /\ attempt'[p][k].strikes = attempt[p][k].strikes
          /\ attempt'[p][k].recent => attempt[p][k].recent
  BY <1>5, <1>7, <1>11
<1>13. QED
  BY <1>1, <1>7, <1>9, <1>12, LockoutKept DEF SecureInv

LEMMA AgeSecure ==
    ASSUME PhoneTypes, SecureInv, NEW q \in Phones, AttemptAges(q)
    PROVE  SecureInv'
<1>0. TablesTyped
  BY DEF PhoneTypes
<1>1. PICK young : young = {i \in DOMAIN attempt[q] : attempt[q][i].recent} /\ young # {}
  BY DEF AttemptAges
<1>2. PICK i \in DOMAIN attempt[q] : i = Min(young)
  BY <1>0, <1>1, OldestIsOne
<1>3. PICK e : e = [attempt[q][i] EXCEPT !.recent = FALSE]
  OBVIOUS
<1>4. attempt[q][i] \in AttemptRow
  BY <1>0, PhoneRows
<1>5. /\ e \in AttemptRow /\ e.stage = attempt[q][i].stage
      /\ e.strikes = attempt[q][i].strikes /\ e.recent = FALSE
  BY <1>3, <1>4 DEF AttemptRow
<1>6. attempt' = [attempt EXCEPT ![q][i] = e] /\ attempt \in [Phones -> Seq(AttemptRow)]
  BY <1>0, <1>1, <1>2, <1>3 DEF AttemptAges, TablesTyped
<1>7. /\ attempt'[q][i] = e
      /\ \A p \in Phones : DOMAIN attempt'[p] = DOMAIN attempt[p]
      /\ \A p \in Phones : \A k \in DOMAIN attempt[p] : p # q \/ k # i => attempt'[p][k] = attempt[p][k]
  BY <1>5, <1>6, CellWritten
<1>8. UNCHANGED <<session, guesses, disturbed, req>>
  BY DEF AttemptAges
<1>9. SUFFICES ASSUME NEW p \in Phones PROVE Secure(p)'
  BY DEF SecureInv
<1>10. \A k \in DOMAIN attempt[p] :
          /\ attempt'[p][k].stage = attempt[p][k].stage
          /\ attempt'[p][k].strikes = attempt[p][k].strikes
          /\ attempt'[p][k].recent => attempt[p][k].recent
  BY <1>5, <1>7
<1>11. QED
  BY <1>7, <1>8, <1>10, LockoutKept DEF SecureInv

LEMMA SecureInit == Init => SecureInv
<1> SUFFICES ASSUME Init, NEW p \in Phones PROVE Lockout(p)
  BY DEF SecureInv, Secure
<1>1. \A c \in Clients : ~On(req[c], p)
  BY IdleNames DEF Init, On, OtpPcs
<1>2. DOMAIN attempt[p] = {}
  BY EmptySeq DEF Init
<1>3. Unanswered(p) = {}
  BY <1>2 DEF Unanswered
<1>4. Cardinality(Unanswered(p)) = 0
  BY <1>3, FS_EmptySet
<1>5. QED
  BY <1>1, <1>2, <1>4, AccountsAssumption DEF Lockout

LEMMA SecureStep ==
    ASSUME PhoneTypes, SecureInv, [Next]_vars
    PROVE  SecureInv'
<1>1. ASSUME NEW c \in Clients, NEW q \in Phones, BeginSendOtp(c, q) \/ BeginVerify(c, q)
      PROVE  SecureInv'
  <2>1. SUFFICES ASSUME NEW p \in Phones, p # q PROVE Secure(p)'
    BY <1>1, BeginsSecure DEF SecureInv
  <2>2. PICK x : Goto(c, x) /\ x.p = q
    <3>1. CASE BeginSendOtp(c, q)
      <4>1. PICK x : x = [pc |-> "store", p |-> q] /\ Goto(c, x)
        BY <3>1 DEF BeginSendOtp
      <4>2. QED
        BY <4>1
    <3>2. CASE BeginVerify(c, q)
      <4>1. PICK x, i : x = [pc |-> "compare", p |-> q, i |-> i, copy |-> attempt[q][i]] /\ Goto(c, x)
        BY <3>2 DEF BeginVerify
      <4>2. QED
        BY <4>1
    <3>3. QED
      BY <1>1, <3>1, <3>2
  <2>3. ~On(req[c], p) /\ ~On(x, p)
    BY <1>1, <2>1, <2>2, IdleNames DEF BeginSendOtp, BeginVerify, Free, On, OtpPcs
  <2>4. UNCHANGED <<attempt, guesses, session>> /\ disturbed \subseteq disturbed'
    BY <1>1 DEF BeginSendOtp, BeginVerify, Enter
  <2>5. QED
    BY <2>2, <2>3, <2>4, Elsewhere DEF SecureInv
<1>2. ASSUME NEW c \in Clients, NEW x, Goto(c, x), x.pc \notin OtpPcs, req[c].pc \notin OtpPcs,
             UNCHANGED <<attempt, guesses, session, disturbed>>
      PROVE  SecureInv'
  BY <1>2, Elsewhere DEF SecureInv, On
<1>3. ASSUME NEW c \in Clients, CutShort(c) PROVE SecureInv'
  <2>1. UNCHANGED <<attempt, guesses, session>> /\ Goto(c, Idle)
    BY <1>3 DEF CutShort, Finish
  <2>2. SUFFICES ASSUME NEW p \in Phones, p \notin disturbed' PROVE Secure(p)'
    BY DEF SecureInv, Secure
  <2>3. disturbed \subseteq disturbed' /\ ~On(req[c], p) /\ ~On(Idle, p)
    BY <1>3, <2>2, IdleNames DEF CutShort, On, OtpPcs
  <2>4. QED
    BY <2>1, <2>3, Elsewhere DEF SecureInv
<1>4. ASSUME NEW c \in Clients, RevokeToken(c) PROVE SecureInv'
  <2>1. PICK r, x : r = req[c] /\ r.pc = "revoke" /\ x = [r EXCEPT !.pc = "issue"] /\ Goto(c, x)
    BY <1>4 DEF RevokeToken, At
  <2>2. r \in [pc: TokenPcs, t: Nat]
    BY <2>1, CallAt, CallMembers DEF TokenPcs
  <2>3. x.pc = "issue"
    BY <2>1, <2>2
  <2>4. QED
    BY <1>2, <1>4, <2>1, <2>3 DEF RevokeToken, otpVars, OtpPcs
<1>5. ASSUME NEW c \in Clients, IssueToken(c) \/ CommitLogout(c) PROVE SecureInv'
  <2>1. Goto(c, Idle) /\ req[c].pc \in {"issue", "logout"} /\ UNCHANGED <<attempt, guesses, session, disturbed>>
    BY <1>5 DEF IssueToken, CommitLogout, At, Finish, otpVars
  <2>2. QED
    BY <1>2, <2>1, IdleNames DEF OtpPcs
<1>6. ASSUME NEW c \in Clients,
              \/ StoreOtp(c) \/ CheckLimit(c) \/ FailOpenAttempts(c) \/ InsertAttempt(c)
              \/ CompareRight(c) \/ CompareWrong(c) \/ MarkVerified(c) \/ OpenSession(c) \/ Strike(c)
              \/ CommitSignup(c) \/ RevokeToken(c) \/ IssueToken(c) \/ CommitLogout(c)
              \/ CutShort(c)
      PROVE  SecureInv'
  BY <1>3, <1>4, <1>5, <1>6, OtpCallSecure, SignupSecure
<1>7. ASSUME NEW c \in Clients, NEW s \in session, BeginSignup(c, s[1], s[2]) PROVE SecureInv'
  <2>1. PICK x : x.pc = "signup" /\ Goto(c, x)
    BY <1>7 DEF BeginSignup
  <2>2. req[c].pc = "idle" /\ UNCHANGED <<attempt, guesses, session, disturbed>>
    BY <1>7, IdleNames DEF BeginSignup, Free, otpVars
  <2>3. QED
    BY <1>2, <2>1, <2>2 DEF OtpPcs
<1>8. ASSUME NEW c \in Clients, NEW t \in DOMAIN token, BeginRefresh(c, t) \/ BeginLogout(c, t)
      PROVE  SecureInv'
  <2>1. PICK x : x.pc \in {"revoke", "logout"} /\ Goto(c, x)
    BY <1>8 DEF BeginRefresh, BeginLogout
  <2>2. req[c].pc = "idle" /\ UNCHANGED <<attempt, guesses, session, disturbed>>
    BY <1>8, IdleNames DEF BeginRefresh, BeginLogout, Free, otpVars
  <2>3. QED
    BY <1>2, <2>1, <2>2 DEF OtpPcs
<1>9. CASE \/ \E p \in Phones : Login(p) \/ LoginWithGoogle(p)
           \/ \E p \in Phones : \E j \in DOMAIN otp[p] : OtpExpires(p, j)
           \/ \E t \in DOMAIN token : TokenExpires(t)
           \/ UNCHANGED vars
  <2>1. UNCHANGED <<attempt, guesses, session, disturbed, req>>
    BY <1>9 DEF Login, LoginWithGoogle, OtpExpires, TokenExpires, vars, otpVars
  <2>2. QED
    BY <2>1, LockoutKept DEF SecureInv
<1>10. CASE \E p \in Phones : AttemptAges(p)
  BY <1>10, AgeSecure
<1>11. QED
  BY <1>1, <1>6, <1>7, <1>8, <1>9, <1>10 DEF Next

LEMMA SecureInvariant == Spec => [](PhoneTypes /\ SecureInv)
<1>1. PhoneTypes /\ SecureInv /\ [Next]_vars => SecureInv'
  BY SecureStep
<1> QED
  BY <1>1, SecureInit, PhoneTypesInvariant, PTL DEF Spec

\* While the calls for a phone come one after another, no attempt sees more wrong
\* codes than it allows: a strike is never lost between the comparison and the save.
THEOREM FiveStrikes == Spec => []StrikesEnforced
<1>1. SecureInv => StrikesEnforced
  BY DEF SecureInv, Secure, Lockout, Tally, StrikesEnforced
<1> QED
  BY <1>1, SecureInvariant, PTL

\* And a phone whose requests keep replacing the code sees no more wrong codes in
\* an hour than the attempts the limit leaves room for allow together.
THEOREM GuessesAreBounded == Spec => []HourlyGuessLimit
<1>1. ASSUME PhoneTypes, SecureInv PROVE HourlyGuessLimit
  <2>1. SUFFICES ASSUME NEW p \in Phones \ disturbed
                 PROVE  Cardinality(GuessesUnder(p, Unanswered(p))) <= (MaxFailures + 1) * MaxStrikes
    BY DEF HourlyGuessLimit
  <2>2. Lockout(p) /\ TablesTyped
    BY <1>1 DEF SecureInv, Secure, PhoneTypes
  <2>3. PICK U, M, G : U = Unanswered(p) /\ M = 1..MaxStrikes /\ G = GuessesUnder(p, Unanswered(p))
    OBVIOUS
  <2>4. U \subseteq DOMAIN attempt[p]
    BY <2>3 DEF Unanswered
  <2>5. IsFiniteSet(U) /\ Cardinality(U) \in Nat /\ Cardinality(U) <= MaxFailures + 1
    BY <2>2, <2>3, <2>4, RowsAreFinite DEF Lockout
  <2>6. G \subseteq U \X M
    <3>1. ASSUME NEW i \in U PROVE 1..guesses[p][i] \subseteq M
      <4>1. guesses[p][i] \in Nat /\ guesses[p][i] <= MaxStrikes
        BY <2>2, <2>4, <3>1, PhoneRows DEF Lockout, Tally
      <4>2. QED
        BY <2>3, <4>1, AccountsAssumption
    <3>2. G = UNION {{i} \X (1..guesses[p][i]) : i \in U}
      BY <2>3 DEF GuessesUnder
    <3>3. QED
      BY <3>1, <3>2
  <2>7. IsFiniteSet(M) /\ Cardinality(M) = MaxStrikes
    BY <2>3, FS_Interval, AccountsAssumption
  <2>8. PICK P : P = U \X M
    OBVIOUS
  <2>9. IsFiniteSet(P) /\ Cardinality(P) = Cardinality(U) * MaxStrikes
    BY <2>5, <2>7, <2>8, FS_Product
  <2>10. Cardinality(G) <= Cardinality(P) /\ Cardinality(G) \in Nat
    BY <2>6, <2>8, <2>9, FS_Subset, FS_CardinalityType
  <2>11. Cardinality(U) * MaxStrikes <= (MaxFailures + 1) * MaxStrikes
    BY <2>5, AccountsAssumption
  <2>12. Cardinality(U) * MaxStrikes \in Nat /\ (MaxFailures + 1) * MaxStrikes \in Nat
    BY <2>5, AccountsAssumption
  <2>13. QED
    BY <2>3, <2>9, <2>10, <2>11, <2>12
<1> QED
  BY <1>1, SecureInvariant, PTL
==============================================================================
