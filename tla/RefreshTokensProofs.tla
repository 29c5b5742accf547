------------------------ MODULE RefreshTokensProofs -------------------------
(***************************************************************************)
(* Theorems about RefreshTokens, for any tenants, keys, tokens, devices    *)
(* and number of calls.                                                    *)
(***************************************************************************)
EXTENDS RefreshTokens, TenantAccessProofs

(* What a request knows when it reaches a statement.                       *)
Sane(q) ==
  /\ q.pc \notin {"idle", "done"} => q.tenant \in TenantIds
  /\ q.op \in {"refresh", "logout"} => q.token \in TokenIds
  /\ q.pc = "issue" => q.op \in {"login", "refresh"}
  /\ q.pc \in {"select", "write"} => q.op \in {"refresh", "logout"}
  /\ q.pc = "revokeAll" => q.op = "logoutAll"
  /\ q.reply = "ok" => q.pc = "done"

(* A request that found its token revoked, or has retired it.              *)
Retiring(q) ==
  \/ q.pc = "write" /\ q.loaded # Null /\ q.loaded.revoked
  \/ q.op \in {"refresh", "logout"} /\ q.reply = "ok"

Settled(q) == Retiring(q) => ~Usable(q.token)

Requests == \A d \in Devices : Sane(auth[d]) /\ Settled(auth[d])

(* Before a request issues its token there is no such row, and nobody      *)
(* holds the token.                                                        *)
FreshTokens ==
  \A k \in Devices : auth[k].pc \in {"idle", "issue"} =>
    /\ token[k] = Null
    /\ \A d \in Devices : auth[d].token # k

(* Those who hold a token agree with its row, and with each other even     *)
(* when the row is gone, on the tenant it belongs to.                      *)
OneOwner ==
  \A d \in Devices : auth[d].token \in TokenIds =>
    /\ token[auth[d].token] # Null
         => token[auth[d].token].tenant = auth[d].tenant
    /\ \A e \in Devices : auth[e].token = auth[d].token
                            => auth[e].tenant = auth[d].tenant

SessionsInv ==
  /\ SessionsTypeOK
  /\ AccessInv
  /\ Requests
  /\ FreshTokens
  /\ OneOwner
  /\ TokensHaveTenant

-----------------------------------------------------------------------------
(* What a step does to the tokens, and to the requests that hold them.     *)

(* A token becomes usable only when it is issued.                          *)
NoRevival ==
  \A k \in TokenIds :
    ~Usable(k) /\ Usable(k)' => /\ k \in Devices
                                /\ auth[k].pc = "issue"
                                /\ auth'[k].pc # "issue"

(* A row is there with its tenant, saved by a request that holds it, or    *)
(* just issued.                                                            *)
TokenFrame ==
  \A k \in TokenIds :
    \/ token'[k] = Null
    \/ token[k] # Null /\ token'[k].tenant = token[k].tenant
    \/ \E e \in Devices : auth[e].token = k /\ token'[k].tenant = auth[e].tenant
    \/ k \in Devices /\ auth[k].pc = "issue" /\ auth'[k].pc \notin {"idle", "issue"}

(* A request goes on with the token it holds.                              *)
Advanced(d) ==
  /\ auth'[d].token = auth[d].token /\ auth'[d].tenant = auth[d].tenant
  /\ auth'[d].pc = auth[d].pc \/ auth'[d].pc \notin {"idle", "issue"}

\* Initially the tokens belong to tenants that are there, and no request runs.
LEMMA SessionsInit_Inv == Init => SessionsInv
<1> SUFFICES ASSUME Init PROVE SessionsInv
  OBVIOUS
<1> USE AccessAssumption, TokensAssumption
<1>1. AccessInv
  BY AccessInit_Inv DEF Init
<1>2. PICK owner \in [SeedTokens -> Tenants] :
        token = [k \in TokenIds |-> IF k \in SeedTokens
                                      THEN [tenant |-> owner[k], revoked |-> FALSE]
                                      ELSE Null]
  BY DEF Init
<1>3. token \in [TokenIds -> Token \cup {Null}]
  BY <1>2 DEF Token, TenantIds
<1>4. auth = [d \in Devices |-> NoAuthCall] /\ lapsed = {}
  BY DEF Init
<1>5. SessionsTypeOK
  BY <1>1, <1>3, <1>4 DEF SessionsTypeOK, AccessInv, AuthCall, NoAuthCall, AuthPC
<1>6. Requests
  BY <1>4 DEF Requests, Sane, Settled, Retiring, NoAuthCall, AuthOp
<1>7. FreshTokens
  BY <1>2, <1>4 DEF FreshTokens, NoAuthCall, TokenIds
<1>8. OneOwner
  BY <1>4 DEF OneOwner, NoAuthCall
<1>9. TokensHaveTenant
  <2>1. \A k \in TokenIds : token[k] # Null => token[k].tenant \in Tenants
    BY <1>2
  <2>2. \A t \in Tenants : tenant[t] # Null
    BY DEF Init, AccessInit, TenantIds, Status, TenantStatus
  <2>3. QED
    BY <2>1, <2>2 DEF TokensHaveTenant
<1>10. QED
  BY <1>1, <1>5, <1>6, <1>7, <1>8, <1>9 DEF SessionsInv

\* The requests that went on keep what is said of who holds which token.
LEMMA ReferencesKept ==
  ASSUME SessionsInv, TokenFrame, \A d \in Devices : Advanced(d)
  PROVE  FreshTokens' /\ OneOwner'
<1>1. \A k \in Devices : k \in TokenIds
  BY DEF TokenIds
<1>2. FreshTokens'
  BY <1>1 DEF SessionsInv, FreshTokens, TokenFrame, Advanced
<1>3. ASSUME NEW d \in Devices, auth'[d].token \in TokenIds
      PROVE  /\ token'[auth'[d].token] # Null
                  => token'[auth'[d].token].tenant = auth'[d].tenant
             /\ \A e \in Devices : auth'[e].token = auth'[d].token
                                     => auth'[e].tenant = auth'[d].tenant
  <2> DEFINE k == auth[d].token
  <2>1. k \in TokenIds /\ auth'[d].token = k /\ auth'[d].tenant = auth[d].tenant
    BY <1>3 DEF Advanced
  <2>2. ~(k \in Devices /\ auth[k].pc = "issue")
    BY DEF SessionsInv, FreshTokens
  <2>3. /\ token[k] # Null => token[k].tenant = auth[d].tenant
        /\ \A e \in Devices : auth[e].token = k => auth[e].tenant = auth[d].tenant
    BY <2>1 DEF SessionsInv, OneOwner
  <2>4. QED
    BY <2>1, <2>2, <2>3 DEF TokenFrame, Advanced
<1>4. OneOwner'
  BY <1>3 DEF OneOwner
<1>5. QED
  BY <1>2, <1>4

\* A token that is not usable stays so for a request that holds it.
LEMMA SettledKept ==
  ASSUME SessionsInv, NoRevival, NEW d \in Devices, auth'[d] = auth[d]
  PROVE  Sane(auth'[d]) /\ Settled(auth[d])'
<1>1. Sane(auth[d]) /\ Settled(auth[d])
  BY DEF SessionsInv, Requests
<1>2. Retiring(auth[d]) => auth[d].token \in TokenIds
  BY <1>1 DEF Sane, Retiring
<1>3. ASSUME Retiring(auth[d]) PROVE ~Usable(auth[d].token)'
  <2>1. ~Usable(auth[d].token)
    BY <1>1, <1>3 DEF Settled
  <2>2. QED
    BY <1>2, <1>3, <2>1 DEF NoRevival, SessionsInv, FreshTokens, Usable
<1>4. QED
  BY <1>1, <1>3 DEF Settled, Retiring

\* One request moves on.
LEMMA OneMoves ==
  ASSUME SessionsInv, NoRevival, NEW d \in Devices, NEW q \in AuthCall,
         auth' = [auth EXCEPT ![d] = q],
         Sane(q), Retiring(q) => ~Usable(q.token)'
  PROVE  auth' \in [Devices -> AuthCall] /\ Requests'
<1>1. /\ auth' \in [Devices -> AuthCall]
      /\ auth'[d] = q
      /\ \A e \in Devices : e # d => auth'[e] = auth[e]
  BY DEF SessionsInv, SessionsTypeOK
<1>2. Sane(auth'[d]) /\ Settled(auth[d])'
  BY <1>1 DEF Settled, Retiring, Usable
<1>3. \A e \in Devices : Sane(auth'[e]) /\ Settled(auth[e])'
  BY <1>1, <1>2, SettledKept
<1>4. Requests'
  BY <1>3 DEF Requests, Sane
<1>5. QED
  BY <1>1, <1>4

\* A request that answers.
LEMMA AnsweredSane ==
  ASSUME NEW q \in AuthCall, Sane(q), NEW reply \in {"ok", "error", "lost"}
  PROVE  LET a == Answered(q, reply)
         IN  /\ a \in AuthCall /\ Sane(a)
             /\ a.pc = "done" /\ a.reply = reply
             /\ a.op = q.op /\ a.token = q.token /\ a.tenant = q.tenant
<1> DEFINE a == Answered(q, reply)
<1>1. /\ a \in AuthCall /\ a.pc = "done" /\ a.reply = reply
      /\ a.op = q.op /\ a.token = q.token /\ a.tenant = q.tenant
  BY DEF Answered, AuthCall, AuthPC
<1> HIDE DEF a
<1>2. Sane(a)
  BY <1>1 DEF Sane
<1>3. QED
  BY <1>1, <1>2 DEF a

\* The tables of TenantAccess are as they were.
LEMMA AccessKept ==
  ASSUME AccessInv, UNCHANGED <<tenant, key, call, contended>>,
         started' \in 0..MaxCalls, faults' \in 0..MaxFaults
  PROVE  AccessInv'
BY DEF AccessInv, AccessTypeOK, CallsSound, Sound, RowsHaveTenant

\* The tokens are as they were: none revives, and each keeps its tenant.
LEMMA TokensKept ==
  ASSUME UNCHANGED token, lapsed \subseteq lapsed'
  PROVE  NoRevival /\ TokenFrame
BY DEF NoRevival, TokenFrame, Usable

\* A request starts, with a token that is there or without one.
LEMMA StartSound ==
  ASSUME SessionsInv, NEW d \in Devices, NEW q \in AuthCall, Start(d, q),
         Sane(q), q.pc # "idle", q.reply = Null, q.loaded = Null,
         \/ q.token = Null
         \/ /\ q.token \in TokenIds /\ token[q.token] # Null
            /\ q.tenant = token[q.token].tenant
  PROVE  SessionsInv' /\ NoRevival
<1> USE AccessAssumption, TokensAssumption
<1>1. /\ auth' = [auth EXCEPT ![d] = q] /\ auth[d].pc = "idle"
      /\ UNCHANGED <<token, lapsed, tenant, key, call, contended, faults>>
      /\ started < MaxCalls /\ started' = started + 1
  BY DEF Start, Started
<1>2. NoRevival
  BY <1>1, TokensKept
<1>3. Retiring(q) => ~Usable(q.token)'
  BY DEF Retiring
<1>4. auth' \in [Devices -> AuthCall] /\ Requests'
  BY <1>1, <1>2, <1>3, OneMoves
<1>5. AccessInv'
  BY <1>1, AccessKept DEF SessionsInv, SessionsTypeOK, AccessTypeOK
<1>6. SessionsTypeOK'
  BY <1>1, <1>4, <1>5 DEF SessionsInv, SessionsTypeOK, AccessInv
<1>7. /\ auth'[d] = q
      /\ \A e \in Devices : e # d => auth'[e] = auth[e]
  BY <1>1 DEF SessionsInv, SessionsTypeOK
<1>8. FreshTokens'
  <2>1. ASSUME NEW k \in Devices, auth'[k].pc \in {"idle", "issue"}
        PROVE  token'[k] = Null /\ \A e \in Devices : auth'[e].token # k
    <3>1. auth[k].pc \in {"idle", "issue"}
      BY <1>1, <1>7, <2>1
    <3>2. token[k] = Null /\ \A e \in Devices : auth[e].token # k
      BY <3>1 DEF SessionsInv, FreshTokens
    <3>3. q.token # k
      BY <3>2 DEF TokenIds
    <3>4. QED
      BY <1>1, <1>7, <3>2, <3>3
  <2>2. QED
    BY <2>1 DEF FreshTokens
<1>9. OneOwner'
  BY <1>1, <1>7 DEF SessionsInv, OneOwner
<1>10. TokensHaveTenant'
  BY <1>1 DEF SessionsInv, TokensHaveTenant
<1>11. QED
  BY <1>2, <1>4, <1>5, <1>6, <1>8, <1>9, <1>10 DEF SessionsInv

\* The first steps of the requests.
LEMMA StartStep_Inv ==
  ASSUME SessionsInv, NEW d \in Devices,
         BeginLogin(d) \/ BeginRefresh(d) \/ BeginLogout(d) \/ BeginLogoutAll(d)
  PROVE  SessionsInv' /\ NoRevival
<1> USE AccessAssumption, TokensAssumption
    DEF AuthCall, NoAuthCall, Sane, AuthOp, AuthPC
<1>1. \A k \in TokenIds : token[k] # Null => token[k].tenant \in TenantIds
  BY DEF SessionsInv, SessionsTypeOK, Token
<1>2. CASE BeginLogin(d)
  <2>1. PICK t \in TenantIds :
          Start(d, [NoAuthCall EXCEPT !.op = "login", !.pc = "issue", !.tenant = t])
    BY <1>2 DEF BeginLogin
  <2>2. QED
    BY <2>1, StartSound
<1>3. CASE BeginRefresh(d)
  <2>1. PICK k \in TokenIds :
          /\ token[k] # Null
          /\ Start(d, [NoAuthCall EXCEPT !.op = "refresh", !.pc = "issue",
                                         !.tenant = token[k].tenant, !.token = k])
    BY <1>3 DEF BeginRefresh, Usable
  <2>2. QED
    BY <1>1, <2>1, StartSound
<1>4. CASE BeginLogout(d)
  <2>1. PICK k \in TokenIds :
          /\ token[k] # Null
          /\ Start(d, [NoAuthCall EXCEPT !.op = "logout", !.pc = "select",
                                         !.tenant = token[k].tenant, !.token = k])
    BY <1>4 DEF BeginLogout
  <2>2. QED
    BY <1>1, <2>1, StartSound
<1>5. CASE BeginLogoutAll(d)
  <2>1. PICK t \in TenantIds :
          Start(d, [NoAuthCall EXCEPT !.op = "logoutAll", !.pc = "revokeAll",
                                      !.tenant = t])
    BY <1>5 DEF BeginLogoutAll
  <2>2. QED
    BY <2>1, StartSound
<1>6. QED
  BY <1>2, <1>3, <1>4, <1>5

\* One request goes on, next to tables of TenantAccess that stay.
LEMMA GoesOn ==
  ASSUME SessionsInv, NEW d \in Devices, NEW q \in AuthCall,
         auth' = [auth EXCEPT ![d] = q],
         q.token = auth[d].token, q.tenant = auth[d].tenant,
         q.pc \notin {"idle", "issue"},
         Sane(q), Retiring(q) => ~Usable(q.token)',
         NoRevival, TokenFrame,
         token' \in [TokenIds -> Token \cup {Null}], TokensHaveTenant',
         AccessInv', UNCHANGED lapsed
  PROVE  SessionsInv' /\ NoRevival
<1>1. auth' \in [Devices -> AuthCall] /\ Requests'
  BY OneMoves
<1>2. \A e \in Devices : Advanced(e)
  BY DEF Advanced, SessionsInv, SessionsTypeOK
<1>3. FreshTokens' /\ OneOwner'
  BY <1>2, ReferencesKept
<1>4. SessionsTypeOK'
  BY <1>1 DEF SessionsInv, SessionsTypeOK, AccessInv
<1>5. QED
  BY <1>1, <1>3, <1>4 DEF SessionsInv

\* A request answers with an error, and changes no row.
LEMMA RefusedSound ==
  ASSUME SessionsInv, NEW d \in Devices, Answer(d, "error"),
         UNCHANGED <<token, lapsed, tenant>>, AccessInv'
  PROVE  SessionsInv' /\ NoRevival
<1> DEFINE q == Answered(auth[d], "error")
<1>1. auth[d] \in AuthCall /\ Sane(auth[d])
  BY DEF SessionsInv, SessionsTypeOK, Requests
<1>2. /\ q \in AuthCall /\ Sane(q) /\ q.pc = "done" /\ q.reply = "error"
      /\ q.token = auth[d].token /\ q.tenant = auth[d].tenant
  BY <1>1, AnsweredSane
<1>3. auth' = [auth EXCEPT ![d] = q]
  BY DEF Answer
<1> HIDE DEF q
<1>4. ~Retiring(q)
  BY <1>2 DEF Retiring
<1>5. NoRevival /\ TokenFrame
  BY TokensKept
<1>6. token' \in [TokenIds -> Token \cup {Null}] /\ TokensHaveTenant'
  BY DEF SessionsInv, SessionsTypeOK, TokensHaveTenant
<1>7. QED
  BY <1>2, <1>3, <1>4, <1>5, <1>6, GoesOn

\* The tables of TenantAccess do not change.
LEMMA SameAccess ==
  ASSUME SessionsInv, UNCHANGED accessVars
  PROVE  AccessInv' /\ UNCHANGED <<tenant, key, call, contended>>
BY AccessStutter_Inv DEF SessionsInv, accessVars

\* The INSERT of a token.
LEMMA IssueToken_Inv ==
  ASSUME SessionsInv, NEW d \in Devices, IssueToken(d)
  PROVE  SessionsInv' /\ NoRevival
<1> USE AccessAssumption, TokensAssumption
<1> DEFINE row == [tenant |-> auth[d].tenant, revoked |-> FALSE]
<1>1. auth[d] \in AuthCall /\ Sane(auth[d]) /\ auth[d].pc = "issue"
  BY DEF SessionsInv, SessionsTypeOK, Requests, IssueToken
<1>2. AccessInv' /\ UNCHANGED <<tenant, lapsed>>
  BY SameAccess DEF IssueToken
<1>3. CASE UNCHANGED token /\ Answer(d, "error")
  BY <1>2, <1>3, RefusedSound
<1>4. CASE /\ tenant[auth[d].tenant] # Null
           /\ token' = [token EXCEPT ![d] = row]
           /\ IF AfterIssue(auth[d].op) = "done"
                THEN Answer(d, "ok")
                ELSE Step(d, AfterIssue(auth[d].op))
  <2>1. row \in Token /\ row.tenant = auth[d].tenant /\ auth[d].tenant \in TenantIds
    BY <1>1 DEF Token, Sane
  <2>2. /\ token' \in [TokenIds -> Token \cup {Null}]
        /\ token'[d] = row
        /\ \A k \in TokenIds : k # d => token'[k] = token[k]
    BY <1>4, <2>1 DEF SessionsInv, SessionsTypeOK, TokenIds
  <2>3. PICK q \in AuthCall :
          /\ auth' = [auth EXCEPT ![d] = q] /\ Sane(q)
          /\ q.token = auth[d].token /\ q.tenant = auth[d].tenant
          /\ q.pc \notin {"idle", "issue"} /\ ~Retiring(q)
    <3>1. CASE AfterIssue(auth[d].op) = "done"
      <4> DEFINE a == Answered(auth[d], "ok")
      <4>1. /\ a \in AuthCall /\ Sane(a) /\ a.pc = "done" /\ a.op = auth[d].op
            /\ a.token = auth[d].token /\ a.tenant = auth[d].tenant
        BY <1>1, AnsweredSane
      <4>2. auth' = [auth EXCEPT ![d] = a]
        BY <1>4, <3>1 DEF Answer
      <4> HIDE DEF a
      <4>3. ~Retiring(a)
        BY <1>1, <3>1, <4>1 DEF AfterIssue, Retiring, Sane
      <4>4. QED
        BY <4>1, <4>2, <4>3
    <3>2. CASE AfterIssue(auth[d].op) # "done"
      <4> DEFINE a == [auth[d] EXCEPT !.pc = "select"]
      <4>1. auth[d].op = "refresh" /\ Step(d, "select")
        BY <1>4, <3>2 DEF AfterIssue
      <4>2. /\ a \in AuthCall /\ a.pc = "select" /\ a.op = auth[d].op
            /\ a.token = auth[d].token /\ a.tenant = auth[d].tenant
            /\ a.reply = auth[d].reply
        BY <1>1 DEF AuthCall, AuthPC
      <4>3. auth' = [auth EXCEPT ![d] = a]
        BY <4>1 DEF Step
      <4> HIDE DEF a
      <4>4. Sane(a) /\ ~Retiring(a)
        BY <1>1, <4>1, <4>2 DEF Retiring, Sane
      <4>5. QED
        BY <4>2, <4>3, <4>4
    <3>3. QED
      BY <3>1, <3>2
  <2>4. auth'[d] = q
    BY <2>3 DEF SessionsInv, SessionsTypeOK
  <2>5. NoRevival
    BY <1>1, <1>2, <2>2, <2>3, <2>4 DEF NoRevival, Usable
  <2>6. TokenFrame
    BY <1>1, <2>2, <2>3, <2>4 DEF TokenFrame
  <2>7. TokensHaveTenant'
    BY <1>2, <1>4, <2>1, <2>2 DEF SessionsInv, TokensHaveTenant
  <2>8. QED
    BY <1>2, <2>2, <2>3, <2>5, <2>6, <2>7, GoesOn
<1>5. QED
  BY <1>3, <1>4 DEF IssueToken

\* The SELECT of save.
LEMMA SelectToken_Inv ==
  ASSUME SessionsInv, NEW d \in Devices, SelectToken(d)
  PROVE  SessionsInv' /\ NoRevival
<1> USE AccessAssumption, TokensAssumption
<1> DEFINE a == [auth[d] EXCEPT !.pc = "write", !.loaded = token[auth[d].token]]
<1>1. auth[d] \in AuthCall /\ Sane(auth[d]) /\ auth[d].pc = "select"
  BY DEF SessionsInv, SessionsTypeOK, Requests, SelectToken
<1>2. AccessInv' /\ UNCHANGED <<tenant, token, lapsed>>
  BY SameAccess DEF SelectToken
<1>3. auth[d].token \in TokenIds /\ token[auth[d].token] \in Token \cup {Null}
  BY <1>1 DEF Sane, SessionsInv, SessionsTypeOK
<1>4. /\ a \in AuthCall /\ a.pc = "write" /\ a.op = auth[d].op
      /\ a.token = auth[d].token /\ a.tenant = auth[d].tenant
      /\ a.reply = auth[d].reply /\ a.loaded = token[auth[d].token]
  BY <1>1, <1>3 DEF AuthCall, AuthPC
<1>5. PICK q \in AuthCall :
        /\ auth' = [auth EXCEPT ![d] = q]
        /\ q.pc = "write" /\ q.op = auth[d].op
        /\ q.token = auth[d].token /\ q.tenant = auth[d].tenant
        /\ q.reply = auth[d].reply /\ q.loaded = token[q.token]
  <2>1. auth' = [auth EXCEPT ![d] = a]
    BY DEF SelectToken
  <2> HIDE DEF a
  <2>2. QED
    BY <1>4, <2>1
<1>6. Sane(q)
  BY <1>1, <1>5 DEF Sane
<1>7. Retiring(q) => ~Usable(q.token)'
  BY <1>1, <1>2, <1>5 DEF Retiring, Usable, Sane
<1>8. NoRevival /\ TokenFrame
  BY <1>2, TokensKept
<1>9. token' \in [TokenIds -> Token \cup {Null}] /\ TokensHaveTenant'
  BY <1>2 DEF SessionsInv, SessionsTypeOK, TokensHaveTenant
<1>10. QED
  BY <1>2, <1>5, <1>6, <1>7, <1>8, <1>9, GoesOn

\* The write of save: whatever happened since the SELECT, the token is not
\* usable when the request answers.
LEMMA WriteToken_Inv ==
  ASSUME SessionsInv, NEW d \in Devices, WriteToken(d)
  PROVE  SessionsInv' /\ NoRevival
<1> USE AccessAssumption, TokensAssumption
<1> DEFINE lost == auth[d].loaded = Null
<1>1. auth[d] \in AuthCall /\ Sane(auth[d]) /\ auth[d].pc = "write"
  BY DEF SessionsInv, SessionsTypeOK, Requests, WriteToken
<1>2. AccessInv' /\ UNCHANGED <<tenant, lapsed>>
  BY SameAccess DEF WriteToken
<1>3. PICK k \in TokenIds :
        /\ auth[d].token = k /\ auth[d].tenant \in TenantIds
        /\ auth[d].op \in {"refresh", "logout"}
  BY <1>1 DEF Sane
<1>4. CASE UNCHANGED token /\ Answer(d, "error")
  BY <1>2, <1>4, RefusedSound
<1>5. CASE /\ ~(lost /\ (token[k] # Null \/ tenant[auth[d].tenant] = Null))
           /\ token' = [token EXCEPT ![k] =
                IF \/ lost
                   \/ token[k] # Null /\ auth[d].loaded # Retired(d)
                  THEN Retired(d)
                  ELSE token[k]]
           /\ Answer(d, "ok")
  <2>1. Retired(d) \in Token /\ Retired(d).revoked /\ Retired(d).tenant = auth[d].tenant
    BY <1>3 DEF Token, Retired
  <2>2. /\ token' \in [TokenIds -> Token \cup {Null}]
        /\ token'[k] \in {Retired(d), token[k]}
        /\ \A j \in TokenIds : j # k => token'[j] = token[j]
    BY <1>3, <1>5, <2>1 DEF SessionsInv, SessionsTypeOK
  <2>3. token[k] # Null => token[k].tenant = auth[d].tenant
    BY <1>3 DEF SessionsInv, OneOwner
  <2>4. token'[k] = Null \/ token'[k].tenant = auth[d].tenant
    BY <2>1, <2>2, <2>3
  <2>5. ~Usable(k)'
    <3>1. CASE token'[k] = Retired(d)
      BY <2>1, <3>1 DEF Usable
    <3>2. CASE token'[k] = token[k] /\ token[k] = Null
      BY <3>2 DEF Usable
    <3>3. CASE ~lost /\ auth[d].loaded = Retired(d) /\ token'[k] = token[k]
      <4>1. Retiring(auth[d]) /\ ~Usable(k)
        BY <1>1, <1>3, <2>1, <3>3 DEF Retiring, SessionsInv, Requests, Settled
      <4>2. QED
        BY <1>2, <3>3, <4>1 DEF Usable
    <3>4. QED
      BY <1>3, <1>5, <3>1, <3>2, <3>3 DEF SessionsInv, SessionsTypeOK
  <2>6. NoRevival
    BY <1>2, <2>2, <2>5 DEF NoRevival, Usable
  <2>7. TokenFrame
    BY <1>3, <2>2, <2>4 DEF TokenFrame
  <2>8. TokensHaveTenant'
    <3>1. token'[k] # Null => tenant[auth[d].tenant] # Null
      BY <1>3, <1>5, <2>1, <2>3 DEF SessionsInv, SessionsTypeOK, TokensHaveTenant
    <3>2. QED
      BY <1>2, <1>3, <2>2, <2>4, <3>1 DEF SessionsInv, TokensHaveTenant
  <2>9. PICK q \in AuthCall :
          /\ auth' = [auth EXCEPT ![d] = q] /\ Sane(q)
          /\ q.token = auth[d].token /\ q.tenant = auth[d].tenant
          /\ q.pc = "done"
    <3> DEFINE a == Answered(auth[d], "ok")
    <3>1. /\ a \in AuthCall /\ Sane(a) /\ a.pc = "done"
          /\ a.token = auth[d].token /\ a.tenant = auth[d].tenant
      BY <1>1, AnsweredSane
    <3>2. auth' = [auth EXCEPT ![d] = a]
      BY <1>5 DEF Answer
    <3> HIDE DEF a
    <3>3. QED
      BY <3>1, <3>2
  <2>10. QED
    BY <1>2, <1>3, <2>2, <2>5, <2>6, <2>7, <2>8, <2>9, GoesOn
<1>6. QED
  BY <1>3, <1>4, <1>5 DEF WriteToken

\* The UPDATE that revokes the tokens of a tenant.
LEMMA RevokeTokens_Inv ==
  ASSUME SessionsInv, NEW d \in Devices, RevokeTokens(d)
  PROVE  SessionsInv' /\ NoRevival
<1> USE AccessAssumption, TokensAssumption
<1>1. /\ auth[d] \in AuthCall /\ Sane(auth[d])
      /\ auth[d].op = "logoutAll"
  BY DEF SessionsInv, SessionsTypeOK, Requests, RevokeTokens, Sane
<1>2. AccessInv' /\ UNCHANGED <<tenant, lapsed>>
  BY SameAccess DEF RevokeTokens
<1>3. ASSUME NEW k \in TokenIds, token[k] # Null
      PROVE  LET t == [token[k] EXCEPT !.revoked = TRUE]
             IN  t \in Token /\ t.tenant = token[k].tenant /\ t.revoked
  BY <1>3 DEF SessionsInv, SessionsTypeOK, Token
<1>4. /\ token' \in [TokenIds -> Token \cup {Null}]
      /\ \A k \in TokenIds :
           \/ token'[k] = token[k]
           \/ token'[k] # Null /\ token[k] # Null
              /\ token'[k].tenant = token[k].tenant /\ token'[k].revoked
  BY <1>3 DEF SessionsInv, SessionsTypeOK, RevokeTokens
<1>5. NoRevival
  BY <1>2, <1>4 DEF NoRevival, Usable
<1>6. TokenFrame
  BY <1>4 DEF TokenFrame
<1>7. TokensHaveTenant'
  BY <1>2, <1>4 DEF SessionsInv, TokensHaveTenant
<1>8. PICK q \in AuthCall :
        /\ auth' = [auth EXCEPT ![d] = q] /\ Sane(q)
        /\ q.token = auth[d].token /\ q.tenant = auth[d].tenant
        /\ q.op = "logoutAll" /\ q.pc = "done"
  <2> DEFINE a == Answered(auth[d], "ok")
  <2>1. /\ a \in AuthCall /\ Sane(a) /\ a.op = auth[d].op /\ a.pc = "done"
        /\ a.token = auth[d].token /\ a.tenant = auth[d].tenant
    BY <1>1, AnsweredSane
  <2>2. auth' = [auth EXCEPT ![d] = a]
    BY DEF RevokeTokens, Answer
  <2> HIDE DEF a
  <2>3. QED
    BY <1>1, <2>1, <2>2
<1>9. ~Retiring(q)
  BY <1>8 DEF Retiring
<1>10. QED
  BY <1>2, <1>4, <1>5, <1>6, <1>7, <1>8, <1>9, GoesOn

\* A statement of a request fails.
LEMMA AuthFails_Inv ==
  ASSUME SessionsInv, NEW d \in Devices, AuthFails(d)
  PROVE  SessionsInv' /\ NoRevival
<1>1. /\ UNCHANGED <<token, lapsed, tenant, key, call, contended, started>>
      /\ Answer(d, "error")
  BY DEF AuthFails
<1>2. started' \in 0..MaxCalls /\ faults' \in 0..MaxFaults
  BY <1>1, AccessAssumption
  DEF AuthFails, Fault, SessionsInv, AccessInv, AccessTypeOK
<1>3. AccessInv'
  BY <1>1, <1>2, AccessKept DEF SessionsInv
<1>4. QED
  BY <1>1, <1>3, RefusedSound

LEMMA DeviceStep_Inv ==
  ASSUME SessionsInv, NEW d \in Devices, DeviceStep(d)
  PROVE  SessionsInv' /\ NoRevival
BY StartStep_Inv, IssueToken_Inv, SelectToken_Inv, WriteToken_Inv,
   RevokeTokens_Inv, AuthFails_Inv
DEF DeviceStep

\* The requests stay where they are.
LEMMA RequestsWait ==
  ASSUME SessionsInv, NoRevival, TokenFrame, UNCHANGED auth,
         AccessInv', TokensHaveTenant',
         token' \in [TokenIds -> Token \cup {Null}], lapsed' \subseteq TokenIds
  PROVE  SessionsInv'
<1>1. Requests'
  <2>1. \A d \in Devices : Sane(auth'[d]) /\ Settled(auth[d])'
    BY SettledKept
  <2>2. QED
    BY <2>1 DEF Requests, Sane
<1>2. FreshTokens' /\ OneOwner'
  BY ReferencesKept DEF Advanced
<1>3. SessionsTypeOK'
  BY DEF SessionsInv, SessionsTypeOK, AccessInv
<1>4. QED
  BY <1>1, <1>2, <1>3 DEF SessionsInv

\* A token expires.
LEMMA TokenExpires_Inv ==
  ASSUME SessionsInv, NEW k \in TokenIds, TokenExpires(k)
  PROVE  SessionsInv' /\ NoRevival
<1>1. UNCHANGED <<token, auth, accessVars>> /\ lapsed' = lapsed \cup {k}
  BY DEF TokenExpires
<1>2. NoRevival /\ TokenFrame
  BY <1>1, TokensKept
<1>3. AccessInv' /\ UNCHANGED tenant
  BY <1>1, SameAccess
<1>4. /\ TokensHaveTenant' /\ lapsed' \subseteq TokenIds
      /\ token' \in [TokenIds -> Token \cup {Null}]
  BY <1>1, <1>3 DEF SessionsInv, SessionsTypeOK, TokensHaveTenant
<1>5. QED
  BY <1>1, <1>2, <1>3, <1>4, RequestsWait

\* An admin call: the tokens of a tenant that goes go with it.
LEMMA Cascade_Inv ==
  ASSUME SessionsInv, AccessInv', Cascade, UNCHANGED <<lapsed, auth>>
  PROVE  SessionsInv' /\ NoRevival
<1>1. \A k \in TokenIds :
        \/ token'[k] = Null
        \/ token'[k] = token[k] /\ tenant'[token[k].tenant] # Null
  BY DEF Cascade
<1>2. /\ token' \in [TokenIds -> Token \cup {Null}] /\ lapsed' \subseteq TokenIds
      /\ TokensHaveTenant'
  BY <1>1 DEF Cascade, SessionsInv, SessionsTypeOK, TokensHaveTenant
<1>3. NoRevival /\ TokenFrame
  BY <1>1 DEF NoRevival, TokenFrame, Usable
<1>4. QED
  BY <1>2, <1>3, RequestsWait

\* The process restarts, and the requests in progress are gone.
LEMMA SessionsRestart_Inv ==
  ASSUME SessionsInv, AccessRestart, AuthLost, UNCHANGED <<token, lapsed>>
  PROVE  SessionsInv' /\ NoRevival
<1> USE AccessAssumption, TokensAssumption
<1>1. AccessInv' /\ UNCHANGED tenant
  BY AccessRestart_Inv DEF SessionsInv, AccessRestart
<1>2. NoRevival /\ TokenFrame
  BY TokensKept
<1>3. ASSUME NEW d \in Devices
      PROVE  /\ auth'[d] \in AuthCall /\ Sane(auth'[d]) /\ Advanced(d)
             /\ \/ auth'[d] = auth[d]
                \/ auth'[d].reply = "lost" /\ auth'[d].pc = "done"
  <2>1. auth[d] \in AuthCall /\ Sane(auth[d])
    BY DEF SessionsInv, SessionsTypeOK, Requests
  <2>2. CASE auth'[d] = auth[d]
    BY <2>1, <2>2 DEF Advanced
  <2>3. CASE auth'[d] = Answered(auth[d], "lost")
    BY <2>1, <2>3, AnsweredSane DEF Advanced
  <2>4. QED
    BY <2>2, <2>3 DEF AuthLost
<1>4. auth' \in [Devices -> AuthCall]
  <2>1. auth' = [d \in Devices |-> auth'[d]]
    BY DEF AuthLost
  <2>2. QED
    BY <1>3, <2>1
<1>5. Requests'
  <2>1. ASSUME NEW d \in Devices PROVE Settled(auth[d])'
    <3>1. CASE auth'[d] = auth[d]
      BY <1>2, <3>1, SettledKept
    <3>2. CASE auth'[d].reply = "lost" /\ auth'[d].pc = "done"
      BY <3>2 DEF Settled, Retiring
    <3>3. QED
      BY <1>3, <3>1, <3>2
  <2>2. QED
    BY <1>3, <2>1 DEF Requests, Sane
<1>6. FreshTokens' /\ OneOwner'
  BY <1>2, <1>3, ReferencesKept
<1>7. SessionsTypeOK' /\ TokensHaveTenant'
  BY <1>1, <1>4 DEF SessionsInv, SessionsTypeOK, AccessInv, TokensHaveTenant
<1>8. QED
  BY <1>1, <1>2, <1>5, <1>6, <1>7 DEF SessionsInv

\* Nothing happens.
LEMMA SessionsStutter_Inv ==
  ASSUME SessionsInv, UNCHANGED sessionVars
  PROVE  SessionsInv'
<1>1. UNCHANGED <<accessVars, token, lapsed, auth>>
  BY DEF sessionVars, tokenVars
<1>2. AccessInv' /\ UNCHANGED tenant
  BY <1>1, SameAccess
<1>3. NoRevival /\ TokenFrame
  BY <1>1, TokensKept
<1>4. /\ TokensHaveTenant' /\ lapsed' \subseteq TokenIds
      /\ token' \in [TokenIds -> Token \cup {Null}]
  BY <1>1, <1>2 DEF SessionsInv, SessionsTypeOK, TokensHaveTenant
<1>5. QED
  BY <1>1, <1>2, <1>3, <1>4, RequestsWait

LEMMA Next_Inv ==
  ASSUME SessionsInv, Next
  PROVE  SessionsInv' /\ NoRevival
<1>1. ASSUME NEW c \in Calls, CallStep(c), Cascade, UNCHANGED <<lapsed, auth>>
      PROVE  SessionsInv' /\ NoRevival
  BY <1>1, CallStep_Inv, Cascade_Inv DEF SessionsInv
<1>2. QED
  BY <1>1, DeviceStep_Inv, TokenExpires_Inv, SessionsRestart_Inv
  DEF Next

LEMMA SessionsInvariant == Spec => []SessionsInv
<1>1. Init => SessionsInv
  BY SessionsInit_Inv
<1>2. SessionsInv /\ [Next]_sessionVars => SessionsInv'
  BY Next_Inv, SessionsStutter_Inv
<1>3. QED
  BY <1>1, <1>2, PTL DEF Spec

-----------------------------------------------------------------------------

\* Type correctness of the tables and of what the calls and requests hold.
THEOREM SessionsTypeCorrect == Spec => []SessionsTypeOK
BY SessionsInvariant, PTL DEF SessionsInv

\* Keys and verifications belong to tenants that are there, also next to the
\* requests of devices.
THEOREM SessionRowsHold == Spec => []RowsHaveTenant
<1>1. SessionsInv => RowsHaveTenant
  BY DEF SessionsInv, AccessInv
<1>2. QED
  BY <1>1, SessionsInvariant, PTL

\* Every refresh token belongs to a tenant that is there, however deletions
\* overlap the requests that issue and save it.
THEOREM TokensBelong == Spec => []TokensHaveTenant
BY SessionsInvariant, PTL DEF SessionsInv

\* A refresh or a logout that answered has made its token unusable for good.
THEOREM RetiredHold == Spec => []RetiredTokens
<1>1. SessionsInv => RetiredTokens
  BY DEF SessionsInv, Requests, Settled, Retiring, RetiredTokens
<1>2. QED
  BY <1>1, SessionsInvariant, PTL

\* A token becomes usable once, when it is issued.
THEOREM TokensOnce == Spec => TokensNeverRevive
<1>1. SessionsInv /\ [Next]_sessionVars => [NoRevival]_<<token, lapsed>>
  BY Next_Inv DEF sessionVars, tokenVars
<1>2. Spec => [][NoRevival]_<<token, lapsed>>
  BY <1>1, SessionsInvariant, PTL DEF Spec
<1>3. QED
  BY <1>2 DEF TokensNeverRevive, NoRevival

\* A step is one of the admin calls and what goes with it, or leaves their
\* tables and locals alone.
LEMMA StepOfAccess ==
  ASSUME [Next]_sessionVars
  PROVE  AccessNext \/ UNCHANGED <<tenant, key, call, contended>>
<1>1. ASSUME NEW d \in Devices, DeviceStep(d)
      PROVE  UNCHANGED <<tenant, key, call, contended>>
  BY <1>1 DEF DeviceStep, BeginLogin, BeginRefresh, BeginLogout, BeginLogoutAll, Start,
     IssueToken, SelectToken, WriteToken, RevokeTokens, AuthFails, accessVars
<1>2. ASSUME NEW k \in TokenIds, TokenExpires(k)
      PROVE  UNCHANGED <<tenant, key, call, contended>>
  BY <1>2 DEF TokenExpires, accessVars
<1>3. QED
  BY <1>1, <1>2 DEF Next, AccessNext, sessionVars, accessVars

\* What admin calls rely on holds next to the requests of devices.
LEMMA SessionsLock == Spec => []LockInv
<1>1. Init => LockInv
  BY AccessInit_Lock DEF Init
<1>2. SessionsInv /\ LockInv /\ [Next]_sessionVars => LockInv'
  BY StepOfAccess, AccessNext_Lock, Lock_Unchanged DEF SessionsInv
<1>3. QED
  BY <1>1, <1>2, SessionsInvariant, PTL DEF Spec

\* A deletion locks the keys of its tenant out, also next to the requests of
\* devices.
THEOREM SessionDeletionsLockOut == Spec => []DeletionLocksOut
BY SessionsLock, LockedOut, PTL

\* A revoked key stays revoked, also next to the requests of devices.
THEOREM SessionRevocationsHold == Spec => RevocationHolds
<1>1. SessionsInv /\ LockInv /\ [Next]_sessionVars
        => [\A k \in KeyIds : Unrevoked(k) /\ key[k].tenant \notin contended'
                                => AskedActive(k)]_key
  <2>1. UNCHANGED <<tenant, key, call, contended>> => UNCHANGED key
    OBVIOUS
  <2>2. QED
    BY <2>1, StepOfAccess, NextUnrevokes DEF SessionsInv
<1>2. QED
  BY <1>1, SessionsInvariant, SessionsLock, PTL DEF Spec, RevocationHolds

=============================================================================
