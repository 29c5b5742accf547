--------------------------- MODULE RefreshTokens ----------------------------
(***************************************************************************)
(* The logins of tenants: the table tenant_refresh_tokens and the calls    *)
(* that write it (TenantAuthController, JwtService), next to the admin     *)
(* calls of TenantAccess that suspend and delete tenants.  The login of    *)
(* administrators is the same code over admin_refresh_tokens.              *)
(*                                                                         *)
(* Access tokens are not stored and cannot be revoked; they are left out.  *)
(* A request issues at most one token, so its name is the token's id.      *)
(***************************************************************************)
EXTENDS TenantAccess

CONSTANTS
  SeedTokens,  \* the refresh tokens there are at the start
  Devices      \* requests of the tenants' devices, and the tokens they issue

TokenIds == SeedTokens \cup Devices

Token == [tenant : TenantIds, revoked : BOOLEAN]

AuthOp == {"login", "refresh", "logout", "logoutAll"}

AuthPC == {"idle", "issue", "select", "write", "revokeAll", "done"}

AuthCall ==
  [op : AuthOp \cup {Null}, pc : AuthPC,
   tenant : TenantIds \cup {Null}, token : TokenIds \cup {Null},
   loaded : Token \cup {Null},     \* what the SELECT of save found
   reply : {"ok", "error", "lost", Null}]

NoAuthCall == [op |-> Null, pc |-> "idle", tenant |-> Null, token |-> Null,
               loaded |-> Null, reply |-> Null]

ASSUME TokensAssumption ==
  /\ Null \notin TokenIds \cup Token \cup AuthOp
  /\ SeedTokens \cap Devices = {}

VARIABLES
  token,   \* tenant_refresh_tokens: [TokenIds -> Token \cup {Null}]
  lapsed,  \* tokens whose expires_at has passed
  auth     \* the locals of each request

tokenVars == <<token, lapsed, auth>>
sessionVars == <<accessVars, tokenVars>>

SessionsTypeOK ==
  /\ AccessTypeOK
  /\ token \in [TokenIds -> Token \cup {Null}]
  /\ lapsed \subseteq TokenIds
  /\ auth \in [Devices -> AuthCall]

\* !storedToken.isRevoked && !storedToken.isExpired()
Usable(k) == token[k] # Null /\ ~token[k].revoked /\ k \notin lapsed

-----------------------------------------------------------------------------
(* Moving a request along.                                                 *)

Start(d, rec) ==
  /\ auth[d].pc = "idle"
  /\ Started
  /\ auth' = [auth EXCEPT ![d] = rec]
  /\ UNCHANGED <<token, lapsed, tenant, key, call, contended, faults>>

Step(d, pc) == auth' = [auth EXCEPT ![d].pc = pc]

Answered(rec, reply) == [rec EXCEPT !.pc = "done", !.reply = reply,
                                    !.loaded = Null]

Answer(d, reply) == auth' = [auth EXCEPT ![d] = Answered(@, reply)]

-----------------------------------------------------------------------------
(* The reads that start a request; one that is refused changes nothing.    *)

\* login: the tenant is read before its password is compared.
BeginLogin(d) ==
  \E t \in TenantIds :
    /\ tenant[t] = "active"
    /\ Start(d, [NoAuthCall EXCEPT !.op = "login", !.pc = "issue", !.tenant = t])

\* refreshTenantAccessToken; the tenant's status is not looked at.
BeginRefresh(d) ==
  \E k \in TokenIds :
    /\ Usable(k)
    /\ Start(d, [NoAuthCall EXCEPT !.op = "refresh", !.pc = "issue",
                                   !.tenant = token[k].tenant, !.token = k])

\* revokeTenantRefreshToken
BeginLogout(d) ==
  \E k \in TokenIds :
    /\ token[k] # Null
    /\ Start(d, [NoAuthCall EXCEPT !.op = "logout", !.pc = "select",
                                   !.tenant = token[k].tenant, !.token = k])

\* logoutAll, once the guard has found the tenant active.
BeginLogoutAll(d) ==
  \E t \in TenantIds :
    /\ tenant[t] = "active"
    /\ Start(d, [NoAuthCall EXCEPT !.op = "logoutAll", !.pc = "revokeAll",
                                   !.tenant = t])

-----------------------------------------------------------------------------
(* The statements.                                                         *)

\* Faulty variant: the refreshed token is left as it is.
AfterIssueAnswered(op) == "done"

\* generateTenantTokens is the end of a login and the middle of a refresh.
AfterIssue(op) == IF op = "refresh" THEN "select" ELSE "done"

\* generateTenantTokens: the INSERT, if the tenant is still there.
IssueToken(d) ==
  /\ auth[d].pc = "issue"
  /\ IF tenant[auth[d].tenant] = Null
       THEN UNCHANGED token /\ Answer(d, "error")
       ELSE /\ token' = [token EXCEPT ![d] = [tenant |-> auth[d].tenant,
                                              revoked |-> FALSE]]
            /\ IF AfterIssue(auth[d].op) = "done"
                 THEN Answer(d, "ok")
                 ELSE Step(d, AfterIssue(auth[d].op))
  /\ UNCHANGED <<lapsed, accessVars>>

\* Faulty variant: isRevoked is not set before the save.
RetiredUnset(d) == [tenant |-> auth[d].tenant, revoked |-> FALSE]

\* storedToken.isRevoked = true: the entity that is saved.
Retired(d) == [tenant |-> auth[d].tenant, revoked |-> TRUE]

\* The SELECT of save.
SelectToken(d) ==
  /\ auth[d].pc = "select"
  /\ auth' = [auth EXCEPT ![d].pc = "write", ![d].loaded = token[auth[d].token]]
  /\ UNCHANGED <<token, lapsed, accessVars>>

\* The write of save: nothing when the row already says so, an INSERT when
\* the row was gone, for which the tenant has to be there.
WriteToken(d) ==
  LET k == auth[d].token
      lost == auth[d].loaded = Null
  IN  /\ auth[d].pc = "write"
      /\ IF lost /\ (token[k] # Null \/ tenant[auth[d].tenant] = Null)
           THEN UNCHANGED token /\ Answer(d, "error")
           ELSE /\ token' = [token EXCEPT ![k] =
                     IF \/ lost
                        \/ token[k] # Null /\ auth[d].loaded # Retired(d)
                       THEN Retired(d)
                       ELSE token[k]]
                /\ Answer(d, "ok")
      /\ UNCHANGED <<lapsed, accessVars>>

\* revokeAllTenantRefreshTokens
RevokeTokens(d) ==
  /\ auth[d].pc = "revokeAll"
  /\ token' = [k \in TokenIds |->
       IF token[k] # Null /\ token[k].tenant = auth[d].tenant
         THEN [token[k] EXCEPT !.revoked = TRUE]
         ELSE token[k]]
  /\ Answer(d, "ok")
  /\ UNCHANGED <<lapsed, accessVars>>

\* A statement is rejected.
AuthFails(d) ==
  /\ auth[d].pc \notin {"idle", "done"}
  /\ Fault
  /\ Answer(d, "error")
  /\ UNCHANGED <<token, lapsed, tenant, key, call, contended, started>>

TokenExpires(k) ==
  /\ token[k] # Null
  /\ k \notin lapsed
  /\ lapsed' = lapsed \cup {k}
  /\ UNCHANGED <<token, auth, accessVars>>

\* Faulty variant: no foreign key.
CascadeNone == UNCHANGED token

\* ON DELETE CASCADE: the tokens of a tenant go with it.
Cascade ==
  token' = [k \in TokenIds |->
    IF token[k] # Null /\ tenant'[token[k].tenant] = Null THEN Null ELSE token[k]]

\* The requests that a restart of the process ends.
AuthLost ==
  auth' = [d \in Devices |->
    IF auth[d].pc \in {"idle", "done"}
      THEN auth[d]
      ELSE Answered(auth[d], "lost")]

-----------------------------------------------------------------------------

Init ==
  /\ AccessInit
  /\ \E owner \in [SeedTokens -> Tenants] :
       token = [k \in TokenIds |-> IF k \in SeedTokens
                                     THEN [tenant |-> owner[k], revoked |-> FALSE]
                                     ELSE Null]
  /\ lapsed = {}
  /\ auth = [d \in Devices |-> NoAuthCall]

DeviceStep(d) ==
  \/ BeginLogin(d) \/ BeginRefresh(d) \/ BeginLogout(d) \/ BeginLogoutAll(d)
  \/ IssueToken(d) \/ SelectToken(d) \/ WriteToken(d) \/ RevokeTokens(d)
  \/ AuthFails(d)

Next ==
  \/ \E d \in Devices : DeviceStep(d)
  \/ \E k \in TokenIds : TokenExpires(k)
  \/ (\E c \in Calls : CallStep(c)) /\ Cascade /\ UNCHANGED <<lapsed, auth>>
  \/ AccessRestart /\ AuthLost /\ UNCHANGED <<token, lapsed>>

Spec == Init /\ [][Next]_sessionVars

-----------------------------------------------------------------------------
(* Properties.                                                             *)

(* Every refresh token belongs to a tenant that is in the table: also one  *)
(* issued, or saved again, while the tenant was being deleted.             *)
TokensHaveTenant ==
  \A k \in TokenIds : token[k] # Null => tenant[token[k].tenant] # Null

(* A token becomes usable once, when it is issued: no save of an older     *)
(* entity brings a revoked, expired or deleted token back.                 *)
TokensNeverRevive ==
  [][\A k \in TokenIds :
       ~Usable(k) /\ Usable(k)' => /\ k \in Devices
                                   /\ auth[k].pc = "issue"
                                   /\ auth'[k].pc # "issue"]_<<token, lapsed>>

(* "Each refresh invalidates the old refresh token": once a refresh or a   *)
(* logout has answered, the token it was made with is not usable, whatever *)
(* other refreshes, logouts and deletions did in between.                  *)
RetiredTokens ==
  \A d \in Devices :
    auth[d].op \in {"refresh", "logout"} /\ auth[d].reply = "ok"
      => ~Usable(auth[d].token)

=============================================================================
