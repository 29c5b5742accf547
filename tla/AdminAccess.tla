---------------------------- MODULE AdminAccess ----------------------------
(***************************************************************************)
(* Administrators, their API keys and refresh tokens, and the two guards   *)
(* that every request passes: AdminAuthGuard, then ApiKeyGuard.  The       *)
(* tables admins, admin_api_keys and admin_refresh_tokens are one function *)
(* from ids to rows.                                                       *)
(*                                                                         *)
(* Every SQL statement is an action, with the code up to the next one.     *)
(* Repository.save is a SELECT by id and an UPDATE of the columns that     *)
(* differ from the entity, which the call has read before: a login and     *)
(* every use of an API key save the administrator to note the time.        *)
(*                                                                         *)
(* No code deactivates an administrator or changes a role: operators do,   *)
(* with SQL.  Of the columns, times, names and passwords are left out.     *)
(* Tenants and their keys are TenantAccess's; here a tenant's access token *)
(* or key is the tenant, and works while the tenant is active.  Deletion   *)
(* of one is final: ids are not used again.                                *)
(***************************************************************************)
EXTENDS Naturals, Sequences

CONSTANTS
  Admins, AdminKeys,  \* ids of rows
  MaxTokens,        \* bound: refresh tokens
  SeedRow(_),       \* the row an id has at the start, if any
  Tenants,          \* whom a request may act for
  MaxVisits,        \* bound: HTTP requests
  Presented,        \* routes and credentials that requests come with
  Ops,              \* what the requests of an instance ask for
  MaxChanges,       \* bound: administrators created or changed, expiries,
                    \* and changes of tenants
  MaxFaults,        \* bound: statements that fail
  Null              \* no row, no value

\* Tokens are numbered as they are issued, requests as they arrive.
AdminTokens == 1..MaxTokens
Visits == 1..MaxVisits

Ids == Admins \cup AdminKeys \cup AdminTokens

AdminRow == [status : {"active", "inactive"}, role : {"admin", "viewer"}]
AdminKeyRow == [owner : Admins, status : {"active", "revoked"}]
AdminTokenRow == [owner : Admins, isRevoked : BOOLEAN]
Row == AdminRow \cup AdminKeyRow \cup AdminTokenRow

\* A route of the tenants' API, of the administrators', and one with
\* @RequireRole('super_admin', 'admin').
Route == {"tenant", "admin", "managing"}

Credentials ==
  [route : Route,
   jwt : Admins \cup Tenants \cup {Null},     \* whose access token, if any
   key : AdminKeys \cup Tenants \cup {Null},  \* which API key, if any
   override : Tenants \cup {Null}]            \* X-Tenant-Id

NoCredentials == [route |-> "tenant", jwt |-> Null, key |-> Null, override |-> Null]

\* An entity and the id it is saved under.
Save == [id : Ids, entity : Row]

VisitOp == {"request", "login", "refresh", "logout", "revokeApiKey"}

Visit ==
  [op : VisitOp \cup {Null},
   pc : {"idle", "jwt", "jwtTenant", "key", "keyTenant", "token", "select",
         "update", "done"},
   guard : {"AdminAuthGuard", "ApiKeyGuard", Null},
   with : Credentials,
   subject : Ids \cup {Null},                 \* whom or what it is about
   saves : Seq(Save),                         \* entities still to be saved
   loaded : Row \cup {Null},                  \* what the SELECT of save found
   user : Admins \cup {Null},                 \* request.user.admin
   admin : Admins \cup {Null},                \* request.admin
   tenant : Tenants \cup {Null},              \* request.tenant
   reply : {"ok", "error", Null}]

NoVisit ==
  [op |-> Null, pc |-> "idle", guard |-> Null, with |-> NoCredentials,
   subject |-> Null, saves |-> <<>>, loaded |-> Null, user |-> Null,
   admin |-> Null, tenant |-> Null, reply |-> Null]

ASSUME AdminAssumption ==
  /\ Admins \cap AdminKeys = {} /\ Admins \cap AdminTokens = {}
  /\ AdminKeys \cap AdminTokens = {} /\ Tenants \cap Ids = {}
  /\ Presented \subseteq Credentials
  /\ Null \notin Ids \cup Tenants \cup Row
  /\ Null \notin VisitOp \cup {"ok", "error"}
  /\ MaxTokens \in Nat /\ MaxVisits \in Nat
  /\ MaxChanges \in Nat /\ MaxFaults \in Nat

VARIABLES
  row,        \* [Ids -> Row \cup {Null}]
  expired,    \* keys and refresh tokens whose time has passed
  issued,     \* who holds an access token that has not expired
  active,     \* tenants that are active
  there,      \* tenants whose row is there
  visit,      \* the locals of each request
  wanted,     \* administrators as the operators last left them, and
  contended,  \* ids whose row changed while a request held an older entity
              \* to save: only the properties look at these two
  changes,    \* how many of them there have been
  mishaps     \* how many statements have failed

adminVars == <<row, expired, issued, active, there, visit, wanted, contended,
               changes, mishaps>>

\* A table for each kind of id, with foreign keys to admins.
RowsOK(rows) ==
  /\ \A a \in Admins : rows[a] \in AdminRow \cup {Null}
  /\ \A k \in AdminKeys : rows[k] \in AdminKeyRow \cup {Null}
  /\ \A t \in AdminTokens : rows[t] \in AdminTokenRow \cup {Null}
  /\ \A x \in AdminKeys \cup AdminTokens :
       rows[x] # Null => rows[rows[x].owner] # Null

SeedRows == [x \in Ids |-> SeedRow(x)]

ASSUME SeedAssumption == RowsOK(SeedRows)

AdminTypeOK ==
  /\ DOMAIN row = Ids /\ RowsOK(row)
  /\ expired \subseteq AdminKeys \cup AdminTokens
  /\ issued \subseteq Admins \cup Tenants
  /\ active \subseteq there /\ there \subseteq Tenants
  /\ visit \in [Visits -> Visit]
  /\ wanted \in [Admins -> AdminRow \cup {Null}]
  /\ contended \subseteq Ids
  /\ changes \in 0..MaxChanges /\ mishaps \in 0..MaxFaults

-----------------------------------------------------------------------------
(* Rows and entities.                                                      *)

Exists(x) == row[x] # Null

\* Admin.isActive and AdminApiKey.isActive
IsActive(x) == Exists(x) /\ row[x].status = "active" /\ x \notin expired

\* v still has to read the row of x for a save.
WillSelect(v, x) ==
  \E i \in DOMAIN visit[v].saves :
    visit[v].saves[i].id = x /\ (i = 1 => visit[v].pc # "update")

\* Faulty variant: save writes every column.
SavedWhole(current, entity, found) == entity

\* UPDATE of the columns that differ from what the SELECT found.
Saved(current, entity, found) ==
  [f \in DOMAIN current |->
     IF entity[f] # found[f] THEN entity[f] ELSE current[f]]

\* The row of x changes while others hold an older entity of it.
Contend(x, new) ==
  contended' = contended \cup
    {y \in {x} : new # row[y] /\ \E v \in Visits : WillSelect(v, y)}

SetRow(x, new) == row' = [row EXCEPT ![x] = new]

StartVisit(v, rec) ==
  /\ visit[v].pc = "idle" /\ \A u \in Visits : u < v => visit[u].pc # "idle"
  /\ rec.op \in Ops
  /\ visit' = [visit EXCEPT ![v] = rec]

MoveVisit(v, rec) == visit' = [visit EXCEPT ![v] = rec]

\* The request is answered; what it did not save is lost.
Answered(rec, reply) ==
  [rec EXCEPT !.pc = "done", !.reply = reply, !.saves = <<>>, !.loaded = Null]

-----------------------------------------------------------------------------
(* The guards.                                                             *)

\* A request with its credentials; only administrators' routes have the
\* first guard.
BeginRequest(v) ==
  /\ \E c \in Presented :
       StartVisit(v, [NoVisit EXCEPT
         !.op = "request", !.pc = "jwt", !.with = c,
         !.guard = IF c.route = "tenant" THEN "ApiKeyGuard" ELSE "AdminAuthGuard"])
  /\ UNCHANGED <<row, expired, issued, active, there, wanted, contended, changes, mishaps>>

MayManage(role) == role = "admin"

\* What follows when the guard takes the request for administrator a: the
\* role, then the other guard, or the tenant to act for.
Passed(rec, a, role) ==
  IF rec.guard = "AdminAuthGuard"
    THEN IF rec.with.route = "managing" /\ ~MayManage(role) THEN Answered(rec, "error")
         ELSE [rec EXCEPT !.guard = "ApiKeyGuard", !.pc = "jwt", !.user = a,
                          !.saves = <<>>, !.loaded = Null]
  ELSE IF rec.with.override = Null THEN Answered([rec EXCEPT !.admin = a], "ok")
  ELSE [rec EXCEPT !.admin = a, !.saves = <<>>, !.loaded = Null,
                   !.pc = IF rec.pc = "jwt" THEN "jwtTenant" ELSE "keyTenant"]

\* Faulty variant: a tenant may name another one as well.
ForTenantOverridden(rec, t) ==
  Answered([rec EXCEPT !.tenant = IF rec.with.override = Null THEN t ELSE rec.with.override], "ok")

\* What follows when the second guard takes the request for tenant t.
ForTenant(rec, t) == Answered([rec EXCEPT !.tenant = t], "ok")

\* The first guard looks for an administrator with any token's subject, the
\* second for a tenant with a tenant's.
ReadJwt(v) ==
  LET rec == visit[v]
      live == rec.with.jwt \in issued
  IN  /\ rec.pc = "jwt"
      /\ \/ /\ live /\ rec.with.jwt \in Admins /\ IsActive(rec.with.jwt)
            /\ MoveVisit(v, Passed(rec, rec.with.jwt, row[rec.with.jwt].role))
         \/ /\ live /\ rec.guard = "ApiKeyGuard" /\ rec.with.jwt \in active
            /\ MoveVisit(v, ForTenant(rec, rec.with.jwt))
         \/ /\ ~(live /\ rec.with.jwt \in Admins /\ IsActive(rec.with.jwt))
            /\ ~(live /\ rec.guard = "ApiKeyGuard" /\ rec.with.jwt \in active)
            /\ MoveVisit(v, [rec EXCEPT !.pc = "key"])
      /\ UNCHANGED <<row, expired, issued, active, there, wanted, contended, changes,
                     mishaps>>

\* validateApiKey: the key with its administrator, both to be saved with the
\* time.  The second guard asks for a tenant's key first.
ReadKey(v) ==
  LET rec == visit[v]
      works == rec.with.key \in AdminKeys /\ IsActive(rec.with.key)
                 /\ IsActive(row[rec.with.key].owner)
      acts == rec.guard = "ApiKeyGuard" /\ rec.with.key \in active
  IN  /\ rec.pc = "key"
      /\ MoveVisit(v,
           IF works
             THEN [rec EXCEPT !.pc = "select", !.saves =
                     <<[id |-> rec.with.key, entity |-> row[rec.with.key]],
                       [id |-> row[rec.with.key].owner,
                        entity |-> row[row[rec.with.key].owner]]>>]
           ELSE IF acts THEN ForTenant(rec, rec.with.key)
           ELSE Answered(rec, "error"))
      /\ UNCHANGED <<row, expired, issued, active, there, wanted, contended, changes,
                     mishaps>>

\* What follows when a call inside a guard or a handler throws: looking up
\* the tenant to act for, after a token, is tried and caught, and the guard
\* goes on to the key with request.admin set.
Thrown(rec) ==
  IF rec.pc = "jwtTenant" THEN [rec EXCEPT !.pc = "key"] ELSE Answered(rec, "error")

\* getTenantById throws unless the tenant is there; then it is acted for if
\* it is active, and no tenant otherwise.
ReadOverride(v) ==
  LET rec == visit[v]
      named == rec.with.override
  IN  /\ rec.pc \in {"jwtTenant", "keyTenant"}
      /\ MoveVisit(v,
           IF named \notin there THEN Thrown(rec)
           ELSE Answered([rec EXCEPT !.tenant = IF named \in active THEN named ELSE Null], "ok"))
      /\ UNCHANGED <<row, expired, issued, active, there, wanted, contended, changes,
                     mishaps>>

-----------------------------------------------------------------------------
(* Logins and tokens; requests refused by their first read change nothing  *)
(* and are left out.                                                       *)

BeginLogin(v) ==
  /\ \E a \in Admins :
       /\ IsActive(a)
       /\ StartVisit(v, [NoVisit EXCEPT
            !.op = "login", !.pc = "token", !.subject = a,
            !.saves = <<[id |-> a, entity |-> row[a]]>>])
  /\ UNCHANGED <<row, expired, issued, active, there, wanted, contended, changes, mishaps>>

\* Faulty variant: the entity that is saved is as it was read.
RetiredUnmarked(r) == r

\* storedToken.isRevoked = true
Retired(r) == [r EXCEPT !.isRevoked = TRUE]

\* refreshAccessToken does not look at the administrator's status.
BeginRefresh(v) ==
  /\ \E t \in AdminTokens :
       /\ Exists(t) /\ ~row[t].isRevoked /\ t \notin expired
       /\ StartVisit(v, [NoVisit EXCEPT
            !.op = "refresh", !.pc = "token", !.subject = t,
            !.saves = <<[id |-> t, entity |-> Retired(row[t])]>>])
  /\ UNCHANGED <<row, expired, issued, active, there, wanted, contended, changes, mishaps>>

Holder(rec) == IF rec.op = "login" THEN rec.subject ELSE row[rec.subject].owner

\* generateTokens
InsertToken(v) ==
  LET rec == visit[v]
  IN  /\ rec.pc = "token"
      /\ \E new \in AdminTokens :
           /\ ~Exists(new) /\ \A t \in AdminTokens : t < new => Exists(t)
           /\ SetRow(new, [owner |-> Holder(rec), isRevoked |-> FALSE])
      /\ MoveVisit(v, [rec EXCEPT !.pc = "select"])
      /\ UNCHANGED <<expired, issued, active, there, wanted, contended, changes, mishaps>>

BeginLogout(v) ==
  /\ \E t \in AdminTokens :
       /\ Exists(t)
       /\ StartVisit(v, [NoVisit EXCEPT
            !.op = "logout", !.pc = "select", !.subject = t,
            !.saves = <<[id |-> t, entity |-> Retired(row[t])]>>])
  /\ UNCHANGED <<row, expired, issued, active, there, wanted, contended, changes, mishaps>>

BeginRevokeApiKey(v) ==
  /\ \E k \in AdminKeys :
       /\ Exists(k)
       /\ StartVisit(v, [NoVisit EXCEPT
            !.op = "revokeApiKey", !.pc = "select", !.subject = k,
            !.saves = <<[id |-> k, entity |-> [row[k] EXCEPT !.status = "revoked"]]>>])
  /\ UNCHANGED <<row, expired, issued, active, there, wanted, contended, changes, mishaps>>

-----------------------------------------------------------------------------
(* Repository.save.                                                        *)

SelectForSave(v) ==
  LET rec == visit[v]
  IN  /\ rec.pc = "select"
      /\ MoveVisit(v, [rec EXCEPT !.pc = "update", !.loaded = row[Head(rec.saves).id]])
      /\ UNCHANGED <<row, expired, issued, active, there, wanted, contended, changes,
                     mishaps>>

\* The last entity that a guard saves is the administrator.
AfterSaves(rec) ==
  IF rec.op = "request"
    THEN Passed(rec, Head(rec.saves).id, Head(rec.saves).entity.role)
    ELSE Answered(rec, "ok")

UpdateForSave(v) ==
  LET rec == visit[v]
      x == Head(rec.saves).id
      new == Saved(row[x], Head(rec.saves).entity, rec.loaded)
  IN  /\ rec.pc = "update"
      /\ SetRow(x, new)
      /\ Contend(x, new)
      /\ MoveVisit(v, IF Len(rec.saves) > 1
                        THEN [rec EXCEPT !.pc = "select", !.loaded = Null,
                                         !.saves = Tail(rec.saves)]
                        ELSE AfterSaves(rec))
      /\ issued' = issued \cup
           {h \in Admins : rec.op \in {"login", "refresh"} /\ h = Holder(rec)}
      /\ UNCHANGED <<expired, active, there, wanted, changes, mishaps>>

\* A statement is rejected.
StatementFails(v) ==
  /\ mishaps < MaxFaults
  /\ mishaps' = mishaps + 1
  /\ visit[v].pc \in {"jwtTenant", "keyTenant", "token", "select", "update"}
  /\ MoveVisit(v, Thrown(visit[v]))
  /\ UNCHANGED <<row, expired, issued, active, there, wanted, contended, changes>>

-----------------------------------------------------------------------------
(* Without a request.                                                      *)

\* createAdmin, and an operator's INSERT.
CreateAdmin ==
  /\ changes < MaxChanges /\ changes' = changes + 1
  /\ \E a \in Admins, r \in {"admin", "viewer"} :
       LET new == [status |-> "active", role |-> r]
       IN  ~Exists(a) /\ SetRow(a, new) /\ wanted' = [wanted EXCEPT ![a] = new]
  /\ UNCHANGED <<expired, issued, active, there, visit, contended, mishaps>>

\* An operator's UPDATE of status or role.
ChangeAdmin ==
  /\ changes < MaxChanges /\ changes' = changes + 1
  /\ \E a \in Admins, new \in AdminRow :
       /\ Exists(a) /\ new # row[a]
       /\ SetRow(a, new) /\ Contend(a, new)
       /\ wanted' = [wanted EXCEPT ![a] = new]
  /\ UNCHANGED <<expired, issued, active, there, visit, mishaps>>

\* AdminAuthService.generateApiKey, for an administrator who is there.
GenerateApiKey ==
  /\ \E k \in AdminKeys, a \in Admins :
       /\ ~Exists(k) /\ Exists(a)
       /\ SetRow(k, [owner |-> a, status |-> "active"])
  /\ UNCHANGED <<expired, issued, active, there, visit, wanted, contended, changes, mishaps>>

\* One UPDATE; it has no caller.
RevokeAllRefreshTokens ==
  /\ \E a \in Admins :
       row' = [x \in Ids |->
                 IF x \in AdminTokens /\ Exists(x) /\ row[x].owner = a
                   THEN Retired(row[x]) ELSE row[x]]
  /\ contended' = contended \cup
       {x \in AdminTokens : row'[x] # row[x] /\ \E v \in Visits : WillSelect(v, x)}
  /\ UNCHANGED <<expired, issued, active, there, visit, wanted, changes, mishaps>>

\* Time passes.
Expire ==
  /\ changes < MaxChanges /\ changes' = changes + 1
  /\ \/ /\ \E x \in AdminKeys \cup AdminTokens :
             Exists(x) /\ expired' = expired \cup {x}
        /\ UNCHANGED issued
     \/ /\ \E h \in issued : issued' = issued \ {h}
        /\ UNCHANGED expired
  /\ UNCHANGED <<row, active, there, visit, wanted, contended, mishaps>>

\* See TenantAccess: activation, deactivation, deletion of the row.
TenantChanges ==
  /\ changes < MaxChanges /\ changes' = changes + 1
  /\ \E t \in there :
       \/ /\ active' = IF t \in active THEN active \ {t} ELSE active \cup {t}
          /\ UNCHANGED there
       \/ active' = active \ {t} /\ there' = there \ {t}
  /\ UNCHANGED <<row, expired, issued, visit, wanted, contended, mishaps>>

-----------------------------------------------------------------------------

AdminInit ==
  /\ row = SeedRows
  /\ expired = {} /\ issued = Tenants /\ active = Tenants /\ there = Tenants
  /\ visit = [v \in Visits |-> NoVisit]
  /\ wanted = [a \in Admins |-> SeedRow(a)]
  /\ contended = {} /\ changes = 0 /\ mishaps = 0

AdminNext ==
  \/ \E v \in Visits :
       \/ BeginRequest(v) \/ ReadJwt(v) \/ ReadKey(v) \/ ReadOverride(v)
       \/ BeginLogin(v) \/ BeginRefresh(v) \/ BeginLogout(v)
       \/ BeginRevokeApiKey(v)
       \/ InsertToken(v) \/ SelectForSave(v) \/ UpdateForSave(v)
       \/ StatementFails(v)
  \/ CreateAdmin \/ ChangeAdmin \/ GenerateApiKey \/ RevokeAllRefreshTokens
  \/ Expire \/ TenantChanges

AdminSpec == AdminInit /\ [][AdminNext]_adminVars

-----------------------------------------------------------------------------
(* Properties.                                                             *)

(* An administrator stays as the operators left it: deactivation and a     *)
(* change of role are not undone by the logins and API-key uses that save  *)
(* the administrator around them, unless one read the row before the       *)
(* change and selects it for its save after.                               *)
OperatorsDecide == \A a \in Admins \ contended : row[a] = wanted[a]

(* What a finished call has retired stays retired, whatever calls are      *)
(* under way: the refresh token of a logout or of a refresh always, an API *)
(* key unless a request that found it active overlapped.                   *)
RetiredStay ==
  \A v \in Visits :
    visit[v].reply = "ok" =>
      /\ visit[v].op \in {"refresh", "logout"} => row[visit[v].subject].isRevoked
      /\ visit[v].op = "revokeApiKey" /\ visit[v].subject \notin contended =>
           row[visit[v].subject].status = "revoked"

(* The two guards of an administrators' route take a request with one      *)
(* credential for the same administrator.  The tenant a request acts for   *)
(* is the one it belongs to or, for an administrator, the one it asked     *)
(* for; an administrator whose token came with a tenant's key acts for     *)
(* that key's tenant only if it asked for another one.                     *)
ActsAsPresented ==
  \A v \in Visits :
    LET rec == visit[v]
    IN  rec.op = "request" /\ rec.reply = "ok" =>
          /\ rec.with.route # "tenant" /\ (rec.with.jwt = Null \/ rec.with.key = Null) =>
               rec.user # Null /\ rec.admin = rec.user
          /\ \/ rec.admin = Null /\ rec.tenant \in {rec.with.jwt, rec.with.key}
             \/ rec.admin # Null /\ rec.tenant \in {rec.with.override, Null}
             \/ /\ rec.admin = rec.with.jwt /\ rec.tenant = rec.with.key
                /\ rec.with.override \notin {Null, rec.tenant}
=============================================================================
