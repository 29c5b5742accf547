--------------------------- MODULE Verifications ----------------------------
(***************************************************************************)
(* The core of the adapter: VerificationsService, which runs a tenant's    *)
(* identity verifications at KYC providers and records them.  One HTTP     *)
(* request is one process; each await of its handler (a SQL statement, a   *)
(* call of a provider) is an action of its own, so requests interleave     *)
(* with one another, with the admin calls of ProviderAssignments, with the *)
(* providers' own progress and with failures.                              *)
(*                                                                         *)
(* A request that creates a verification stores at most one row and at     *)
(* most one account, so the request's name serves as the identifier of     *)
(* both (gen_random_uuid never repeats) and of the provider-side session   *)
(* (provider_verification_id is issued by the provider for that request).  *)
(*                                                                         *)
(* Definitions marked "Faulty variant" are not part of the specification:  *)
(* each is a plausible mistake in the definition after it, and shows that  *)
(* a property would notice.                                                *)
(***************************************************************************)
EXTENDS ProviderAssignments, VerificationStatus

CONSTANTS
  Requests,    \* HTTP requests, and the rows they may store
  Documents,   \* identities printed on documents: nationality, number
  Behaviour,   \* what each registered provider does, see KycProviders
  Ops,         \* the operations the requests of an instance ask for
  MaxFaults    \* bound: statements, calls and processes that fail

ProviderBehaviour ==
  [initial : SUBSET Status, cancellable : SUBSET OpenStatus, remote : BOOLEAN]

ASSUME BehaviourAssumption == Behaviour \in [Registered -> ProviderBehaviour]
ASSUME OpsAssumption == Ops \subseteq {"create", "get", "cancel"}
ASSUME FaultsAssumption == MaxFaults \in Nat
VARIABLES
  tenantActive,  \* tenants.status = 'active'
  verification,  \* verifications: [Requests -> Row \cup {Null}]
  account,       \* accounts: [Requests -> Account \cup {Null}]
  session,       \* per provider, the status of the sessions it holds
  overdue,       \* verifications whose expires_at has passed
  request,       \* the locals of each request
  faults         \* how many failures have happened

requestVars ==
  <<tenantActive, verification, account, session, overdue, request, faults>>
vars == <<assignmentVars, requestVars>>

Row == [tenant : Tenants, account : Requests \cup {Null}, provider : Registered,
        config : ConfigIds, status : Status]

Account == [tenant : Tenants, reference : Documents]

PC == {"idle", "account", "select", "call", "store", "save", "link", "done"}

\* Answers: ok (the method returned; cancelVerification true), refused
\* (cancelVerification false), error (an exception), lost (the process died).
Reply == {"ok", "refused", "error", "lost"}

Request ==
  [op : {"create", "get", "cancel", Null}, pc : PC,
   tenant : Tenants \cup {Null},
   subject : Requests \cup {Null},     \* accountId, or the verification's id
   document : Documents \cup {Null},
   seen : Status \cup {Null},          \* status in the row this request read
   config : ConfigIds \cup {Null},     \* what getProviderForTenant returned
   provider : Registered \cup {Null},
   answer : Status \cup {Null},        \* status the provider reported
   reply : Reply \cup {Null}]

NoRequest ==
  [op |-> Null, pc |-> "idle", tenant |-> Null, subject |-> Null,
   document |-> Null, seen |-> Null, config |-> Null, provider |-> Null,
   answer |-> Null, reply |-> Null]

ASSUME NullDataAssumption ==
  /\ Null \notin Requests \cup Documents \cup Status \cup Reply
  /\ Null \notin {"create", "get", "cancel"}
  /\ Null \notin Row
  /\ Null \notin Account

TypeOK ==
  /\ AssignmentsTypeOK
  /\ tenantActive \in [Tenants -> BOOLEAN]
  /\ verification \in [Requests -> Row \cup {Null}]
  /\ account \in [Requests -> Account \cup {Null}]
  /\ session \in [Registered -> [Requests -> Status \cup {Null}]]
  /\ overdue \subseteq Requests
  /\ request \in [Requests -> Request]
  /\ faults \in 0..MaxFaults

-----------------------------------------------------------------------------
(* The SQL statements, as far as their columns decide what they do.        *)

\* The columns of the table verifications.
VerificationColumns ==
  {"id", "tenant_id", "account_id", "provider_id", "provider_config_id",
   "provider_verification_id", "verification_type", "status",
   "verification_link", "callback_url", "expires_at", "result",
   "request_metadata", "response_metadata", "error_details", "completed_at",
   "created_at", "updated_at"}

\* Faulty variant: expires_at is loaded too, and the rest left as it is.
LoadedColumnsWithExpiry == {"id", "status", "expires_at"}

\* The columns getVerificationFromDatabase selects and mapDatabaseToResult
\* copies: what a handler knows of the row it read.
LoadedColumns ==
  {"id", "tenant_id", "account_id", "provider_name",
   "provider_verification_id", "status", "verification_type", "result",
   "created_at", "updated_at"}

\* Faulty variant: the statement names existing columns, so it takes effect,
\* still without looking at the status again.
StatusUpdateColumnsExisting == {"status", "result", "updated_at", "id"}

\* The columns the UPDATE of updateVerificationStatus names.
StatusUpdateColumns == {"status", "result_data", "confidence_score",
                        "updated_at", "id"}

\* Faulty variant: WHERE v.id = $1
VisibleToAll(v, t) == verification[v] # Null

\* WHERE v.id = $1 AND v.tenant_id = $2
Visible(v, t) == verification[v] # Null /\ verification[v].tenant = t

\* verification.expiresAt && new Date() > verification.expiresAt, evaluated
\* on the loaded record.
IsExpired(v) == "expires_at" \in LoadedColumns /\ v \in overdue

\* The table after updateVerificationStatus(v, s).  PostgreSQL rejects the
\* statement when it names a column the table does not have.
UpdateVerificationStatus(v, s) ==
  IF StatusUpdateColumns \subseteq VerificationColumns
    THEN [verification EXCEPT ![v].status = s]
    ELSE verification

-----------------------------------------------------------------------------
(* Moving a request through its handler.                                   *)

Goto(r, pc) == request' = [request EXCEPT ![r].pc = pc]

Finish(r, reply) ==
  request' = [request EXCEPT ![r].pc = "done", ![r].reply = reply]

\* A rejected await: getVerification catches what happens between its read
\* and its return and answers from the row it read; the other two rethrow.
Rejected(r) ==
  Finish(r, IF request[r].op = "get" THEN "ok" ELSE "error")

Fault == faults < MaxFaults /\ faults' = faults + 1

-----------------------------------------------------------------------------
(* Starting a request.                                                     *)

\* createVerification: validateTenant.
BeginCreate(r) ==
  /\ "create" \in Ops
  /\ request[r].pc = "idle"
  /\ \E t \in Tenants, a \in Requests \cup {Null}, d \in Documents :
       request' = [request EXCEPT ![r] =
         [NoRequest EXCEPT
           !.op = "create", !.tenant = t, !.subject = a, !.document = d,
           !.pc = CASE ~tenantActive[t] -> "done"
                    [] tenantActive[t] /\ a = Null -> "select"
                    [] OTHER -> "account",
           !.reply = IF tenantActive[t] THEN Null ELSE "error"]]
  /\ UNCHANGED <<tenantActive, verification, account, session, overdue, faults>>

\* Faulty variant: findOne({ id: accountId })
AccountFoundAnyTenant(a, t) == account[a] # Null

\* findOne({ id: accountId, tenantId })
AccountFound(a, t) == account[a] # Null /\ account[a].tenant = t

\* createVerification: validateAccount.
ValidateAccount(r) ==
  /\ request[r].pc = "account"
  /\ IF AccountFound(request[r].subject, request[r].tenant)
       THEN Goto(r, "select")
       ELSE Finish(r, "error")
  /\ UNCHANGED <<tenantActive, verification, account, session, overdue, faults>>

\* getVerification: the read of the row and checkAndUpdateExpiration.
BeginGet(r) ==
  /\ "get" \in Ops
  /\ request[r].pc = "idle"
  /\ \E t \in Tenants, v \in Requests :
       LET started == [NoRequest EXCEPT !.op = "get", !.tenant = t,
                                        !.subject = v]
           status == verification[v].status
           expires == status \in OpenStatus /\ IsExpired(v)
       IN  IF ~Visible(v, t)
             THEN /\ request' = [request EXCEPT ![r] =
                       [started EXCEPT !.pc = "done", !.reply = "error"]]
                  /\ UNCHANGED verification
             ELSE /\ verification' =
                       IF expires
                         THEN [verification EXCEPT ![v].status = "expired"]
                         ELSE verification
                  /\ request' = [request EXCEPT ![r] =
                       IF status \in OpenStatus /\ ~expires
                         THEN [started EXCEPT !.seen = status, !.pc = "select"]
                         ELSE [started EXCEPT !.seen = status, !.pc = "done",
                                              !.reply = "ok"]]
  /\ UNCHANGED <<tenantActive, account, session, overdue, faults>>

\* cancelVerification: the read of the row and the test of its status.
BeginCancel(r) ==
  /\ "cancel" \in Ops
  /\ request[r].pc = "idle"
  /\ \E t \in Tenants, v \in Requests :
       LET started == [NoRequest EXCEPT !.op = "cancel", !.tenant = t,
                                        !.subject = v]
           open == Visible(v, t) /\ verification[v].status \in OpenStatus
       IN  request' = [request EXCEPT ![r] =
             IF open
               THEN [started EXCEPT !.seen = verification[v].status,
                                    !.pc = "select"]
               ELSE [started EXCEPT !.pc = "done", !.reply = "error"]]
  /\ UNCHANGED <<tenantActive, verification, account, session, overdue, faults>>

-----------------------------------------------------------------------------
(* getProviderForTenant, in all three handlers: the configuration the      *)
(* tenant has NOW, whatever provider the verification was created with.    *)

SelectProvider(r) ==
  /\ request[r].pc = "select"
  /\ \E c \in Selection(request[r].tenant) :
       /\ config[c].provider \in Registered
       /\ request' = [request EXCEPT ![r].pc = "call", ![r].config = c,
                                     ![r].provider = config[c].provider]
  /\ UNCHANGED <<tenantActive, verification, account, session, overdue, faults>>

\* ProviderNotConfiguredException, or ProvidersFactory.getProvider throws.
NoProvider(r) ==
  /\ request[r].pc = "select"
  /\ \A c \in Selection(request[r].tenant) : config[c].provider \notin Registered
  /\ Rejected(r)
  /\ UNCHANGED <<tenantActive, verification, account, session, overdue, faults>>

-----------------------------------------------------------------------------
(* The calls of the provider.                                              *)

CallCreate(r) ==
  LET p == request[r].provider
  IN  /\ request[r].pc = "call" /\ request[r].op = "create"
      /\ \E s \in Behaviour[p].initial :
           /\ session' = [session EXCEPT ![p][r] = s]
           /\ request' = [request EXCEPT ![r].pc = "store", ![r].answer = s]
      /\ UNCHANGED <<tenantActive, verification, account, overdue, faults>>

\* getVerificationStatus throws for an id the provider does not know; a
\* status equal to the one read needs no update.
CallStatus(r) ==
  LET s == session[request[r].provider][request[r].subject]
  IN  /\ request[r].pc = "call" /\ request[r].op = "get"
      /\ CASE s = Null -> Rejected(r)
           [] s = request[r].seen -> Finish(r, "ok")
           [] OTHER -> request' = [request EXCEPT ![r].pc = "store",
                                                  ![r].answer = s]
      /\ UNCHANGED <<tenantActive, verification, account, session, overdue,
                     faults>>

\* Faulty variant: success is reported for an unknown id, as an idempotent
\* DELETE would.
AgreesOrUnknown(p, v) == session[p][v] \in Behaviour[p].cancellable \cup {Null}

\* cancelVerification of the provider returns true; false for an unknown id.
Agrees(p, v) == session[p][v] \in Behaviour[p].cancellable

CallCancel(r) ==
  LET p == request[r].provider
      v == request[r].subject
  IN  /\ request[r].pc = "call" /\ request[r].op = "cancel"
      /\ IF Agrees(p, v)
           THEN /\ session' = [session EXCEPT ![p][v] = "cancelled"]
                /\ Goto(r, "store")
           ELSE /\ UNCHANGED session
                /\ Finish(r, "refused")
      /\ UNCHANGED <<tenantActive, verification, account, overdue, faults>>

\* The call fails before it has an effect.
CallFails(r) ==
  /\ request[r].pc = "call"
  /\ Fault
  /\ Rejected(r)
  /\ UNCHANGED <<tenantActive, verification, account, session, overdue>>

\* A remote provider did what was asked and its answer is lost.
AnswerLost(r) ==
  LET p == request[r].provider
      v == request[r].subject
  IN  /\ request[r].pc = "call"
      /\ Behaviour[p].remote
      /\ \/ /\ request[r].op = "create"
            /\ \E s \in Behaviour[p].initial :
                 session' = [session EXCEPT ![p][r] = s]
         \/ /\ request[r].op = "cancel"
            /\ Agrees(p, v)
            /\ session' = [session EXCEPT ![p][v] = "cancelled"]
      /\ Fault
      /\ Rejected(r)
      /\ UNCHANGED <<tenantActive, verification, account, overdue>>

-----------------------------------------------------------------------------
(* The writes.                                                             *)

\* Faulty variant: the provider is taken from the configuration as it is now.
NewRowRereading(q) ==
  [tenant |-> q.tenant, account |-> q.subject,
   provider |-> config[q.config].provider, config |-> q.config,
   status |-> q.answer]

\* Faulty variant: the status is taken from the wrong record.
NewRowUnset(q) ==
  [tenant |-> q.tenant, account |-> q.subject, provider |-> q.provider,
   config |-> q.config, status |-> q.seen]

\* The values of the INSERT: provider and configuration are those of the
\* earlier read.
NewRow(q) ==
  [tenant |-> q.tenant, account |-> q.subject, provider |-> q.provider,
   config |-> q.config, status |-> q.answer]

\* Faulty variant: the account named in the request is overlooked.
AccountDueAlways(q) == q.answer = "completed"

\* The condition for createUserFromVerification.
AccountDue(q) == q.answer = "completed" /\ q.subject = Null

\* storeVerification.  The foreign key fails when the configuration was deleted
\* since.  An account is created only from a result that carries extracted
\* document data.
StoreCreate(r) ==
  LET q == request[r]
  IN  /\ q.pc = "store" /\ q.op = "create"
      /\ IF config[q.config] = Null
           THEN /\ Finish(r, "error")
                /\ UNCHANGED <<verification, assignmentVars>>
           ELSE /\ verification' = [verification EXCEPT ![r] = NewRow(q)]
                /\ StoreReference(q.config)
                /\ \/ AccountDue(q) /\ Goto(r, "save")
                   \/ Finish(r, "ok")
      /\ UNCHANGED <<tenantActive, account, session, overdue, faults>>

\* createUserFromVerification: a new account, then the row is linked to it.
\* No account is looked up by its reference.
SaveAccount(r) ==
  /\ request[r].pc = "save"
  /\ account' = [account EXCEPT ![r] = [tenant |-> request[r].tenant,
                                        reference |-> request[r].document]]
  /\ Goto(r, "link")
  /\ UNCHANGED <<tenantActive, verification, session, overdue, faults>>

LinkAccount(r) ==
  /\ request[r].pc = "link"
  /\ verification' = [verification EXCEPT ![r].account = r]
  /\ Finish(r, "ok")
  /\ UNCHANGED <<tenantActive, account, session, overdue, faults>>

\* getVerification, when the provider reported another status.
StoreStatus(r) ==
  LET q == request[r]
  IN  /\ q.pc = "store" /\ q.op = "get"
      /\ verification' = UpdateVerificationStatus(q.subject, q.answer)
      /\ Finish(r, "ok")
      /\ UNCHANGED <<tenantActive, account, session, overdue, faults>>

\* Faulty variant: UPDATE ... WHERE id = $2 AND status = 'pending'
CancelPendingRow(v) ==
  IF verification[v].status = "pending"
    THEN [verification EXCEPT ![v].status = "cancelled"]
    ELSE verification

\* UPDATE verifications SET status = 'cancelled' WHERE id = $2, whatever the
\* status has become.
CancelRow(v) == [verification EXCEPT ![v].status = "cancelled"]

\* cancelVerification, when the provider agreed.
StoreCancel(r) ==
  LET q == request[r]
  IN  /\ q.pc = "store" /\ q.op = "cancel"
      /\ verification' = CancelRow(q.subject)
      /\ Finish(r, "ok")
      /\ UNCHANGED <<tenantActive, account, session, overdue, faults>>

\* A statement is rejected.  createUserFromVerification swallows the error:
\* the verification is returned without an account.
QueryFails(r) ==
  /\ request[r].pc \in {"account", "select", "store", "save", "link"}
  /\ Fault
  /\ IF request[r].pc \in {"save", "link"} THEN Finish(r, "ok") ELSE Rejected(r)
  /\ UNCHANGED <<tenantActive, verification, account, session, overdue>>

-----------------------------------------------------------------------------
(* What happens around the requests.                                       *)

\* updateTenant: an administrator sets the tenant's status.
UpdateTenant(t) ==
  /\ \E active \in BOOLEAN : tenantActive' = [tenantActive EXCEPT ![t] = active]
  /\ UNCHANGED <<verification, account, session, overdue, request, faults>>

\* The end user, or the provider, gets on with a session.
SessionProgress(p, v) ==
  /\ Behaviour[p].remote
  /\ session[p][v] \in OpenStatus
  /\ \E s \in Status \ {"pending"} :
       /\ s # session[p][v]
       /\ session' = [session EXCEPT ![p][v] = s]
  /\ UNCHANGED <<tenantActive, verification, account, overdue, request, faults>>

\* The clock passes the row's expires_at.
ExpiryPasses(v) ==
  /\ verification[v] # Null
  /\ v \notin overdue
  /\ overdue' = overdue \cup {v}
  /\ UNCHANGED <<tenantActive, verification, account, session, request, faults>>

InProgress(r) == request[r].pc \notin {"idle", "done"}

\* The process is restarted: requests in progress are gone, and so are the
\* sessions of providers that keep them in a Map of the process.
Restart ==
  /\ Fault
  /\ AdminRestart
  /\ request' = [r \in Requests |->
       IF InProgress(r)
         THEN [request[r] EXCEPT !.pc = "done", !.reply = "lost"]
         ELSE request[r]]
  /\ session' = [p \in Registered |->
       IF Behaviour[p].remote THEN session[p] ELSE [v \in Requests |-> Null]]
  /\ UNCHANGED <<referenced, tenantActive, verification, account, overdue>>

-----------------------------------------------------------------------------

\* The steps of one request that leave the provider assignments alone.
RequestStep(r) ==
  \/ BeginCreate(r) \/ ValidateAccount(r) \/ BeginGet(r) \/ BeginCancel(r)
  \/ SelectProvider(r) \/ NoProvider(r)
  \/ CallCreate(r) \/ CallStatus(r) \/ CallCancel(r)
  \/ CallFails(r) \/ AnswerLost(r)
  \/ SaveAccount(r) \/ LinkAccount(r) \/ StoreStatus(r) \/ StoreCancel(r)
  \/ QueryFails(r)

Environment ==
  \/ \E t \in Tenants : UpdateTenant(t)
  \/ \E p \in Registered, v \in Requests : SessionProgress(p, v)
  \/ \E v \in Requests : ExpiryPasses(v)

Init ==
  /\ AssignmentsInit
  /\ tenantActive = [t \in Tenants |-> TRUE]
  /\ verification = [r \in Requests |-> Null]
  /\ account = [r \in Requests |-> Null]
  /\ session = [p \in Registered |-> [r \in Requests |-> Null]]
  /\ overdue = {}
  /\ request = [r \in Requests |-> NoRequest]
  /\ faults = 0

Next ==
  \/ \E r \in Requests : RequestStep(r) /\ UNCHANGED assignmentVars
  \/ \E r \in Requests : StoreCreate(r)
  \/ Environment /\ UNCHANGED assignmentVars
  \/ AdminStep /\ UNCHANGED <<referenced, requestVars>>
  \/ Restart

Spec == Init /\ [][Next]_vars

-----------------------------------------------------------------------------
(* What the service guarantees.                                            *)

Cancelled(v) == verification[v] # Null /\ verification[v].status = "cancelled"

(* Every stored verification names a configuration that exists and belongs *)
(* to its own tenant, and an account, if any, of its own tenant.  The      *)
(* INSERT of storeVerification uses ids read several awaits earlier, while *)
(* administrators update and delete configurations.                        *)
RowIntegrity ==
  \A v \in Requests :
    LET row == verification[v]
    IN  row # Null =>
          /\ config[row.config] # Null
          /\ config[row.config].tenant = row.tenant
          /\ row.account # Null =>
               /\ account[row.account] # Null
               /\ account[row.account].tenant = row.tenant

(* provider_id of a stored verification is the provider that really holds  *)
(* its session, even when the configuration was pointed at another         *)
(* provider between getProviderForTenant and the INSERT.                   *)
ProviderOfRecord ==
  \A p \in Registered, v \in Requests :
    verification[v] # Null /\ session[p][v] # Null => verification[v].provider = p

(* A verification is marked cancelled only when the provider that runs it  *)
(* has stopped: the UPDATE of cancelVerification follows the consent of    *)
(* the tenant's current provider, which may be another one by then.        *)
CancelledByConsent ==
  \A v \in Requests :
    LET p == verification[v].provider
    IN  Cancelled(v) /\ Behaviour[p].remote => session[p][v] = "cancelled"

(* A request that was told its cancellation succeeded is never            *)
(* contradicted: the row is cancelled and stays so, whatever the requests  *)
(* that read the row before the cancellation write afterwards.             *)
CancelIsKept ==
  \A r \in Requests :
    request[r].op = "cancel" /\ request[r].reply = "ok"
      => Cancelled(request[r].subject)

(* An account that createUserFromVerification made comes from a completed  *)
(* verification of the same tenant that named no account, and that         *)
(* verification is linked to this account or, when the link failed, to     *)
(* none.                                                                   *)
AccountProvenance ==
  \A r \in Requests :
    account[r] # Null =>
      /\ verification[r] # Null
      /\ verification[r].status = "completed"
      /\ verification[r].tenant = account[r].tenant
      /\ verification[r].account \in {Null, r}

(* A row changes only in a step of a request made for the row's own        *)
(* tenant: the UPDATEs have no tenant in their WHERE clause and rely on    *)
(* the read before them.                                                   *)
TenantIsolation ==
  [][\A v \in Requests :
       verification[v] # Null /\ verification'[v] # verification[v] =>
         \E r \in Requests :
           /\ request'[r] # request[r]
           /\ request'[r].tenant = verification[v].tenant]_verification

(* The status of the stored rows follows the documented state machine:     *)
(* no final status is ever left, although a cancellation writes without    *)
(* looking at the status again.                                            *)
StatusOf == [v \in Requests |-> IF verification[v] = Null
                                 THEN Null ELSE verification[v].status]

Lifecycle ==
  INSTANCE StatusLifecycle
    WITH Ids <- Requests, None <- Null, status <- StatusOf

ImplementsLifecycle == Lifecycle!LifecycleSpec

-----------------------------------------------------------------------------
(* Progress.  The event loop runs every handler to its end: a pending      *)
(* await is eventually settled, so each request step is weakly fair.  The  *)
(* environment, the administrators and the failures owe nothing.           *)

HandlerStep(r) ==
  /\ InProgress(r)
  /\ (RequestStep(r) /\ UNCHANGED assignmentVars) \/ StoreCreate(r)

Fairness == \A r \in Requests : WF_vars(HandlerStep(r))

FairSpec == Spec /\ Fairness

(* When the provider agreed to a cancellation and nothing fails, the       *)
(* database is brought in line with it.                                    *)
ConsentIsRecorded ==
  \A r, v \in Requests :
    /\ request[r].op = "cancel"
    /\ request[r].pc = "store"
    /\ request[r].subject = v
    ~> request[r].reply = "ok" /\ Cancelled(v)

-----------------------------------------------------------------------------
(* What the documentation says and the code does not do; each is refuted   *)
(* by a run of its own.                                                    *)

(* "Database is updated if provider status has changed"                    *)
(* (verifications.controller.ts:478): after getVerification met a changed  *)
(* status and returned, the row no longer has the status it had.           *)
PollUpdatesDatabase ==
  \A r \in Requests :
    request[r].op = "get" /\ request[r].reply = "ok" /\ request[r].answer # Null
      => verification[request[r].subject].status # request[r].seen

(* "getVerification() endpoint automatically checks and updates expired    *)
(* verifications" (CHANGELOG.md:204).                                      *)
GetExpiresOverdue ==
  [][\A r \in Requests :
       /\ request[r].pc = "idle"
       /\ request'[r].op = "get"
       /\ request'[r].seen # Null
       /\ request'[r].subject \in overdue
       => verification'[request'[r].subject].status \notin OpenStatus]_request

(* "Provider will be notified to stop processing"                          *)
(* (verifications.controller.ts:622): the provider asked to cancel is the  *)
(* one that processes the verification.                                    *)
CancelAsksOwnProvider ==
  \A r \in Requests :
    request[r].op = "cancel" /\ request[r].provider # Null
      => verification[request[r].subject].provider = request[r].provider

=============================================================================
