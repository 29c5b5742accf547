---------------------------- MODULE TenantAccess ----------------------------
(***************************************************************************)
(* Which tenants there are and whose API keys the guard accepts: the       *)
(* tables tenants and tenant_api_keys and the admin calls that write them  *)
(* (TenantsService, AuthService).  Every SQL statement is an action.       *)
(*                                                                         *)
(* Most writes are Repository.save of an entity read earlier in the call.  *)
(* save is two statements: a SELECT by id, then an UPDATE of the columns   *)
(* that differ from the entity, or an INSERT when the row is gone.  Of the *)
(* columns the model keeps the status; a status that is not 'active'       *)
(* behaves as the one that stands for it here.  Emails, whose uniqueness   *)
(* the database enforces, and the expiry of keys are left out.             *)
(*                                                                         *)
(* A call creates at most one tenant or one key, so its name is the id.    *)
(* Calls refused by their first read change nothing and are left out.      *)
(*                                                                         *)
(* Definitions marked "Faulty variant" are not part of the specification:  *)
(* each is a plausible mistake in the definition after it, and shows that  *)
(* a property would notice.                                                *)
(***************************************************************************)
EXTENDS Naturals

CONSTANTS
  Tenants,    \* the tenants there are at the start
  SeedKeys,   \* the API keys there are at the start
  Calls,      \* admin calls, and the rows they may create
  Ops,        \* the operations the calls of an instance ask for
  MaxFaults,  \* bound: statements and processes that fail
  MaxCalls,   \* bound: calls that are started
  Null        \* no row, or no value

TenantIds == Tenants \cup Calls
KeyIds == SeedKeys \cup Calls

TenantStatus == {"active", "inactive"}
KeyStatus == {"active", "revoked"}
Status == TenantStatus \cup KeyStatus

Key == [tenant : TenantIds, status : KeyStatus]

Op == {"createTenant", "updateTenant", "deleteTenant",
       "createKey", "updateKey", "revokeKey"}

PC == {"idle", "insert", "delete", "select", "write", "revoke", "done"}

Call ==
  [op : Op \cup {Null}, pc : PC,
   tenant : TenantIds \cup {Null}, key : KeyIds \cup {Null},
   asked : Status \cup {Null},    \* the status in the request, if any
   entity : Status \cup {Null},   \* the status of the entity being saved
   loaded : Status \cup {Null},   \* what the SELECT of save found
   reply : {"ok", "error", "lost", Null}]

NoCall == [op |-> Null, pc |-> "idle", tenant |-> Null, key |-> Null,
           asked |-> Null, entity |-> Null, loaded |-> Null, reply |-> Null]

ASSUME AccessAssumption ==
  /\ Ops \subseteq Op
  /\ MaxFaults \in Nat /\ MaxCalls \in Nat
  /\ Null \notin TenantIds \cup KeyIds \cup Status \cup Op \cup Key
  /\ Null \notin {"ok", "error", "lost"}
  /\ Tenants \cap Calls = {} /\ SeedKeys \cap Calls = {}

VARIABLES
  tenant,     \* tenants: [TenantIds -> TenantStatus \cup {Null}]
  key,        \* tenant_api_keys: [KeyIds -> Key \cup {Null}]
  call,       \* the locals of each call
  contended,  \* tenants for which a save overlapped another write; only the
              \* properties look at it
  started,    \* how many calls were started
  faults      \* how many failures have happened

accessVars == <<tenant, key, call, contended, started, faults>>

AccessTypeOK ==
  /\ tenant \in [TenantIds -> TenantStatus \cup {Null}]
  /\ key \in [KeyIds -> Key \cup {Null}]
  /\ call \in [Calls -> Call]
  /\ contended \subseteq TenantIds
  /\ started \in 0..MaxCalls
  /\ faults \in 0..MaxFaults

-----------------------------------------------------------------------------
(* The guard: AuthService.validateApiKey reads the key with its tenant.    *)

\* Faulty variant: the tenant's status is not looked at.
AcceptedWhateverTenant(k) == key[k] # Null /\ key[k].status = "active"

Accepted(k) ==
  /\ key[k] # Null
  /\ key[k].status = "active"
  /\ tenant[key[k].tenant] = "active"

-----------------------------------------------------------------------------
(* Moving a call along.                                                    *)

Running(c) == call[c].pc \notin {"idle", "done"}

\* Saves an entity it read earlier; a deletion only ever saves 'inactive'.
Saver(op) == op \in {"createTenant", "updateTenant", "updateKey"}

Overlaps(op, c) ==
  /\ Running(c)
  /\ Saver(op) \/ Saver(call[c].op)
  /\ "createKey" \notin {op, call[c].op}

\* One more of the calls an instance explores.
Started == started < MaxCalls /\ started' = started + 1

Begin(c, rec) ==
  /\ call[c].pc = "idle"
  /\ rec.op \in Ops
  /\ Started
  /\ call' = [call EXCEPT ![c] = rec]
  /\ contended' = contended \cup
       {t \in {rec.tenant} :
          \E b \in Calls : call[b].tenant = t /\ Overlaps(rec.op, b)}
  /\ UNCHANGED <<tenant, key, faults>>

Move(c, rec) ==
  call' = [call EXCEPT ![c] = rec] /\ UNCHANGED <<contended, started>>

Goto(c, pc) == Move(c, [call[c] EXCEPT !.pc = pc])

\* The call returns, and its entity is gone.
Ended(rec, reply) == [rec EXCEPT !.pc = "done", !.reply = reply,
                                 !.entity = Null, !.loaded = Null]

Finish(c, reply) == Move(c, Ended(call[c], reply))

Fault == faults < MaxFaults /\ faults' = faults + 1

\* Faulty variant: updates.status ?? 'active'
EntityDefaulted(asked, status) == IF asked = Null THEN "active" ELSE asked

\* The entity after Object.assign(tenant, dto), or updates.status if given.
Entity(asked, status) == IF asked = Null THEN status ELSE asked

-----------------------------------------------------------------------------
(* The reads that start a call.                                            *)

BeginCreateTenant(c) ==
  \E s \in TenantStatus :
    Begin(c, [NoCall EXCEPT !.op = "createTenant", !.pc = "insert",
                            !.tenant = c, !.asked = s, !.entity = s])

BeginUpdateTenant(c) ==
  \E t \in TenantIds, s \in TenantStatus \cup {Null} :
    /\ tenant[t] # Null
    /\ Begin(c, [NoCall EXCEPT !.op = "updateTenant", !.pc = "select",
                               !.tenant = t, !.asked = s,
                               !.entity = Entity(s, tenant[t])])

BeginDeleteTenant(c) ==
  \E t \in TenantIds :
    /\ tenant[t] # Null
    /\ Begin(c, [NoCall EXCEPT !.op = "deleteTenant", !.pc = "delete",
                               !.tenant = t, !.entity = "inactive"])

BeginCreateKey(c) ==
  \E t \in TenantIds :
    /\ tenant[t] = "active"
    /\ Begin(c, [NoCall EXCEPT !.op = "createKey", !.pc = "insert",
                               !.tenant = t, !.entity = "active"])

\* copyApiKey: a second key of the same tenant, whose status nobody looks at.
BeginCopyKey(c) ==
  \E k \in KeyIds :
    /\ key[k] # Null
    /\ Begin(c, [NoCall EXCEPT !.op = "createKey", !.pc = "insert",
                               !.tenant = key[k].tenant, !.entity = "active"])

BeginUpdateKey(c) ==
  \E k \in KeyIds, s \in KeyStatus \cup {Null} :
    /\ key[k] # Null
    /\ Begin(c, [NoCall EXCEPT !.op = "updateKey", !.pc = "select",
                               !.tenant = key[k].tenant, !.key = k, !.asked = s,
                               !.entity = Entity(s, key[k].status)])

BeginRevokeKey(c) ==
  \E k \in KeyIds :
    /\ key[k] # Null
    /\ Begin(c, [NoCall EXCEPT !.op = "revokeKey", !.pc = "revoke",
                               !.tenant = key[k].tenant, !.key = k])

-----------------------------------------------------------------------------
(* The statements.                                                         *)

\* createTenant: the first save inserts the row; a second one follows, for the
\* default album prefix, unless the settings had one.
InsertTenant(c) ==
  /\ call[c].op = "createTenant" /\ call[c].pc = "insert"
  /\ tenant' = [tenant EXCEPT ![c] = call[c].entity]
  /\ Goto(c, "select") \/ Finish(c, "ok")
  /\ UNCHANGED <<key, faults>>

\* Faulty variant: no foreign key.
TenantExistsAny(t) == TRUE

\* The foreign key of an INSERT into tenant_api_keys.
TenantExists(t) == tenant[t] # Null

\* generateApiKey, if the tenant is still there.
InsertKey(c) ==
  /\ call[c].op = "createKey" /\ call[c].pc = "insert"
  /\ IF ~TenantExists(call[c].tenant)
       THEN UNCHANGED key /\ Finish(c, "error")
       ELSE /\ key' = [key EXCEPT ![c] = [tenant |-> call[c].tenant,
                                          status |-> "active"]]
            /\ Finish(c, "ok")
  /\ UNCHANGED <<tenant, faults>>

\* The DELETE, with its cascade to the keys; the one to the tenant's
\* verifications is in Migrations.
HardDelete(c) ==
  /\ call[c].op = "deleteTenant" /\ call[c].pc = "delete"
  /\ tenant' = [tenant EXCEPT ![call[c].tenant] = Null]
  /\ key' = [k \in KeyIds |->
       IF key[k] # Null /\ key[k].tenant = call[c].tenant THEN Null ELSE key[k]]
  /\ Finish(c, "ok")
  /\ UNCHANGED faults

\* The DELETE is rejected, whatever the reason: the tenant is set to inactive
\* instead.  No foreign key rejects it, see Migrations, so the reason is a
\* failure of the statement.
FallBack(c) ==
  /\ call[c].op = "deleteTenant" /\ call[c].pc = "delete"
  /\ Fault
  /\ Goto(c, "select")
  /\ UNCHANGED <<tenant, key>>

\* The SELECT of save.
SelectRow(c) ==
  LET k == call[c].key
      found == CASE k = Null -> tenant[call[c].tenant]
                 [] k # Null /\ key[k] # Null -> key[k].status
                 [] OTHER -> Null
  IN  /\ call[c].pc = "select"
      /\ Move(c, [call[c] EXCEPT !.pc = "write", !.loaded = found])
      /\ UNCHANGED <<tenant, key, faults>>

\* The status the row has after the write of save, when the row is there:
\* an entity that differs from what was loaded overwrites what is there now.
Saved(c, status) ==
  IF call[c].entity = call[c].loaded THEN status ELSE call[c].entity

\* The write of save.  A row that was not there is inserted, which fails
\* when it is there by now; a row that is gone is not updated.
WriteTenant(c) ==
  LET t == call[c].tenant
  IN  /\ call[c].pc = "write" /\ call[c].key = Null
      /\ IF call[c].loaded = Null /\ tenant[t] # Null
           THEN /\ UNCHANGED tenant
                /\ Finish(c, IF call[c].op = "createTenant" THEN "ok" ELSE "error")
           ELSE /\ tenant' = [tenant EXCEPT ![t] =
                     IF call[c].loaded = Null THEN call[c].entity
                     ELSE IF tenant[t] = Null THEN Null
                     ELSE Saved(c, tenant[t])]
                /\ IF call[c].op = "deleteTenant"
                     THEN Goto(c, "revoke")
                     ELSE Finish(c, "ok")
      /\ UNCHANGED <<key, faults>>

\* The same for a key, whose tenant has to be there for an INSERT.
WriteKey(c) ==
  LET k == call[c].key
      lost == call[c].loaded = Null
  IN  /\ call[c].pc = "write" /\ k # Null
      /\ IF lost /\ (key[k] # Null \/ ~TenantExists(call[c].tenant))
           THEN UNCHANGED key /\ Finish(c, "error")
           ELSE /\ key' = [key EXCEPT ![k] =
                     IF lost THEN [tenant |-> call[c].tenant,
                                   status |-> call[c].entity]
                     ELSE IF key[k] = Null THEN Null
                     ELSE [key[k] EXCEPT !.status = Saved(c, @)]]
                /\ Finish(c, "ok")
      /\ UNCHANGED <<tenant, faults>>

\* revokeApiKey: UPDATE ... WHERE id; deleteTenant: ... WHERE tenant_id.
RevokedBy(c) ==
  {k \in KeyIds :
     /\ key[k] # Null
     /\ IF call[c].op = "revokeKey" THEN k = call[c].key
                                    ELSE key[k].tenant = call[c].tenant}

\* Faulty variant: the status of the tenant.
RevokedInactive(k) == [key[k] EXCEPT !.status = "inactive"]

Revoked(k) == [key[k] EXCEPT !.status = "revoked"]

Revoke(c) ==
  /\ call[c].pc = "revoke"
  /\ key' = [k \in KeyIds |-> IF k \in RevokedBy(c) THEN Revoked(k) ELSE key[k]]
  /\ Finish(c, IF call[c].op = "revokeKey" /\ RevokedBy(c) = {}
                 THEN "error" ELSE "ok")
  /\ UNCHANGED <<tenant, faults>>

\* A statement is rejected: only createTenant goes on, after its second save.
StatementFails(c) ==
  /\ call[c].pc \in {"insert", "select", "write", "revoke"}
  /\ Fault
  /\ Finish(c, IF call[c].op = "createTenant" /\ call[c].pc # "insert"
                 THEN "ok" ELSE "error")
  /\ UNCHANGED <<tenant, key>>

\* The process restarts: the calls in progress are gone.
AccessRestart ==
  /\ Fault
  /\ call' = [c \in Calls |->
       IF Running(c) THEN Ended(call[c], "lost") ELSE call[c]]
  /\ UNCHANGED <<tenant, key, contended, started>>

-----------------------------------------------------------------------------

AccessInit ==
  /\ tenant = [t \in TenantIds |-> IF t \in Tenants THEN "active" ELSE Null]
  /\ \E owner \in [SeedKeys -> Tenants] :
       key = [k \in KeyIds |-> IF k \in SeedKeys
                                 THEN [tenant |-> owner[k], status |-> "active"]
                                 ELSE Null]
  /\ call = [c \in Calls |-> NoCall]
  /\ contended = {}
  /\ started = 0
  /\ faults = 0

CallStep(c) ==
  \/ BeginCreateTenant(c) \/ BeginUpdateTenant(c) \/ BeginDeleteTenant(c)
  \/ BeginCreateKey(c) \/ BeginCopyKey(c) \/ BeginUpdateKey(c) \/ BeginRevokeKey(c)
  \/ InsertTenant(c) \/ InsertKey(c) \/ HardDelete(c) \/ FallBack(c)
  \/ SelectRow(c) \/ WriteTenant(c) \/ WriteKey(c) \/ Revoke(c)
  \/ StatementFails(c)

AccessNext ==
  \/ \E c \in Calls : CallStep(c)
  \/ AccessRestart

AccessSpec == AccessInit /\ [][AccessNext]_accessVars

-----------------------------------------------------------------------------
(* Properties.                                                             *)

(* No key outlives its tenant: a deletion, and the cascade that goes with  *)
(* it, may come between the read of a call that creates or saves a key and *)
(* its INSERT, and another call may insert the tenant again.               *)
RowsHaveTenant == \A k \in KeyIds : key[k] # Null => tenant[key[k].tenant] # Null

(* After a deletion that succeeded, hard or soft, no key of the tenant     *)
(* gets a request past the guard, not even one created while the deletion  *)
(* ran, unless an administrator asked for the tenant to be active or a     *)
(* save of an older entity overlapped.                                     *)
DeletionLocksOut ==
  \A d \in Calls :
    LET t == call[d].tenant
    IN  /\ call[d].op = "deleteTenant" /\ call[d].reply = "ok"
        /\ t \notin contended
        /\ \A u \in Calls : call[u].op = "updateTenant" /\ call[u].tenant = t
                              => call[u].asked # "active"
        => \A k \in KeyIds : key[k] # Null /\ key[k].tenant = t => ~Accepted(k)

\* A step of an updateApiKey call that was asked to make k active.
AskedActive(k) ==
  \E c \in Calls : /\ call[c].op = "updateKey" /\ call[c].key = k
                   /\ call[c].asked = "active"
                   /\ call'[c] # call[c]

Unrevoked(k) ==
  /\ key[k] # Null /\ key[k].status = "revoked"
  /\ key'[k] # Null /\ key'[k].status # "revoked"

(* A revoked key stays revoked unless an update of its status asks for     *)
(* another one, as long as no save of an older entity overlapped.          *)
RevocationHolds ==
  [][\A k \in KeyIds :
       Unrevoked(k) /\ key[k].tenant \notin contended' => AskedActive(k)]_key

(* "Cannot be undone (must create new key)" (tenants.controller.ts:551):   *)
(* whatever overlaps, a key that was revoked does not become active again  *)
(* without anyone asking for it.                                           *)
RevocationIsFinal == [][\A k \in KeyIds : Unrevoked(k) => AskedActive(k)]_key
=============================================================================
