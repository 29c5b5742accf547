------------------------ MODULE ProviderAssignments -------------------------
(***************************************************************************)
(* Which KYC providers a tenant may use, and which one it uses now: the    *)
(* table tenant_provider_configs and the admin handlers that write it      *)
(* (AdminProvidersController).  A handler is a sequence of SQL statements  *)
(* without a transaction, so each statement is an action of its own and    *)
(* the statements of concurrent admin calls interleave.                    *)
(*                                                                         *)
(* The column is_enabled is left out: every statement that creates a row   *)
(* writes true and none updates it.  The JSON config is left out: nothing  *)
(* below depends on it.                                                    *)
(*                                                                         *)
(* Definitions marked "Faulty variant" are not part of the specification:  *)
(* each is a plausible mistake in the definition after it, and shows that  *)
(* a property would notice.                                                *)
(***************************************************************************)
EXTENDS Integers, Sequences, FiniteSets

CONSTANTS
  Tenants,        \* rows of the table tenants
  Providers,      \* rows of the table providers, by their unique name
  Registered,     \* the providers ProvidersFactory holds an instance of
  Admins,         \* admin calls that can be in progress at the same time
  MaxConfigs,     \* bound: rows ever inserted in tenant_provider_configs
  MaxAdminCalls,  \* bound: admin calls that are started
  Seed,           \* the rows the migrations insert, in order
  Null            \* no row, or no value

Config == [tenant : Tenants, provider : Providers, priority : Nat]

ConfigIds == 1..MaxConfigs

ASSUME RegisteredAssumption == Registered \subseteq Providers
ASSUME BoundAssumption == MaxConfigs \in Nat /\ MaxAdminCalls \in Nat
ASSUME SeedAssumption ==
  /\ Seed \in Seq(Config)
  /\ Len(Seed) <= MaxConfigs
  /\ \A c, d \in 1..Len(Seed) :
       /\ Seed[c].tenant = Seed[d].tenant
       /\ Seed[c].provider = Seed[d].provider
       => c = d

\* SeedInitialData: regula-mock first, persona-mock second.
ASSUME SeedPrimaryAssumption ==
  \A c, d \in 1..Len(Seed) :
    /\ Seed[c].tenant = Seed[d].tenant
    /\ Seed[c].priority = 1 /\ Seed[d].priority = 1
    => c = d

ASSUME NullAssumption ==
  /\ Null \notin Config
  /\ Null \notin Tenants
  /\ Null \notin Providers
  /\ Null \notin ConfigIds

VARIABLES
  config,       \* tenant_provider_configs: [ConfigIds -> Config \cup {Null}]
  nextConfig,   \* the id the next INSERT takes: ids grow with created_at
  admin,        \* the locals of each admin call
  adminCalls,   \* how many admin calls were started
  contended,    \* tenants for which two calls were ever in progress at once;
                \* only the properties look at it
  referenced    \* ids named by verifications.provider_config_id

adminVars == <<config, nextConfig, admin, adminCalls, contended>>
assignmentVars == <<config, nextConfig, admin, adminCalls, contended, referenced>>

AdminPC == {"idle", "bump", "insert", "bumpOthers", "write", "delete"}

AdminCall ==
  [pc : AdminPC, tenant : Tenants \cup {Null}, provider : Providers \cup {Null},
   target : ConfigIds \cup {Null}, primary : BOOLEAN]

Idle == [pc |-> "idle", tenant |-> Null, provider |-> Null, target |-> Null,
         primary |-> FALSE]

AssignmentsTypeOK ==
  /\ config \in [ConfigIds -> Config \cup {Null}]
  /\ nextConfig \in 1..(MaxConfigs + 1)
  /\ admin \in [Admins -> AdminCall]
  /\ adminCalls \in 0..MaxAdminCalls
  /\ contended \subseteq Tenants
  /\ referenced \subseteq ConfigIds

-----------------------------------------------------------------------------
(* Reading the table.                                                      *)

ConfigsOf(t) == {c \in ConfigIds : config[c] # Null /\ config[c].tenant = t}

\* ORDER BY priority ASC, created_at DESC
Precedes(c, d) ==
  \/ config[c].priority < config[d].priority
  \/ config[c].priority = config[d].priority /\ c > d

\* ... LIMIT 1: the row getProviderForTenant uses, if the tenant has any.
Selection(t) ==
  {c \in ConfigsOf(t) : \A d \in ConfigsOf(t) \ {c} : Precedes(c, d)}

\* isPrimary in the answer of getTenantProviders.
Primaries(t) == {c \in ConfigsOf(t) : config[c].priority = 1}

\* UNIQUE (tenant_id, provider_id)
Assigned(t, p) == {c \in ConfigsOf(t) : config[c].provider = p}

\* Faulty variant: the rows move up instead of down.
BumpedUp(S) ==
  [c \in ConfigIds |->
     IF c \in S THEN [config[c] EXCEPT !.priority = @ - 100] ELSE config[c]]

\* Faulty variant: SET priority = 100.
BumpedFlat(S) ==
  [c \in ConfigIds |->
     IF c \in S THEN [config[c] EXCEPT !.priority = 100] ELSE config[c]]

\* UPDATE ... SET priority = priority + 100 on the rows in S
Bumped(S) ==
  [c \in ConfigIds |->
     IF c \in S THEN [config[c] EXCEPT !.priority = @ + 100] ELSE config[c]]

\* Faulty variant: the two values exchanged.
NewPrioritySwapped(primary) == IF primary THEN 10 ELSE 1

NewPriority(primary) == IF primary THEN 1 ELSE 10

-----------------------------------------------------------------------------
(* The handlers.                                                           *)

Begin(a, call) ==
  /\ admin[a].pc = "idle"
  /\ adminCalls < MaxAdminCalls
  /\ adminCalls' = adminCalls + 1
  /\ admin' = [admin EXCEPT ![a] = call]
  /\ contended' = contended \cup
       {t \in {call.tenant} : \E b \in Admins : admin[b].tenant = t}

Continue(a, pc) ==
  /\ admin' = [admin EXCEPT ![a].pc = pc]
  /\ UNCHANGED contended

Return(a) ==
  /\ admin' = [admin EXCEPT ![a] = Idle]
  /\ UNCHANGED contended

\* Faulty variant: the other rows are not moved for a primary provider.
AssignFirstInsert(primary) == "insert"

\* What assignProviderToTenant writes first.
AssignFirst(primary) == IF primary THEN "bump" ELSE "insert"

\* assignProviderToTenant, up to its first write.  The tenant and provider
\* rows are never removed here; the read that can grow stale is the one that
\* looks for an existing assignment.  Calls refused here change nothing.
AssignBegin(a) ==
  /\ \E t \in Tenants, p \in Registered, primary \in BOOLEAN :
       /\ Assigned(t, p) = {}
       /\ Begin(a, [pc |-> AssignFirst(primary), tenant |-> t, provider |-> p,
                    target |-> Null, primary |-> primary])
  /\ UNCHANGED <<config, nextConfig>>

AssignBump(a) ==
  /\ admin[a].pc = "bump"
  /\ config' = Bumped(ConfigsOf(admin[a].tenant))
  /\ Continue(a, "insert")
  /\ UNCHANGED <<nextConfig, adminCalls>>

\* The INSERT; the unique constraint rejects a pair that exists by now.
AssignInsert(a) ==
  LET call == admin[a]
  IN  /\ call.pc = "insert"
      /\ IF Assigned(call.tenant, call.provider) # {}
           THEN UNCHANGED <<config, nextConfig>>
           ELSE /\ nextConfig <= MaxConfigs
                /\ config' = [config EXCEPT ![nextConfig] =
                     [tenant |-> call.tenant, provider |-> call.provider,
                      priority |-> NewPriority(call.primary)]]
                /\ nextConfig' = nextConfig + 1
      /\ Return(a)
      /\ UNCHANGED adminCalls

\* updateProviderConfig checks that the provider has a row, not that the
\* factory holds it, and does not look for the configuration first.
UpdateBegin(a) ==
  /\ \E t \in Tenants, c \in ConfigIds, p \in Providers, primary \in BOOLEAN :
       /\ c < nextConfig
       /\ Begin(a, [pc |-> IF primary THEN "bumpOthers" ELSE "write",
                    tenant |-> t, provider |-> p, target |-> c,
                    primary |-> primary])
  /\ UNCHANGED <<config, nextConfig>>

UpdateBump(a) ==
  /\ admin[a].pc = "bumpOthers"
  /\ config' = Bumped(ConfigsOf(admin[a].tenant) \ {admin[a].target})
  /\ Continue(a, "write")
  /\ UNCHANGED <<nextConfig, adminCalls>>

\* Faulty variant: WHERE id = configId
MatchingAnyTenant(call) == {c \in {call.target} : config[c] # Null}

\* WHERE id = configId AND tenant_id = tenantId
Matching(call) == {call.target} \cap ConfigsOf(call.tenant)

\* SET provider_id = $1, priority = $2
Updated(row, call) == [row EXCEPT !.provider = call.provider,
                                  !.priority = NewPriority(call.primary)]

\* The UPDATE of updateProviderConfig: no row, or another row of the
\* tenant that has the provider (unique constraint), and nothing is written.
UpdateWrite(a) ==
  LET call == admin[a]
  IN  /\ call.pc = "write"
      /\ IF /\ Matching(call) # {}
            /\ Assigned(call.tenant, call.provider) \subseteq {call.target}
           THEN config' = [config EXCEPT ![call.target] = Updated(@, call)]
           ELSE UNCHANGED config
      /\ Return(a)
      /\ UNCHANGED <<nextConfig, adminCalls>>

\* Faulty variant: off by one.
MayRemoveLast(t) == Cardinality(ConfigsOf(t)) >= 1

\* The test "count <= 1" of removeProviderAssignment, negated.
MayRemove(t) == Cardinality(ConfigsOf(t)) > 1

\* removeProviderAssignment: the count of the tenant's rows ...
RemoveBegin(a) ==
  /\ \E t \in Tenants, c \in ConfigIds :
       /\ c < nextConfig
       /\ MayRemove(t)
       /\ Begin(a, [pc |-> "delete", tenant |-> t, provider |-> Null,
                    target |-> c, primary |-> FALSE])
  /\ UNCHANGED <<config, nextConfig>>

\* Faulty variant: a foreign key without ON DELETE RESTRICT.
DeletableAny(call) == Matching(call)

\* The row the DELETE removes: ON DELETE RESTRICT rejects the statement when
\* a verification names it.
Deletable(call) == Matching(call) \ referenced

\* ... and the DELETE.
RemoveDelete(a) ==
  LET call == admin[a]
  IN  /\ call.pc = "delete"
      /\ IF Deletable(call) # {}
           THEN config' = [config EXCEPT ![call.target] = Null]
           ELSE UNCHANGED config
      /\ Return(a)
      /\ UNCHANGED <<nextConfig, adminCalls>>

\* A statement is rejected (connection lost, time limit): the handler throws
\* and what it wrote before stays written.
StatementFails(a) ==
  /\ admin[a].pc # "idle"
  /\ Return(a)
  /\ UNCHANGED <<config, nextConfig, adminCalls>>

AdminStep ==
  \E a \in Admins :
    \/ AssignBegin(a) \/ AssignBump(a) \/ AssignInsert(a)
    \/ UpdateBegin(a) \/ UpdateBump(a) \/ UpdateWrite(a)
    \/ RemoveBegin(a) \/ RemoveDelete(a)
    \/ StatementFails(a)

\* The process restarts: every call in progress is gone.
AdminRestart ==
  /\ admin' = [a \in Admins |-> Idle]
  /\ UNCHANGED <<config, nextConfig, adminCalls, contended>>

\* A verification is stored with the configuration c; the foreign key
\* requires the row to exist.
StoreReference(c) ==
  /\ config[c] # Null
  /\ referenced' = referenced \cup {c}
  /\ UNCHANGED adminVars

AssignmentsInit ==
  /\ config = [c \in ConfigIds |-> IF c \in 1..Len(Seed) THEN Seed[c] ELSE Null]
  /\ nextConfig = Len(Seed) + 1
  /\ admin = [a \in Admins |-> Idle]
  /\ adminCalls = 0
  /\ contended = {}
  /\ referenced = {}

AssignmentsNext ==
  \/ AdminStep /\ UNCHANGED referenced
  \/ AdminRestart /\ UNCHANGED referenced
  \/ \E c \in ConfigIds : StoreReference(c)

AssignmentsSpec == AssignmentsInit /\ [][AssignmentsNext]_assignmentVars

-----------------------------------------------------------------------------
(* Properties.                                                             *)

(* An admin call writes only rows of the tenant in its URL, even when the  *)
(* configId in the URL belongs to another tenant; and it never moves a row *)
(* from one tenant to another.                                             *)
CallsStayInTenant ==
  [][\A c \in ConfigIds :
       config'[c] # config[c] =>
         \E a \in Admins :
           /\ admin[a].pc # "idle"
           /\ admin'[a].pc # admin[a].pc
           /\ config[c] # Null => config[c].tenant = admin[a].tenant
           /\ config'[c] # Null => config'[c].tenant = admin[a].tenant]_config

(* Making one provider primary shifts the others together: two rows of a   *)
(* tenant that no call in progress aims at keep their order, so a fallback *)
(* chain an administrator set up survives every promotion, also one that   *)
(* fails half way.                                                         *)
Aimed(c) == \E a \in Admins : admin[a].target = c

PromotionKeepsOrder ==
  [][\A t \in Tenants : \A c, d \in ConfigsOf(t) :
       /\ c # d
       /\ ~Aimed(c) /\ ~Aimed(d)
       /\ config'[c] # Null /\ config'[d] # Null
       => (Precedes(c, d) <=> Precedes(c, d)')]_config

(* A call that made a provider primary and succeeded leaves that provider  *)
(* the one the tenant's next verification uses.  Nothing but the absence   *)
(* of overlapping calls for the same tenant guarantees it.                 *)
PromotionTakesEffect ==
  [][\A a \in Admins, t \in Tenants \ contended' :
       /\ admin[a].pc \in {"insert", "write"}
       /\ admin[a].tenant = t
       /\ admin[a].primary
       /\ admin'[a].pc = "idle"
       /\ config' # config
       => \E c \in Selection(t)' :
            /\ config'[c].provider = admin[a].provider
            /\ config'[c].priority = 1]_<<config, admin>>

(* getTenantProviders reports at most one provider of a tenant as primary, *)
(* also after calls that failed half way, as long as no two calls for the  *)
(* tenant overlapped.                                                      *)
OnePrimary ==
  \A t \in Tenants \ contended : Cardinality(Primaries(t)) <= 1

(* A tenant that has a provider assigned keeps one, as long as no two      *)
(* calls for the tenant overlapped.                                        *)
LastProviderKept ==
  [][\A t \in Tenants \ contended' :
       ConfigsOf(t) # {} => ConfigsOf(t)' # {}]_config

(* "Prevents removal of the last remaining provider"                       *)
(* (admin-providers.controller.ts:449), whatever overlaps.                 *)
LastProviderAlwaysKept ==
  [][\A t \in Tenants : ConfigsOf(t) # {} => ConfigsOf(t)' # {}]_config

=============================================================================
