--------------------- MODULE ProviderAssignmentsProofs ----------------------
(***************************************************************************)
(* Theorems about ProviderAssignments, for any tenants, providers, seed    *)
(* and number of concurrent admin calls.                                   *)
(***************************************************************************)
EXTENDS ProviderAssignments, FiniteSetTheorems, TLAPS

(* A call in progress knows its tenant, and what its next statement needs. *)
CallsWellFormed ==
  \A a \in Admins :
    /\ admin[a].pc # "idle" => admin[a].tenant \in Tenants
    /\ admin[a].pc \in {"bump", "insert", "bumpOthers", "write"}
         => admin[a].provider \in Providers
    /\ admin[a].pc \in {"bumpOthers", "write", "delete"}
         => admin[a].target \in ConfigIds

(* Ids not handed out yet have no row, so an id is never used again.       *)
FreshIdsUnused == \A c \in ConfigIds : c >= nextConfig => config[c] = Null

\* The foreign key of verifications.provider_config_id.
ReferencedConfigsExist == \A c \in referenced : config[c] # Null

AssignmentsInv ==
  /\ AssignmentsTypeOK
  /\ CallsWellFormed
  /\ FreshIdsUnused
  /\ ReferencedConfigsExist

(* What Bumped returns: the same rows with the same tenants and providers. *)
LEMMA BumpedRows ==
  ASSUME AssignmentsTypeOK, NEW S \in SUBSET ConfigIds,
         \A c \in S : config[c] # Null
  PROVE  /\ Bumped(S) \in [ConfigIds -> Config \cup {Null}]
         /\ \A c \in ConfigIds : Bumped(S)[c] = Null <=> config[c] = Null
         /\ \A c \in ConfigIds : config[c] # Null =>
              /\ Bumped(S)[c].tenant = config[c].tenant
              /\ Bumped(S)[c].provider = config[c].provider
<1> USE NullAssumption DEF AssignmentsTypeOK, Bumped, Config
<1>1. ASSUME NEW c \in S
      PROVE  [config[c] EXCEPT !.priority = @ + 100] \in Config
  OBVIOUS
<1>2. QED
  BY <1>1

\* A tenant's configurations are rows of the table.
LEMMA ConfigsOfSubset ==
  ASSUME NEW t
  PROVE  /\ ConfigsOf(t) \in SUBSET ConfigIds
         /\ \A c \in ConfigsOf(t) : config[c] # Null /\ config[c].tenant = t
BY DEF ConfigsOf

\* The seeded rows satisfy the invariant.
LEMMA AssignmentsInit_Inv == AssignmentsInit => AssignmentsInv
<1> SUFFICES ASSUME AssignmentsInit PROVE AssignmentsInv
  OBVIOUS
<1> USE SeedAssumption, BoundAssumption, NullAssumption DEF AssignmentsInit
<1>1. AssignmentsTypeOK
  BY DEF AssignmentsTypeOK, ConfigIds, AdminCall, AdminPC, Idle
<1>2. CallsWellFormed
  BY DEF CallsWellFormed, Idle
<1>3. FreshIdsUnused
  BY DEF FreshIdsUnused, ConfigIds
<1>4. ReferencedConfigsExist
  BY DEF ReferencedConfigsExist
<1>5. QED
  BY <1>1, <1>2, <1>3, <1>4 DEF AssignmentsInv

\* A call that moves on to its next statement keeps what it knows.
LEMMA ContinueSound ==
  ASSUME AssignmentsTypeOK, CallsWellFormed, NEW a \in Admins,
         NEW pc \in {"insert", "write"}, Continue(a, pc),
         admin[a].pc = (IF pc = "insert" THEN "bump" ELSE "bumpOthers")
  PROVE  admin' \in [Admins -> AdminCall] /\ CallsWellFormed'
<1> DEFINE call == [admin[a] EXCEPT !.pc = pc]
<1>1. admin \in [Admins -> AdminCall] /\ admin' = [admin EXCEPT ![a] = call]
  BY DEF AssignmentsTypeOK, Continue
<1>2. admin[a] \in AdminCall
  BY <1>1
<1>3. /\ call \in AdminCall /\ call.pc = pc
      /\ call.tenant = admin[a].tenant
      /\ call.provider = admin[a].provider
      /\ call.target = admin[a].target
  BY <1>2 DEF AdminCall, AdminPC
<1>4. /\ admin' \in [Admins -> AdminCall]
      /\ admin'[a] = call
      /\ \A b \in Admins : b # a => admin'[b] = admin[b]
  BY <1>1, <1>3
<1>5. CallsWellFormed'
  BY <1>3, <1>4 DEF CallsWellFormed
<1>6. QED
  BY <1>4, <1>5

\* What an admin call may do next.
AdminStepOf(a) ==
  \/ AssignBegin(a) \/ AssignBump(a) \/ AssignInsert(a)
  \/ UpdateBegin(a) \/ UpdateBump(a) \/ UpdateWrite(a)
  \/ RemoveBegin(a) \/ RemoveDelete(a) \/ StatementFails(a)

(* The step of one admin call, and the steps around it, preserve the       *)
(* invariant.                                                              *)
LEMMA AdminStep_Inv ==
  ASSUME AssignmentsInv, NEW a \in Admins, UNCHANGED referenced,
         AdminStepOf(a)
  PROVE  AssignmentsInv'
<1> USE NullAssumption, BoundAssumption, RegisteredAssumption
    DEF AssignmentsInv, AssignmentsTypeOK, CallsWellFormed, FreshIdsUnused,
        ReferencedConfigsExist, ConfigIds, AdminCall, AdminPC, Idle,
        Begin, Continue, Return
<1>1. CASE AssignBegin(a)
  BY <1>1 DEF AssignBegin, AssignFirst
<1>2. CASE AssignBump(a)
  <2> DEFINE S == ConfigsOf(admin[a].tenant)
  <2>1. /\ config' = Bumped(S)
        /\ config' \in [ConfigIds -> Config \cup {Null}]
        /\ \A c \in ConfigIds : config'[c] = Null <=> config[c] = Null
    BY <1>2, ConfigsOfSubset, BumpedRows DEF AssignBump
  <2>2. Continue(a, "insert") /\ admin[a].pc = "bump"
    BY <1>2 DEF AssignBump
  <2>3. admin' \in [Admins -> AdminCall] /\ CallsWellFormed'
    BY <2>2, ContinueSound
  <2>4. AssignmentsTypeOK'
    BY <1>2, <2>1, <2>3 DEF AssignBump
  <2>5. FreshIdsUnused' /\ ReferencedConfigsExist'
    BY <1>2, <2>1 DEF AssignBump
  <2>6. QED
    BY <2>3, <2>4, <2>5
<1>3. CASE AssignInsert(a)
  <2> DEFINE row == [tenant |-> admin[a].tenant, provider |-> admin[a].provider,
                     priority |-> NewPriority(admin[a].primary)]
  <2>1. CASE UNCHANGED <<config, nextConfig>>
    BY <1>3, <2>1 DEF AssignInsert
  <2>2. CASE /\ nextConfig <= MaxConfigs
             /\ config' = [config EXCEPT ![nextConfig] = row]
             /\ nextConfig' = nextConfig + 1
    <3>1. row \in Config
      BY <1>3 DEF AssignInsert, NewPriority, Config
    <3>2. /\ config' \in [ConfigIds -> Config \cup {Null}]
          /\ \A d \in ConfigIds : d # nextConfig => config'[d] = config[d]
          /\ config'[nextConfig] # Null
          /\ nextConfig' \in 1..(MaxConfigs + 1)
      BY <2>2, <3>1
    <3>3. QED
      BY <1>3, <2>2, <3>2 DEF AssignInsert
  <2>3. QED
    BY <1>3, <2>1, <2>2 DEF AssignInsert
<1>4. CASE UpdateBegin(a)
  BY <1>4 DEF UpdateBegin
<1>5. CASE UpdateBump(a)
  <2> DEFINE S == ConfigsOf(admin[a].tenant) \ {admin[a].target}
  <2>1. S \in SUBSET ConfigIds /\ \A c \in S : config[c] # Null
    BY ConfigsOfSubset
  <2>2. config' = Bumped(S)
    BY <1>5 DEF UpdateBump
  <2>3. /\ config' \in [ConfigIds -> Config \cup {Null}]
        /\ \A c \in ConfigIds : config'[c] = Null <=> config[c] = Null
    BY <2>1, <2>2, BumpedRows
  <2>4. /\ Continue(a, "write") /\ admin[a].pc = "bumpOthers"
        /\ UNCHANGED <<nextConfig, adminCalls, contended>>
    BY <1>5 DEF UpdateBump
  <2>5. admin' \in [Admins -> AdminCall] /\ CallsWellFormed'
    BY <2>4, ContinueSound
  <2>6. AssignmentsTypeOK'
    BY <2>3, <2>4, <2>5
  <2>7. FreshIdsUnused' /\ ReferencedConfigsExist'
    BY <2>3, <2>4
  <2>8. QED
    BY <2>5, <2>6, <2>7
<1>6. CASE UpdateWrite(a)
  <2> DEFINE c == admin[a].target
  <2>1. CASE UNCHANGED config
    BY <1>6, <2>1 DEF UpdateWrite
  <2>2. CASE /\ Matching(admin[a]) # {}
             /\ config' = [config EXCEPT ![c] = Updated(config[c], admin[a])]
    <3>1. c \in ConfigIds /\ config[c] \in Config
      BY <2>2 DEF Matching, ConfigsOf
    <3>2. Updated(config[c], admin[a]) \in Config
      <4>1. admin[a].provider \in Providers /\ NewPriority(admin[a].primary) \in Nat
        BY <1>6 DEF UpdateWrite, NewPriority
      <4>2. QED
        BY <3>1, <4>1 DEF Updated, Config
    <3>3. /\ config' \in [ConfigIds -> Config \cup {Null}]
          /\ \A d \in ConfigIds : config'[d] = Null <=> config[d] = Null
      BY <2>2, <3>1, <3>2
    <3>4. QED
      BY <1>6, <3>3 DEF UpdateWrite
  <2>3. QED
    BY <1>6, <2>1, <2>2 DEF UpdateWrite
<1>7. CASE RemoveBegin(a)
  BY <1>7 DEF RemoveBegin
<1>8. CASE RemoveDelete(a)
  BY <1>8 DEF RemoveDelete, Deletable, Matching, ConfigsOf
<1>9. CASE StatementFails(a)
  BY <1>9 DEF StatementFails
<1>10. QED
  BY <1>1, <1>2, <1>3, <1>4, <1>5, <1>6, <1>7, <1>8, <1>9 DEF AdminStepOf

\* Every step of the table's users, storing a verification included, keeps it.
LEMMA AssignmentsNext_Inv ==
  AssignmentsInv /\ [AssignmentsNext]_assignmentVars => AssignmentsInv'
<1> SUFFICES ASSUME AssignmentsInv, [AssignmentsNext]_assignmentVars
             PROVE  AssignmentsInv'
  OBVIOUS
<1>1. CASE AdminStep /\ UNCHANGED referenced
  BY <1>1, AdminStep_Inv DEF AdminStep, AdminStepOf
<1>2. CASE AdminRestart /\ UNCHANGED referenced
  BY <1>2 DEF AdminRestart, AssignmentsInv, AssignmentsTypeOK, CallsWellFormed,
              FreshIdsUnused, ReferencedConfigsExist, AdminCall, AdminPC, Idle
<1>3. ASSUME NEW c \in ConfigIds, StoreReference(c)
      PROVE  AssignmentsInv'
  BY <1>3 DEF StoreReference, adminVars, AssignmentsInv, AssignmentsTypeOK,
              CallsWellFormed, FreshIdsUnused, ReferencedConfigsExist
<1>4. CASE UNCHANGED assignmentVars
  BY <1>4 DEF assignmentVars, AssignmentsInv, AssignmentsTypeOK,
              CallsWellFormed, FreshIdsUnused, ReferencedConfigsExist
<1>5. QED
  BY <1>1, <1>2, <1>3, <1>4 DEF AssignmentsNext

\* The rows of tenant_provider_configs, the admin calls in progress and the
\* references of verifications stay consistent however the statements interleave.
THEOREM AssignmentsInvariant == AssignmentsSpec => []AssignmentsInv
BY AssignmentsInit_Inv, AssignmentsNext_Inv, PTL DEF AssignmentsSpec

(* The table, the locals of the admin calls and the counters stay within   *)
(* their types: in particular no priority becomes negative and no call     *)
(* uses a field its earlier statements did not set.                        *)
THEOREM AssignmentsTypeCorrect == AssignmentsSpec => []AssignmentsTypeOK
BY AssignmentsInvariant, PTL DEF AssignmentsInv

-----------------------------------------------------------------------------

(* An admin call that changes a row owns it: both versions of the row are  *)
(* of the tenant the call was made for.                                    *)
LEMMA AdminStep_Tenant ==
  ASSUME AssignmentsInv, NEW a \in Admins, NEW c \in ConfigIds,
         config'[c] # config[c],
         AdminStepOf(a)
  PROVE  /\ admin[a].pc # "idle"
         /\ admin'[a].pc # admin[a].pc
         /\ config[c] # Null => config[c].tenant = admin[a].tenant
         /\ config'[c] # Null => config'[c].tenant = admin[a].tenant
<1> USE NullAssumption, BoundAssumption
    DEF AssignmentsInv, AssignmentsTypeOK, CallsWellFormed, FreshIdsUnused,
        ConfigIds, AdminCall, AdminPC, Idle, Continue, Return
<1>1. CASE AssignBegin(a) \/ UpdateBegin(a) \/ RemoveBegin(a) \/ StatementFails(a)
  BY <1>1 DEF AssignBegin, UpdateBegin, RemoveBegin, StatementFails
<1>2. CASE AssignBump(a)
  BY <1>2, ConfigsOfSubset, BumpedRows DEF AssignBump, Bumped
<1>3. CASE AssignInsert(a)
  BY <1>3 DEF AssignInsert
<1>4. CASE UpdateBump(a)
  <2> DEFINE S == ConfigsOf(admin[a].tenant) \ {admin[a].target}
  <2>1. /\ c \in S
        /\ config[c] # Null
        /\ config[c].tenant = admin[a].tenant
    BY <1>4, ConfigsOfSubset DEF UpdateBump, Bumped
  <2>2. config'[c].tenant = config[c].tenant
    BY <1>4, <2>1, ConfigsOfSubset, BumpedRows DEF UpdateBump
  <2>3. QED
    BY <1>4, <2>1, <2>2 DEF UpdateBump
<1>5. CASE UpdateWrite(a)
  <2>1. /\ Matching(admin[a]) # {}
        /\ config' = [config EXCEPT ![admin[a].target] =
                        Updated(config[admin[a].target], admin[a])]
    BY <1>5 DEF UpdateWrite
  <2>2. /\ c = admin[a].target
        /\ config[c] # Null
        /\ config[c].tenant = admin[a].tenant
    BY <2>1 DEF Matching, ConfigsOf
  <2>3. config[c] \in Config /\ config'[c] = Updated(config[c], admin[a])
    BY <2>1, <2>2
  <2>4. config'[c].tenant = config[c].tenant
    BY <2>3 DEF Updated, Config
  <2>5. QED
    BY <1>5, <2>2, <2>4 DEF UpdateWrite
<1>6. CASE RemoveDelete(a)
  BY <1>6 DEF RemoveDelete, Deletable, Matching, ConfigsOf
<1>7. QED
  BY <1>1, <1>2, <1>3, <1>4, <1>5, <1>6 DEF AdminStepOf

(* Rows never take an id that was handed out before.                       *)
LEMMA AdminStep_Ids ==
  ASSUME AssignmentsInv, NEW a \in Admins,
         AdminStepOf(a)
  PROVE  /\ nextConfig' >= nextConfig
         /\ \A c \in ConfigIds :
              c < nextConfig /\ config[c] = Null => config'[c] = Null
<1> USE BoundAssumption DEF AssignmentsInv, AssignmentsTypeOK, ConfigIds
<1>1. CASE AssignBegin(a) \/ UpdateBegin(a) \/ RemoveBegin(a) \/ StatementFails(a)
  BY <1>1 DEF AssignBegin, UpdateBegin, RemoveBegin, StatementFails
<1>2. CASE AssignBump(a)
  BY <1>2, ConfigsOfSubset, BumpedRows DEF AssignBump
<1>3. CASE AssignInsert(a)
  BY <1>3 DEF AssignInsert
<1>4. CASE UpdateBump(a)
  <2> DEFINE S == ConfigsOf(admin[a].tenant) \ {admin[a].target}
  <2>1. S \in SUBSET ConfigIds /\ \A c \in S : config[c] # Null
    BY ConfigsOfSubset
  <2>2. QED
    BY <1>4, <2>1, BumpedRows DEF UpdateBump
<1>5. CASE UpdateWrite(a)
  BY <1>5 DEF UpdateWrite, Matching, ConfigsOf
<1>6. CASE RemoveDelete(a)
  BY <1>6 DEF RemoveDelete, Deletable, Matching, ConfigsOf
<1>7. QED
  BY <1>1, <1>2, <1>3, <1>4, <1>5, <1>6 DEF AdminStepOf

(* An admin call changes only rows of the tenant in its URL.               *)
THEOREM TenantScope == AssignmentsSpec => CallsStayInTenant
<1> DEFINE Scoped ==
      \A c \in ConfigIds :
        config'[c] # config[c] =>
          \E a \in Admins :
            /\ admin[a].pc # "idle"
            /\ admin'[a].pc # admin[a].pc
            /\ config[c] # Null => config[c].tenant = admin[a].tenant
            /\ config'[c] # Null => config'[c].tenant = admin[a].tenant
<1>1. AssignmentsInv /\ [AssignmentsNext]_assignmentVars => [Scoped]_config
  <2> SUFFICES ASSUME AssignmentsInv, AssignmentsNext, NEW c \in ConfigIds,
                      config'[c] # config[c]
               PROVE  \E a \in Admins :
                        /\ admin[a].pc # "idle"
                        /\ admin'[a].pc # admin[a].pc
                        /\ config[c] # Null => config[c].tenant = admin[a].tenant
                        /\ config'[c] # Null => config'[c].tenant = admin[a].tenant
    BY DEF assignmentVars
  <2>1. AdminStep
    BY DEF AssignmentsNext, AdminRestart, StoreReference, adminVars
  <2>2. QED
    BY <2>1, AdminStep_Tenant DEF AdminStep, AdminStepOf
<1>2. QED
  BY <1>1, AssignmentsInvariant, PTL DEF AssignmentsSpec, CallsStayInTenant

-----------------------------------------------------------------------------
(* What the absence of overlapping calls for a tenant buys.                *)

(* For a tenant outside contended at most one call is in progress.         *)
Alone ==
  \A a, b \in Admins :
    /\ a # b
    /\ admin[a].pc # "idle" /\ admin[b].pc # "idle"
    /\ admin[a].tenant = admin[b].tenant
    => admin[a].tenant \in contended

\* The rows of its tenant that a call does not write itself.
Others(call) == ConfigsOf(call.tenant) \ {call.target}

(* What the earlier statements of a call prepared for its next one: the    *)
(* other rows made room at priority 1, and a removal leaves a row.         *)
Prepared(call) ==
  /\ call.pc = "insert" /\ call.primary =>
       \A c \in ConfigsOf(call.tenant) : config[c].priority > 1
  /\ call.pc = "write" /\ call.primary =>
       \A c \in Others(call) : config[c].priority > 1
  /\ call.pc = "delete" => Others(call) # {}

CallsPrepared ==
  \A a \in Admins : admin[a].tenant \notin contended => Prepared(admin[a])

NoTwoPrimaries ==
  \A t \in Tenants \ contended : \A c, d \in Primaries(t) : c = d

PromotionInv == Alone /\ CallsPrepared /\ NoTwoPrimaries

\* How a step changes the locals of the calls.
LEMMA AdminStep_Locals ==
  ASSUME AssignmentsInv, NEW a \in Admins, AdminStepOf(a)
  PROVE  /\ \A b \in Admins \ {a} : admin'[b] = admin[b]
         /\ contended \subseteq contended'
         /\ \/ admin'[a].pc = "idle" /\ contended' = contended
            \/ /\ admin[a].pc = "idle"
               /\ config' = config
               /\ \A b \in Admins \ {a} : admin[b].tenant = admin'[a].tenant =>
                    admin'[a].tenant \in contended'
            \/ /\ admin[a].pc # "idle" /\ contended' = contended
               /\ admin'[a].tenant = admin[a].tenant
               /\ admin'[a].target = admin[a].target
               /\ admin'[a].primary = admin[a].primary
<1>1. admin \in [Admins -> AdminCall]
  BY DEF AssignmentsInv, AssignmentsTypeOK
<1>2. CASE AssignBegin(a)
  <2>1. PICK call : Begin(a, call) /\ UNCHANGED config
    BY <1>2 DEF AssignBegin
  <2>2. QED
    BY <1>1, <2>1 DEF Begin
<1>3. CASE UpdateBegin(a)
  <2>1. PICK call : Begin(a, call) /\ UNCHANGED config
    BY <1>3 DEF UpdateBegin
  <2>2. QED
    BY <1>1, <2>1 DEF Begin
<1>4. CASE RemoveBegin(a)
  <2>1. PICK call : Begin(a, call) /\ UNCHANGED config
    BY <1>4 DEF RemoveBegin
  <2>2. QED
    BY <1>1, <2>1 DEF Begin
<1>5. CASE AssignBump(a) \/ UpdateBump(a)
  <2>1. PICK pc \in {"insert", "write"} : Continue(a, pc) /\ admin[a].pc # "idle"
    BY <1>5 DEF AssignBump, UpdateBump
  <2>2. admin[a] \in AdminCall
    BY <1>1
  <2>3. /\ [admin[a] EXCEPT !.pc = pc].tenant = admin[a].tenant
        /\ [admin[a] EXCEPT !.pc = pc].target = admin[a].target
        /\ [admin[a] EXCEPT !.pc = pc].primary = admin[a].primary
    BY <2>2 DEF AdminCall
  <2>4. /\ admin'[a] = [admin[a] EXCEPT !.pc = pc]
        /\ \A b \in Admins \ {a} : admin'[b] = admin[b]
        /\ contended' = contended
    BY <1>1, <2>1 DEF Continue
  <2>5. QED
    BY <2>1, <2>3, <2>4
<1>6. CASE AssignInsert(a) \/ UpdateWrite(a) \/ RemoveDelete(a) \/ StatementFails(a)
  <2>1. Return(a)
    BY <1>6 DEF AssignInsert, UpdateWrite, RemoveDelete, StatementFails
  <2>2. QED
    BY <1>1, <2>1 DEF Return, Idle
<1>7. QED
  BY <1>2, <1>3, <1>4, <1>5, <1>6 DEF AdminStepOf

\* The rows of a tenant change only by a call in progress for that tenant.
LEMMA AdminStep_OtherRows ==
  ASSUME AssignmentsInv, NEW a \in Admins, AdminStepOf(a), NEW t,
         admin[a].pc = "idle" \/ admin[a].tenant # t
  PROVE  /\ ConfigsOf(t)' = ConfigsOf(t)
         /\ \A c \in ConfigsOf(t) : config'[c] = config[c]
<1>1. ASSUME NEW c \in ConfigIds, config'[c] # config[c]
      PROVE  /\ config[c] # Null => config[c].tenant # t
             /\ config'[c] # Null => config'[c].tenant # t
  BY <1>1, AdminStep_Tenant
<1>2. QED
  BY <1>1 DEF ConfigsOf

\* A set with more than one element has one apart from any given one.
LEMMA MoreThanOne ==
  ASSUME NEW S, IsFiniteSet(S), Cardinality(S) > 1, NEW x
  PROVE  S \ {x} # {}
<1> SUFFICES ASSUME S \subseteq {x} PROVE FALSE
  OBVIOUS
<1>1. Cardinality({x}) = 1
  BY FS_Singleton
<1>2. IsFiniteSet({x})
  BY FS_Singleton
<1>3. Cardinality(S) <= Cardinality({x})
  BY <1>2, FS_Subset
<1>4. Cardinality(S) \in Nat
  BY FS_CardinalityType
<1>5. QED
  BY <1>1, <1>3, <1>4

\* The table is finite, and so is what a tenant has in it.
LEMMA ConfigsFinite == ASSUME NEW t PROVE IsFiniteSet(ConfigsOf(t))
<1>1. IsFiniteSet(ConfigIds)
  BY BoundAssumption, FS_Interval DEF ConfigIds
<1>2. QED
  BY <1>1, FS_Subset, ConfigsOfSubset

\* Of two calls of one tenant that are in progress, each contends the tenant.
LEMMA AdminStep_StaysAlone ==
  ASSUME AssignmentsInv, Alone, NEW a \in Admins, AdminStepOf(a)
  PROVE  Alone'
<1> SUFFICES ASSUME NEW b \in Admins, NEW d \in Admins, b # d,
                    admin'[b].pc # "idle", admin'[d].pc # "idle",
                    admin'[b].tenant = admin'[d].tenant
             PROVE  admin'[b].tenant \in contended'
  BY DEF Alone
<1>1. CASE a # b /\ a # d
  BY <1>1, AdminStep_Locals DEF Alone
<1>2. CASE a = b
  BY <1>2, AdminStep_Locals DEF Alone
<1>3. CASE a = d
  BY <1>3, AdminStep_Locals DEF Alone
<1>4. QED
  BY <1>1, <1>2, <1>3

\* A call of a tenant that is not contended is not disturbed by other calls.
LEMMA AdminStep_OthersPrepared ==
  ASSUME AssignmentsInv, Alone, CallsPrepared, NEW a \in Admins, AdminStepOf(a),
         NEW b \in Admins \ {a}, admin'[b].tenant \notin contended'
  PROVE  Prepared(admin[b])'
<1>1. /\ admin'[b] = admin[b]
      /\ admin[b].tenant \notin contended
  BY AdminStep_Locals
<1>2. Prepared(admin[b])
  BY <1>1 DEF CallsPrepared
<1>3. CASE admin[b].pc = "idle"
  BY <1>1, <1>3 DEF Prepared
<1>4. CASE admin[b].pc # "idle"
  <2>1. admin[a].pc = "idle" \/ admin[a].tenant # admin[b].tenant
    BY <1>1, <1>4 DEF Alone
  <2>2. /\ ConfigsOf(admin[b].tenant)' = ConfigsOf(admin[b].tenant)
        /\ \A c \in ConfigsOf(admin[b].tenant) : config'[c] = config[c]
    <3>1. PICK t : t = admin[b].tenant
      OBVIOUS
    <3>2. /\ ConfigsOf(t)' = ConfigsOf(t)
          /\ \A c \in ConfigsOf(t) : config'[c] = config[c]
      BY <2>1, <3>1, AdminStep_OtherRows
    <3>3. QED
      BY <1>1, <3>1, <3>2 DEF ConfigsOf
  <2>3. Others(admin[b])' = Others(admin[b])
    BY <1>1, <2>2 DEF Others
  <2>4. \A c \in Others(admin[b]) : config'[c] = config[c]
    BY <2>2 DEF Others
  <2>5. QED
    BY <1>1, <1>2, <2>2, <2>3, <2>4 DEF Prepared
<1>5. QED
  BY <1>3, <1>4

\* The rows that are moved have a priority of at least 100.
LEMMA BumpedPriority ==
  ASSUME AssignmentsTypeOK, NEW S \in SUBSET ConfigIds, NEW c \in ConfigIds,
         config[c] # Null
  PROVE  Bumped(S)[c].priority =
           IF c \in S THEN config[c].priority + 100 ELSE config[c].priority
BY DEF AssignmentsTypeOK, Bumped, Config

\* A statement that moves rows leaves room at priority 1.
LEMMA BumpMakesRoom ==
  ASSUME AssignmentsTypeOK, NEW t \in Tenants, NEW S \in SUBSET ConfigsOf(t),
         config' = Bumped(S)
  PROVE  /\ ConfigsOf(t)' = ConfigsOf(t)
         /\ \A c \in S : config'[c].priority > 1
         /\ \A c \in ConfigsOf(t) \ S : config'[c] = config[c]
<1>1. S \in SUBSET ConfigIds /\ \A c \in S : config[c] # Null
  BY DEF ConfigsOf
<1>2. \A c \in ConfigIds :
        /\ config'[c] = Null <=> config[c] = Null
        /\ config[c] # Null => config'[c].tenant = config[c].tenant
  BY <1>1, BumpedRows
<1>3. ConfigsOf(t)' = ConfigsOf(t)
  BY <1>2 DEF ConfigsOf
<1>4. ASSUME NEW c \in S PROVE config'[c].priority > 1
  <2>1. config[c].priority \in Nat /\ c \in ConfigIds
    BY <1>1, <1>4 DEF AssignmentsTypeOK, Config
  <2>2. config'[c].priority = config[c].priority + 100
    BY <1>1, <2>1, BumpedPriority
  <2>3. QED
    BY <2>1, <2>2
<1>5. \A c \in ConfigsOf(t) \ S : config'[c] = config[c]
  BY DEF Bumped, ConfigsOf
<1>6. QED
  BY <1>3, <1>4, <1>5

\* The statements of a call prepare what comes next.
LEMMA AdminStep_OwnPrepared ==
  ASSUME AssignmentsInv, NEW a \in Admins, AdminStepOf(a)
  PROVE  Prepared(admin[a])'
<1>1. admin \in [Admins -> AdminCall] /\ AssignmentsTypeOK
  BY DEF AssignmentsInv, AssignmentsTypeOK
<1>2. CASE AssignBegin(a)
  <2>1. PICK t \in Tenants, p \in Registered, primary \in BOOLEAN :
          Begin(a, [pc |-> AssignFirst(primary), tenant |-> t, provider |-> p,
                    target |-> Null, primary |-> primary])
    BY <1>2 DEF AssignBegin
  <2>2. admin'[a].pc = AssignFirst(primary) /\ admin'[a].primary = primary
    BY <1>1, <2>1 DEF Begin
  <2>3. QED
    BY <2>2 DEF AssignFirst, Prepared
<1>3. CASE UpdateBegin(a)
  <2>1. PICK t \in Tenants, c \in ConfigIds, p \in Providers, primary \in BOOLEAN :
          Begin(a, [pc |-> IF primary THEN "bumpOthers" ELSE "write",
                    tenant |-> t, provider |-> p, target |-> c,
                    primary |-> primary])
    BY <1>3 DEF UpdateBegin
  <2>2. /\ admin'[a].pc = (IF primary THEN "bumpOthers" ELSE "write")
        /\ admin'[a].primary = primary
    BY <1>1, <2>1 DEF Begin
  <2>3. QED
    BY <2>2 DEF Prepared
<1>4. CASE RemoveBegin(a)
  <2>1. PICK t \in Tenants, c \in ConfigIds :
          /\ MayRemove(t)
          /\ Begin(a, [pc |-> "delete", tenant |-> t, provider |-> Null,
                       target |-> c, primary |-> FALSE])
          /\ UNCHANGED config
    BY <1>4 DEF RemoveBegin
  <2>2. /\ admin'[a].pc = "delete" /\ admin'[a].tenant = t
        /\ admin'[a].target = c
    BY <1>1, <2>1 DEF Begin
  <2>3. ConfigsOf(t) \ {c} # {}
    BY <2>1, ConfigsFinite, MoreThanOne DEF MayRemove
  <2>4. ConfigsOf(t)' = ConfigsOf(t)
    BY <2>1 DEF ConfigsOf
  <2>5. QED
    BY <2>2, <2>3, <2>4 DEF Prepared, Others
<1>5. CASE AssignBump(a)
  <2>1. PICK t : t = admin[a].tenant
    OBVIOUS
  <2>2. t \in Tenants /\ config' = Bumped(ConfigsOf(t))
    BY <1>5, <2>1 DEF AssignBump, AssignmentsInv, CallsWellFormed
  <2>3. /\ ConfigsOf(t)' = ConfigsOf(t)
        /\ \A c \in ConfigsOf(t) : config'[c].priority > 1
    BY <1>1, <2>2, BumpMakesRoom
  <2>4. admin'[a].tenant = t /\ admin'[a].pc = "insert"
    BY <1>1, <1>5, <2>1 DEF AssignBump, Continue, AdminCall
  <2>5. QED
    BY <2>3, <2>4 DEF Prepared, Others
<1>6. CASE UpdateBump(a)
  <2>1. PICK t, x : t = admin[a].tenant /\ x = admin[a].target
    OBVIOUS
  <2>2. t \in Tenants /\ config' = Bumped(ConfigsOf(t) \ {x})
    BY <1>6, <2>1 DEF UpdateBump, AssignmentsInv, CallsWellFormed
  <2>3. /\ ConfigsOf(t)' = ConfigsOf(t)
        /\ \A c \in ConfigsOf(t) \ {x} : config'[c].priority > 1
    BY <1>1, <2>2, BumpMakesRoom
  <2>4. /\ admin'[a].tenant = t /\ admin'[a].pc = "write"
        /\ admin'[a].target = x
    BY <1>1, <1>6, <2>1 DEF UpdateBump, Continue, AdminCall
  <2>5. QED
    BY <2>3, <2>4 DEF Prepared, Others
<1>7. CASE AssignInsert(a) \/ UpdateWrite(a) \/ RemoveDelete(a) \/ StatementFails(a)
  <2>1. Return(a)
    BY <1>7 DEF AssignInsert, UpdateWrite, RemoveDelete, StatementFails
  <2>2. QED
    BY <1>1, <2>1 DEF Return, Idle, Prepared
<1>8. QED
  BY <1>2, <1>3, <1>4, <1>5, <1>6, <1>7 DEF AdminStepOf

\* The INSERT adds one row, and leaves the others alone.
LEMMA InsertEffect ==
  ASSUME AssignmentsInv, NEW a \in Admins, AssignInsert(a), config' # config,
         NEW t, t = admin[a].tenant
  PROVE  /\ nextConfig \in ConfigIds /\ config[nextConfig] = Null
         /\ config'[nextConfig] =
              [tenant |-> t, provider |-> admin[a].provider,
               priority |-> NewPriority(admin[a].primary)]
         /\ \A c \in ConfigIds : c # nextConfig => config'[c] = config[c]
         /\ ConfigsOf(t)' = ConfigsOf(t) \cup {nextConfig}
<1> DEFINE row == [tenant |-> t, provider |-> admin[a].provider,
                   priority |-> NewPriority(admin[a].primary)]
<1>1. /\ nextConfig <= MaxConfigs
      /\ config' = [config EXCEPT ![nextConfig] = row]
  BY DEF AssignInsert
<1>2. nextConfig \in ConfigIds /\ config[nextConfig] = Null
  BY <1>1, BoundAssumption
  DEF AssignmentsInv, AssignmentsTypeOK, FreshIdsUnused, ConfigIds
<1>3. /\ config'[nextConfig] = row
      /\ \A c \in ConfigIds : c # nextConfig => config'[c] = config[c]
  BY <1>1, <1>2 DEF AssignmentsInv, AssignmentsTypeOK
<1>4. row \in Config
  BY DEF AssignInsert, NewPriority, Config, AssignmentsInv, AssignmentsTypeOK,
         CallsWellFormed
<1>5. row # Null /\ row.tenant = t
  BY <1>4, NullAssumption
<1> HIDE DEF row
<1>6. ConfigsOf(t)' = ConfigsOf(t) \cup {nextConfig}
  BY <1>2, <1>3, <1>5 DEF ConfigsOf
<1>7. QED
  BY <1>2, <1>3, <1>6 DEF row

\* The UPDATE writes the row the call is aimed at, and only that one.
LEMMA WriteEffect ==
  ASSUME AssignmentsInv, NEW a \in Admins, UpdateWrite(a), config' # config,
         NEW t, t = admin[a].tenant, NEW x, x = admin[a].target
  PROVE  /\ x \in ConfigsOf(t)
         /\ config'[x].priority = NewPriority(admin[a].primary)
         /\ config'[x].provider = admin[a].provider
         /\ \A c \in ConfigIds : c # x => config'[c] = config[c]
         /\ ConfigsOf(t)' = ConfigsOf(t)
<1>1. /\ x \in ConfigsOf(t)
      /\ config' = [config EXCEPT ![x] = Updated(config[x], admin[a])]
  BY DEF UpdateWrite, Matching
<1>2. x \in ConfigIds /\ config[x] \in Config /\ config[x].tenant = t
  BY <1>1 DEF ConfigsOf, AssignmentsInv, AssignmentsTypeOK
<1>3. config'[x] = Updated(config[x], admin[a])
  BY <1>1, <1>2 DEF AssignmentsInv, AssignmentsTypeOK
<1>4. \A c \in ConfigIds : c # x => config'[c] = config[c]
  BY <1>1 DEF AssignmentsInv, AssignmentsTypeOK
<1>5. /\ config'[x].tenant = t
      /\ config'[x].priority = NewPriority(admin[a].primary)
      /\ config'[x].provider = admin[a].provider
  BY <1>2, <1>3 DEF Updated, Config
<1>6. Updated(config[x], admin[a]) \in Config
  <2>1. admin[a].provider \in Providers /\ NewPriority(admin[a].primary) \in Nat
    BY DEF UpdateWrite, NewPriority, AssignmentsInv, CallsWellFormed
  <2>2. QED
    BY <1>2, <2>1 DEF Updated, Config
<1>7. config'[x] # Null
  BY <1>3, <1>6, NullAssumption
<1>8. ConfigsOf(t)' = ConfigsOf(t)
  BY <1>1, <1>2, <1>4, <1>5, <1>7 DEF ConfigsOf
<1>9. QED
  BY <1>1, <1>4, <1>5, <1>8

\* The DELETE takes the row the call is aimed at, and only that one.
LEMMA RemoveEffect ==
  ASSUME AssignmentsInv, NEW a \in Admins, RemoveDelete(a), config' # config,
         NEW t, t = admin[a].tenant, NEW x, x = admin[a].target
  PROVE  /\ x \in ConfigsOf(t)
         /\ \A c \in ConfigIds : c # x => config'[c] = config[c]
         /\ ConfigsOf(t)' = ConfigsOf(t) \ {x}
<1>1. /\ x \in ConfigsOf(t)
      /\ config' = [config EXCEPT ![x] = Null]
  BY DEF RemoveDelete, Deletable, Matching
<1>2. x \in ConfigIds /\ config'[x] = Null
  BY <1>1 DEF ConfigsOf, AssignmentsInv, AssignmentsTypeOK
<1>3. \A c \in ConfigIds : c # x => config'[c] = config[c]
  BY <1>1 DEF AssignmentsInv, AssignmentsTypeOK
<1>4. ConfigsOf(t)' = ConfigsOf(t) \ {x}
  BY <1>1, <1>2, <1>3 DEF ConfigsOf
<1>5. QED
  BY <1>1, <1>3, <1>4

\* Which statements a change of the table can be.
LEMMA ChangedBy ==
  ASSUME AssignmentsInv, NEW a \in Admins, AdminStepOf(a), config' # config
  PROVE  /\ AssignBump(a) \/ AssignInsert(a) \/ UpdateBump(a)
            \/ UpdateWrite(a) \/ RemoveDelete(a)
         /\ admin[a].pc # "idle" /\ admin[a].tenant \in Tenants
         /\ contended' = contended
BY DEF AdminStepOf, AssignBegin, UpdateBegin, RemoveBegin, StatementFails,
       AssignBump, AssignInsert, UpdateBump, UpdateWrite, RemoveDelete,
       Continue, Return, AssignmentsInv, CallsWellFormed

\* The one row that becomes primary finds no other.
LEMMA AdminStep_NoTwoPrimaries ==
  ASSUME AssignmentsInv, PromotionInv, NEW a \in Admins, AdminStepOf(a)
  PROVE  NoTwoPrimaries'
<1> SUFFICES ASSUME NEW u \in Tenants, u \notin contended',
                    NEW c \in Primaries(u)', NEW d \in Primaries(u)'
             PROVE  c = d
  BY DEF NoTwoPrimaries
<1>1. u \notin contended
  BY AdminStep_Locals
<1>2. \A x, y \in Primaries(u) : x = y
  BY <1>1 DEF PromotionInv, NoTwoPrimaries
<1>3. CASE config' = config
  BY <1>2, <1>3 DEF Primaries, ConfigsOf
<1>4. CASE admin[a].tenant # u
  BY <1>2, <1>4, AdminStep_OtherRows DEF Primaries
<1>5. CASE config' # config /\ admin[a].tenant = u
  <2> PICK x : x = admin[a].target
    OBVIOUS
  <2>1. /\ c \in ConfigsOf(u)' /\ config'[c].priority = 1
        /\ d \in ConfigsOf(u)' /\ config'[d].priority = 1
    BY DEF Primaries
  <2>2. Prepared(admin[a])
    BY <1>1, <1>5 DEF PromotionInv, CallsPrepared
  <2>3. AssignmentsTypeOK
    BY DEF AssignmentsInv
  <2>4. CASE AssignBump(a)
    <3>1. config' = Bumped(ConfigsOf(u))
      BY <1>5, <2>4 DEF AssignBump
    <3>2. c \in ConfigsOf(u) /\ config'[c].priority > 1
      BY <2>1, <2>3, <3>1, BumpMakesRoom
    <3>3. QED
      BY <2>1, <3>2
  <2>5. CASE UpdateBump(a)
    <3>1. config' = Bumped(ConfigsOf(u) \ {x})
      BY <1>5, <2>5 DEF UpdateBump
    <3>2. \A y \in ConfigsOf(u)' : y # x => config'[y].priority > 1
      BY <2>3, <3>1, BumpMakesRoom
    <3>3. c = x /\ d = x
      BY <2>1, <3>2
    <3>4. QED
      BY <3>3
  <2>6. CASE AssignInsert(a)
    <3>1. /\ config'[nextConfig].priority = NewPriority(admin[a].primary)
          /\ \A y \in ConfigsOf(u)' : y # nextConfig =>
               y \in ConfigsOf(u) /\ config'[y] = config[y]
          /\ admin[a].pc = "insert"
      <4>1. /\ config'[nextConfig] =
                 [tenant |-> u, provider |-> admin[a].provider,
                  priority |-> NewPriority(admin[a].primary)]
            /\ \A y \in ConfigIds : y # nextConfig => config'[y] = config[y]
            /\ ConfigsOf(u)' = ConfigsOf(u) \cup {nextConfig}
        BY <1>5, <2>6, InsertEffect
      <4>2. ConfigsOf(u) \subseteq ConfigIds
        BY ConfigsOfSubset
      <4>3. admin[a].pc = "insert"
        BY <2>6 DEF AssignInsert
      <4>4. QED
        BY <4>1, <4>2, <4>3
    <3>2. CASE admin[a].primary
      <4>1. \A y \in ConfigsOf(u) : config[y].priority > 1
        BY <1>5, <2>2, <3>1, <3>2 DEF Prepared
      <4>2. c = nextConfig /\ d = nextConfig
        BY <2>1, <3>1, <4>1
      <4>3. QED
        BY <4>2
    <3>3. CASE ~admin[a].primary
      <4>1. config'[nextConfig].priority = 10
        BY <3>1, <3>3 DEF NewPriority
      <4>2. c \in Primaries(u) /\ d \in Primaries(u)
        BY <2>1, <3>1, <4>1 DEF Primaries
      <4>3. QED
        BY <1>2, <4>2
    <3>4. QED
      BY <3>2, <3>3
  <2>7. CASE UpdateWrite(a)
    <3>1. /\ x \in ConfigsOf(u)
          /\ config'[x].priority = NewPriority(admin[a].primary)
          /\ \A y \in ConfigsOf(u)' : y # x =>
               y \in ConfigsOf(u) /\ config'[y] = config[y]
          /\ admin[a].pc = "write"
      BY <1>5, <2>7, WriteEffect, ConfigsOfSubset DEF UpdateWrite
    <3>2. CASE admin[a].primary
      <4>1. \A y \in ConfigsOf(u) \ {x} : config[y].priority > 1
        BY <1>5, <2>2, <3>1, <3>2 DEF Prepared, Others
      <4>2. c = x /\ d = x
        BY <2>1, <3>1, <4>1
      <4>3. QED
        BY <4>2
    <3>3. CASE ~admin[a].primary
      <4>1. config'[x].priority = 10
        BY <3>1, <3>3 DEF NewPriority
      <4>2. c \in Primaries(u) /\ d \in Primaries(u)
        BY <2>1, <3>1, <4>1 DEF Primaries
      <4>3. QED
        BY <1>2, <4>2
    <3>4. QED
      BY <3>2, <3>3
  <2>8. CASE RemoveDelete(a)
    <3>1. \A y \in ConfigsOf(u)' : y \in ConfigsOf(u) /\ config'[y] = config[y]
      BY <1>5, <2>8, RemoveEffect, ConfigsOfSubset
    <3>2. c \in Primaries(u) /\ d \in Primaries(u)
      BY <2>1, <3>1 DEF Primaries
    <3>3. QED
      BY <1>2, <3>2
  <2>9. QED
    BY <1>5, <2>4, <2>5, <2>6, <2>7, <2>8, ChangedBy
<1>6. QED
  BY <1>3, <1>4, <1>5

LEMMA AssignmentsInit_Promotion == AssignmentsInit => PromotionInv
<1> SUFFICES ASSUME AssignmentsInit PROVE PromotionInv
  OBVIOUS
<1>1. Alone /\ CallsPrepared
  BY DEF AssignmentsInit, Idle, Alone, CallsPrepared, Prepared
<1>2. NoTwoPrimaries
  BY SeedAssumption, SeedPrimaryAssumption
  DEF AssignmentsInit, NoTwoPrimaries, Primaries, ConfigsOf, ConfigIds
<1>3. QED
  BY <1>1, <1>2 DEF PromotionInv

LEMMA AssignmentsNext_Promotion ==
  AssignmentsInv /\ PromotionInv /\ [AssignmentsNext]_assignmentVars
    => PromotionInv'
<1> SUFFICES ASSUME AssignmentsInv, PromotionInv, [AssignmentsNext]_assignmentVars
             PROVE  PromotionInv'
  OBVIOUS
<1>1. ASSUME NEW a \in Admins, AdminStepOf(a)
      PROVE  PromotionInv'
  <2>1. Alone'
    BY <1>1, AdminStep_StaysAlone DEF PromotionInv
  <2>2. CallsPrepared'
    <3>1. ASSUME NEW b \in Admins, admin'[b].tenant \notin contended'
          PROVE  Prepared(admin[b])'
      <4>1. CASE b = a
        BY <1>1, <4>1, AdminStep_OwnPrepared
      <4>2. CASE b # a
        BY <1>1, <3>1, <4>2, AdminStep_OthersPrepared DEF PromotionInv
      <4>3. QED
        BY <4>1, <4>2
    <3>2. QED
      BY <3>1 DEF CallsPrepared
  <2>3. QED
    BY <1>1, <2>1, <2>2, AdminStep_NoTwoPrimaries DEF PromotionInv
<1>2. CASE AdminRestart
  BY <1>2 DEF AdminRestart, PromotionInv, Alone, CallsPrepared, Prepared, Idle,
              NoTwoPrimaries, Primaries, ConfigsOf
<1>3. ASSUME UNCHANGED adminVars
      PROVE  PromotionInv'
  BY <1>3 DEF adminVars, PromotionInv, Alone, CallsPrepared, Prepared, Others,
              NoTwoPrimaries, Primaries, ConfigsOf
<1>4. QED
  BY <1>1, <1>2, <1>3
  DEF AssignmentsNext, AdminStep, AdminStepOf, StoreReference, adminVars, assignmentVars

\* Who is alone with a tenant, and what its calls prepared.
THEOREM PromotionInvariant == AssignmentsSpec => []PromotionInv
BY AssignmentsInit_Promotion, AssignmentsNext_Promotion, AssignmentsInvariant, PTL
DEF AssignmentsSpec

(* At most one provider of a tenant is reported as primary, unless two     *)
(* calls for the tenant were in progress at once.                          *)
THEOREM OnePrimaryHolds == AssignmentsSpec => []OnePrimary
<1>1. PromotionInv => OnePrimary
  <2> SUFFICES ASSUME PromotionInv, NEW t \in Tenants \ contended
               PROVE  Cardinality(Primaries(t)) <= 1
    BY DEF OnePrimary
  <2>1. \A c, d \in Primaries(t) : c = d
    BY DEF PromotionInv, NoTwoPrimaries
  <2>2. CASE Primaries(t) = {}
    BY <2>2, FS_EmptySet
  <2>3. CASE Primaries(t) # {}
    <3>1. PICK c : Primaries(t) = {c}
      BY <2>1, <2>3
    <3>2. Cardinality({c}) = 1
      BY FS_Singleton
    <3>3. QED
      BY <3>1, <3>2
  <2>4. QED
    BY <2>2, <2>3
<1>2. QED
  BY <1>1, PromotionInvariant, PTL

(* A tenant keeps a provider: while nothing else happens to the tenant,    *)
(* the row that the removal counted besides its own is still there when    *)
(* it deletes.                                                             *)
THEOREM LastProviderHolds == AssignmentsSpec => LastProviderKept
<1> DEFINE Kept == \A t \in Tenants \ contended' :
                     ConfigsOf(t) # {} => ConfigsOf(t)' # {}
<1>1. AssignmentsInv /\ PromotionInv /\ [AssignmentsNext]_assignmentVars
        => [Kept]_config
  <2> SUFFICES ASSUME AssignmentsInv, PromotionInv, AssignmentsNext,
                      config' # config, NEW t \in Tenants \ contended',
                      ConfigsOf(t) # {}
               PROVE  ConfigsOf(t)' # {}
    BY DEF assignmentVars
  <2>1. PICK a \in Admins : AdminStepOf(a)
    BY DEF AssignmentsNext, AdminStep, AdminStepOf, AdminRestart, StoreReference,
           adminVars
  <2>2. CASE admin[a].tenant # t
    BY <2>1, <2>2, AdminStep_OtherRows
  <2>3. CASE admin[a].tenant = t
    <3> PICK x : x = admin[a].target
      OBVIOUS
    <3>1. Prepared(admin[a]) /\ AssignmentsTypeOK
      BY <2>1, <2>3, AdminStep_Locals
      DEF PromotionInv, CallsPrepared, AssignmentsInv
    <3>2. CASE AssignBump(a)
      <4>1. config' = Bumped(ConfigsOf(t))
        BY <2>3, <3>2 DEF AssignBump
      <4>2. QED
        BY <3>1, <4>1, BumpMakesRoom
    <3>3. CASE UpdateBump(a)
      <4>1. config' = Bumped(ConfigsOf(t) \ {x})
        BY <2>3, <3>3 DEF UpdateBump
      <4>2. ConfigsOf(t)' = ConfigsOf(t)
        BY <3>1, <4>1, BumpMakesRoom
      <4>3. QED
        BY <4>2
    <3>4. CASE AssignInsert(a)
      <4>1. ConfigsOf(t)' = ConfigsOf(t) \cup {nextConfig}
        BY <2>3, <3>4, InsertEffect
      <4>2. QED
        BY <4>1
    <3>5. CASE UpdateWrite(a)
      BY <2>3, <3>5, WriteEffect
    <3>6. CASE RemoveDelete(a)
      <4>1. ConfigsOf(t)' = ConfigsOf(t) \ {x}
        BY <2>3, <3>6, RemoveEffect
      <4>2. ConfigsOf(t) \ {x} # {}
        BY <2>3, <3>1, <3>6 DEF RemoveDelete, Prepared, Others
      <4>3. QED
        BY <4>1, <4>2
    <3>7. QED
      BY <2>1, <3>2, <3>3, <3>4, <3>5, <3>6, ChangedBy
  <2>4. QED
    BY <2>2, <2>3
<1>2. QED
  BY <1>1, AssignmentsInvariant, PromotionInvariant, PTL
  DEF AssignmentsSpec, LastProviderKept

(* A call that made a provider primary and returned without an error left  *)
(* it the one that ORDER BY priority ... LIMIT 1 finds.                    *)
THEOREM PromotionHolds == AssignmentsSpec => PromotionTakesEffect
<1> DEFINE Effective ==
      \A a \in Admins, t \in Tenants \ contended' :
        /\ admin[a].pc \in {"insert", "write"}
        /\ admin[a].tenant = t
        /\ admin[a].primary
        /\ admin'[a].pc = "idle"
        /\ config' # config
        => \E c \in Selection(t)' :
             /\ config'[c].provider = admin[a].provider
             /\ config'[c].priority = 1
<1>1. AssignmentsInv /\ PromotionInv /\ [AssignmentsNext]_assignmentVars
        => [Effective]_<<config, admin>>
  <2> SUFFICES ASSUME AssignmentsInv, PromotionInv, AssignmentsNext,
                      NEW a \in Admins, NEW t \in Tenants \ contended',
                      admin[a].pc \in {"insert", "write"},
                      admin[a].tenant = t,
                      admin[a].primary,
                      admin'[a].pc = "idle",
                      config' # config
               PROVE  \E c \in Selection(t)' :
                        /\ config'[c].provider = admin[a].provider
                        /\ config'[c].priority = 1
    BY DEF assignmentVars
  <2>1. AdminStepOf(a)
    <3>1. PICK b \in Admins : AdminStepOf(b)
      BY DEF AssignmentsNext, AdminStep, AdminStepOf, AdminRestart,
             StoreReference, adminVars
    <3>2. b # a => admin'[a] = admin[a]
      BY <3>1, AdminStep_Locals
    <3>3. QED
      BY <3>1, <3>2
  <2>2. Prepared(admin[a])
    BY <2>1, AdminStep_Locals DEF PromotionInv, CallsPrepared
  <2>3. ASSUME NEW c \in ConfigsOf(t)', config'[c].priority = 1,
               config'[c].provider = admin[a].provider,
               \A d \in ConfigsOf(t)' \ {c} : config'[d].priority > 1
        PROVE  \E x \in Selection(t)' :
                 /\ config'[x].provider = admin[a].provider
                 /\ config'[x].priority = 1
    <3>1. \A d \in ConfigsOf(t)' \ {c} : 1 < config'[d].priority
      <4>1. \A d \in ConfigsOf(t)' : config'[d].priority \in Nat
        <5>1. AssignmentsInv'
          BY AssignmentsNext_Inv
        <5>2. QED
          BY <5>1 DEF AssignmentsInv, AssignmentsTypeOK, ConfigsOf, Config
      <4>2. QED
        BY <2>3, <4>1
    <3>2. c \in Selection(t)'
      BY <2>3, <3>1 DEF Selection, Precedes
    <3>3. QED
      BY <2>3, <3>2
  <2>4. CASE AssignInsert(a)
    <3>1. /\ config'[nextConfig] =
               [tenant |-> t, provider |-> admin[a].provider,
                priority |-> NewPriority(admin[a].primary)]
          /\ \A y \in ConfigIds : y # nextConfig => config'[y] = config[y]
          /\ ConfigsOf(t)' = ConfigsOf(t) \cup {nextConfig}
      BY <2>4, InsertEffect
    <3>2. /\ config'[nextConfig].priority = 1
          /\ config'[nextConfig].provider = admin[a].provider
      BY <3>1 DEF NewPriority
    <3>3. \A d \in ConfigsOf(t) : config[d].priority > 1
      BY <2>2, <2>4 DEF Prepared, AssignInsert
    <3>4. ConfigsOf(t) \subseteq ConfigIds
      BY ConfigsOfSubset
    <3>5. \A d \in ConfigsOf(t)' \ {nextConfig} : config'[d].priority > 1
      BY <3>1, <3>3, <3>4
    <3>6. nextConfig \in ConfigsOf(t)'
      BY <3>1
    <3>7. QED
      BY <2>3, <3>2, <3>5, <3>6
  <2>5. CASE UpdateWrite(a)
    <3> PICK x : x = admin[a].target
      OBVIOUS
    <3>1. /\ x \in ConfigsOf(t)
          /\ config'[x].priority = NewPriority(admin[a].primary)
          /\ config'[x].provider = admin[a].provider
          /\ \A y \in ConfigIds : y # x => config'[y] = config[y]
          /\ ConfigsOf(t)' = ConfigsOf(t)
      <4> HIDE DEF Effective
      <4>1. \A u, y : u = admin[a].tenant /\ y = admin[a].target =>
              /\ y \in ConfigsOf(u)
              /\ config'[y].priority = NewPriority(admin[a].primary)
              /\ config'[y].provider = admin[a].provider
              /\ \A c \in ConfigIds : c # y => config'[c] = config[c]
              /\ ConfigsOf(u)' = ConfigsOf(u)
        BY <2>5, WriteEffect
      <4>2. QED
        BY <4>1
    <3>2. config'[x].priority = 1
      BY <3>1 DEF NewPriority
    <3>3. \A d \in ConfigsOf(t) \ {x} : config[d].priority > 1
      BY <2>2, <2>5 DEF Prepared, Others, UpdateWrite
    <3>4. ConfigsOf(t) \subseteq ConfigIds
      BY ConfigsOfSubset
    <3>5. \A d \in ConfigsOf(t)' \ {x} : config'[d].priority > 1
      BY <3>1, <3>3, <3>4
    <3>6. x \in ConfigsOf(t)'
      BY <3>1
    <3>7. QED
      BY <2>3, <3>1, <3>2, <3>5, <3>6
  <2>6. QED
    BY <2>1, <2>4, <2>5, ChangedBy
    DEF AssignBump, UpdateBump, RemoveDelete
<1>2. QED
  BY <1>1, AssignmentsInvariant, PromotionInvariant, PTL
  DEF AssignmentsSpec, PromotionTakesEffect

\* Moving the rows of a set, or leaving them alone, keeps their order.
LEMMA BumpKeepsOrder ==
  ASSUME AssignmentsTypeOK, NEW S \in SUBSET ConfigIds, config' = Bumped(S),
         NEW c \in ConfigIds, NEW d \in ConfigIds,
         config[c] # Null, config[d] # Null, c \in S <=> d \in S
  PROVE  Precedes(c, d) <=> Precedes(c, d)'
<1>1. config[c].priority \in Nat /\ config[d].priority \in Nat
  BY DEF AssignmentsTypeOK, Config
<1>2. /\ config'[c].priority =
           IF c \in S THEN config[c].priority + 100 ELSE config[c].priority
      /\ config'[d].priority =
           IF d \in S THEN config[d].priority + 100 ELSE config[d].priority
  BY BumpedPriority
<1>3. PICK m, n \in Nat : m = config[c].priority /\ n = config[d].priority
  BY <1>1
<1>4. CASE c \in S
  <2>1. config'[c].priority = m + 100 /\ config'[d].priority = n + 100
    BY <1>2, <1>3, <1>4
  <2>2. (m < n <=> m + 100 < n + 100) /\ (m = n <=> m + 100 = n + 100)
    BY SMT
  <2>3. QED
    BY <1>3, <2>1, <2>2 DEF Precedes
<1>5. CASE c \notin S
  BY <1>2, <1>3, <1>5 DEF Precedes
<1>6. QED
  BY <1>4, <1>5

(* Two rows that no call in progress aims at keep their order, whatever    *)
(* the calls of the tenant do to the others and wherever they stop.        *)
THEOREM OrderHolds == AssignmentsSpec => PromotionKeepsOrder
<1> DEFINE Ordered ==
      \A t \in Tenants : \A c, d \in ConfigsOf(t) :
        /\ c # d
        /\ ~Aimed(c) /\ ~Aimed(d)
        /\ config'[c] # Null /\ config'[d] # Null
        => (Precedes(c, d) <=> Precedes(c, d)')
<1>1. AssignmentsInv /\ [AssignmentsNext]_assignmentVars => [Ordered]_config
  <2> SUFFICES ASSUME AssignmentsInv, AssignmentsNext, config' # config,
                      NEW t \in Tenants,
                      NEW c \in ConfigsOf(t), NEW d \in ConfigsOf(t),
                      ~Aimed(c), ~Aimed(d),
                      config'[c] # Null, config'[d] # Null
               PROVE  Precedes(c, d) <=> Precedes(c, d)'
    BY DEF assignmentVars
  <2>1. PICK a \in Admins : AdminStepOf(a)
    BY DEF AssignmentsNext, AdminStep, AdminStepOf, AdminRestart, StoreReference,
           adminVars
  <2>2. /\ c \in ConfigIds /\ config[c] # Null /\ config[c].tenant = t
        /\ d \in ConfigIds /\ config[d] # Null /\ config[d].tenant = t
        /\ c # admin[a].target /\ d # admin[a].target
        /\ AssignmentsTypeOK
    BY ConfigsOfSubset DEF Aimed, AssignmentsInv
  <2>3. CASE config'[c] = config[c] /\ config'[d] = config[d]
    BY <2>3 DEF Precedes
  <2>4. CASE AssignBump(a)
    <3>1. config' = Bumped(ConfigsOf(admin[a].tenant))
      BY <2>4 DEF AssignBump
    <3>2. c \in ConfigsOf(admin[a].tenant) <=> d \in ConfigsOf(admin[a].tenant)
      BY <2>2 DEF ConfigsOf
    <3>3. QED
      BY <2>2, <3>1, <3>2, BumpKeepsOrder, ConfigsOfSubset
  <2>5. CASE UpdateBump(a)
    <3> DEFINE S == ConfigsOf(admin[a].tenant) \ {admin[a].target}
    <3>1. config' = Bumped(S)
      BY <2>5 DEF UpdateBump
    <3>2. (c \in S <=> d \in S) /\ S \in SUBSET ConfigIds
      BY <2>2 DEF ConfigsOf
    <3>3. QED
      BY <2>2, <3>1, <3>2, BumpKeepsOrder
  <2>6. CASE AssignInsert(a) \/ UpdateWrite(a) \/ RemoveDelete(a)
    <3>1. PICK u, x : u = admin[a].tenant /\ x = admin[a].target
      OBVIOUS
    <3>2. c # x /\ d # x
      BY <2>2, <3>1
    <3>3. CASE AssignInsert(a)
      BY <2>2, <2>3, <3>1, <3>3, InsertEffect
    <3>4. CASE UpdateWrite(a)
      BY <2>2, <2>3, <3>1, <3>2, <3>4, WriteEffect
    <3>5. CASE RemoveDelete(a)
      BY <2>2, <2>3, <3>1, <3>2, <3>5, RemoveEffect
    <3>6. QED
      BY <2>6, <3>3, <3>4, <3>5
  <2>7. QED
    BY <2>1, <2>4, <2>5, <2>6, ChangedBy
<1>2. QED
  BY <1>1, AssignmentsInvariant, PTL DEF AssignmentsSpec, PromotionKeepsOrder

=============================================================================
