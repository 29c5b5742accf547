----------------------------- MODULE MCPlatform -----------------------------
(***************************************************************************)
(* The components around the verifications, which share no state with one  *)
(* another: a behaviour is about one of them, the others stay as they are  *)
(* at the start.                                                           *)
(***************************************************************************)
EXTENDS Migrations, AdminAccess, Listings, TenantStats, DirectProviders

CONSTANTS a1, a2, k1, t1, t2  \* administrators, a key, tenants

VARIABLE component

Components == {"Migrations", "AdminAccess", "Listings", "TenantStats", "DirectProviders"}

platformVars ==
  <<component, migrationVars, adminVars, listVars, statVars, providerVars>>

Only(c, step, others) == component = c /\ step /\ UNCHANGED <<component, others>>

PlatformInit ==
  /\ component \in Components
  /\ MigrationsInit /\ AdminInit /\ ListInit /\ StatsInit /\ ProvidersInit
  /\ component = "Listings" \/ list = "getAllTenants"

PlatformNext ==
  \/ Only("Migrations", MigrationsNext, <<adminVars, listVars, statVars, providerVars>>)
  \/ Only("AdminAccess", AdminNext, <<migrationVars, listVars, statVars, providerVars>>)
  \/ Only("Listings", ListNext, <<migrationVars, adminVars, statVars, providerVars>>)
  \/ Only("TenantStats", StatsNext, <<migrationVars, adminVars, listVars, providerVars>>)
  \/ Only("DirectProviders", ProvidersNext, <<migrationVars, adminVars, listVars, statVars>>)

(* The type invariants of the four components with requests: foreign keys  *)
(* of the administrators' tables, counts within range, and confidences     *)
(* that are percentages unless a request simulates another number.         *)
PlatformTypeOK == AdminTypeOK /\ ListTypeOK /\ StatsTypeOK /\ ProvidersTypeOK

PlatformSpec == PlatformInit /\ [][PlatformNext]_platformVars

-----------------------------------------------------------------------------
(* AdminAccess: an administrator with a refresh token of an earlier login, *)
(* and requests with each kind of credential.                              *)

MCSeedRow(x) ==
  IF x = a1 THEN [status |-> "active", role |-> "admin"]
  ELSE IF x = 1 THEN [owner |-> a1, isRevoked |-> FALSE]
  ELSE Null

With(r, j, k, o) == [route |-> r, jwt |-> j, key |-> k, override |-> o]

MCPresented ==
  {With("managing", a1, Null, Null), With("admin", Null, k1, Null),
   With("admin", a1, k1, Null), With("tenant", a1, Null, t1),
   With("tenant", t1, k1, t2), With("tenant", a1, t2, t1)}

-----------------------------------------------------------------------------
(* DirectProviders: requests that take each branch.                        *)

Simulate(force, rate, defect, confidence) ==
  [forceStatus |-> force, failureRate |-> rate, defect |-> defect,
   confidence |-> confidence]

Document(simulate) ==
  [method |-> "direct", front |-> TRUE, selfie |-> FALSE, type |-> "document",
   simulate |-> simulate]

MCDocumentRequests ==
  {Document(Absent), [Document(Absent) EXCEPT !.selfie = TRUE, !.type = "comprehensive"],
   [Document(Absent) EXCEPT !.front = FALSE],
   Document(Simulate("failed", FALSE, Absent, 250)),
   Document(Simulate("passed", FALSE, "expiredDocument", 5)),
   Document(Simulate(Absent, TRUE, "poorImageQuality", Absent)),
   Document(Simulate(Absent, TRUE, Absent, 50))}
=============================================================================
