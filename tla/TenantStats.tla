----------------------------- MODULE TenantStats -----------------------------
(***************************************************************************)
(* getTenantStats: the counts that an administrator sees of one tenant.    *)
(* They come from four statements, two of them at the same time, while     *)
(* keys are made and revoked and verifications and accounts are stored.    *)
(*                                                                         *)
(* Keys and verifications change as in TenantAccess and Verifications: a   *)
(* verification that completes makes at most one account, after its row,   *)
(* and neither is deleted while the tenant is there.                       *)
(***************************************************************************)
EXTENDS Naturals, FiniteSets

CONSTANTS
  StatKeys,           \* API keys
  MaxVerifications,   \* bound: rows of verifications
  SampleAccounts,     \* accounts that the seeds made
  Overviews,          \* requests of getTenantStats
  Uncounted           \* a count that has not been read

ASSUME StatsAssumption ==
  /\ MaxVerifications \in Nat /\ SampleAccounts \in Nat
  /\ IsFiniteSet(StatKeys)
  /\ Uncounted \notin Nat

VARIABLES
  keyStatus,   \* [StatKeys -> {"none", "active", "revoked"}]
  stored,      \* rows of verifications
  completing,  \* calls that have stored a completed one and will make an account
  accounts,    \* rows of accounts
  overview,    \* the locals of each request
  keyMade      \* a key was made during the request; for the properties

statVars == <<keyStatus, stored, completing, accounts, overview, keyMade>>

Count == Nat \cup {Uncounted}

Overview ==
  [pc : {"idle", "keys", "accounts", "verifications", "done"},
   apiKeyCount : Count, activeApiKeyCount : Count, accountCount : Count,
   totalVerifications : Count]

StatsTypeOK ==
  /\ keyStatus \in [StatKeys -> {"none", "active", "revoked"}]
  /\ stored \in 0..MaxVerifications
  /\ completing \in 0..stored
  /\ accounts \in SampleAccounts..(SampleAccounts + stored)
  /\ overview \in [Overviews -> Overview]
  /\ keyMade \subseteq Overviews

-----------------------------------------------------------------------------
(* The statements.                                                         *)

KeysWith(set) == Cardinality({k \in StatKeys : keyStatus[k] \in set})

\* Tells that a request goes on with rec, and leaves the tables alone.
Counted(o, rec) ==
  /\ overview' = [overview EXCEPT ![o] = rec]
  /\ UNCHANGED <<keyStatus, stored, completing, accounts, keyMade>>

\* The tenant is there: this module is about one that is.
BeginOverview(o) ==
  /\ overview[o].pc = "idle"
  /\ Counted(o, [overview[o] EXCEPT !.pc = "keys"])

\* Faulty variant: the accounts are counted last.
FollowsSwapped(pc) ==
  CASE pc = "keys" -> "verifications"
    [] pc = "verifications" -> "accounts"
    [] pc = "accounts" -> "done"

\* Which statements follow which.
Follows(pc) ==
  CASE pc = "keys" -> "accounts"
    [] pc = "accounts" -> "verifications"
    [] pc = "verifications" -> "done"

\* Promise.all: when both counts are there.
AfterKeyCount(rec) ==
  IF Uncounted \in {rec.apiKeyCount, rec.activeApiKeyCount} THEN rec
  ELSE [rec EXCEPT !.pc = Follows("keys")]

CountKeys(o) ==
  /\ overview[o].pc = "keys" /\ overview[o].apiKeyCount = Uncounted
  /\ Counted(o, AfterKeyCount([overview[o] EXCEPT !.apiKeyCount = KeysWith({"active", "revoked"})]))

CountActiveKeys(o) ==
  /\ overview[o].pc = "keys" /\ overview[o].activeApiKeyCount = Uncounted
  /\ Counted(o, AfterKeyCount([overview[o] EXCEPT !.activeApiKeyCount = KeysWith({"active"})]))

CountAccounts(o) ==
  /\ overview[o].pc = "accounts"
  /\ Counted(o, [overview[o] EXCEPT !.accountCount = accounts, !.pc = Follows("accounts")])

CountVerifications(o) ==
  /\ overview[o].pc = "verifications"
  /\ Counted(o, [overview[o] EXCEPT !.totalVerifications = stored, !.pc = Follows("verifications")])

-----------------------------------------------------------------------------
(* Meanwhile.                                                              *)

MakeKey ==
  /\ \E k \in StatKeys :
       keyStatus[k] = "none" /\ keyStatus' = [keyStatus EXCEPT ![k] = "active"]
  /\ keyMade' = keyMade \cup {o \in Overviews : overview[o].pc = "keys"}
  /\ UNCHANGED <<stored, completing, accounts, overview>>

RevokeKey ==
  /\ \E k \in StatKeys :
       keyStatus[k] = "active" /\ keyStatus' = [keyStatus EXCEPT ![k] = "revoked"]
  /\ UNCHANGED <<stored, completing, accounts, overview, keyMade>>

\* storeVerification; a completed one without an account makes one later.
StoreRow ==
  /\ stored < MaxVerifications
  /\ stored' = stored + 1
  /\ completing' \in {completing, completing + 1}
  /\ UNCHANGED <<keyStatus, accounts, overview, keyMade>>

\* createUserFromVerification, unless it fails.
StoreAccount ==
  /\ completing > 0
  /\ completing' = completing - 1
  /\ accounts' \in {accounts, accounts + 1}
  /\ UNCHANGED <<keyStatus, stored, overview, keyMade>>

-----------------------------------------------------------------------------

NoOverview ==
  [pc |-> "idle", apiKeyCount |-> Uncounted, activeApiKeyCount |-> Uncounted,
   accountCount |-> Uncounted, totalVerifications |-> Uncounted]

StatsInit ==
  /\ keyStatus = [k \in StatKeys |-> "none"]
  /\ stored = 0 /\ completing = 0 /\ accounts = SampleAccounts
  /\ overview = [o \in Overviews |-> NoOverview]
  /\ keyMade = {}

StatsNext ==
  \/ \E o \in Overviews :
       \/ BeginOverview(o) \/ CountKeys(o) \/ CountActiveKeys(o)
       \/ CountAccounts(o) \/ CountVerifications(o)
  \/ MakeKey \/ RevokeKey \/ StoreRow \/ StoreAccount

StatsSpec == StatsInit /\ [][StatsNext]_statVars

-----------------------------------------------------------------------------
(* Properties.                                                             *)

(* The counts fit together although they are read one after the other:     *)
(* no more accounts than verifications and seeded accounts, because the    *)
(* accounts are counted first, and no more active keys than keys, unless   *)
(* a key was made between those two counts.                                *)
CountsFit ==
  \A o \in Overviews :
    overview[o].pc = "done" =>
      /\ overview[o].accountCount <= overview[o].totalVerifications + SampleAccounts
      /\ overview[o].activeApiKeyCount <= overview[o].apiKeyCount \/ o \in keyMade
=============================================================================
