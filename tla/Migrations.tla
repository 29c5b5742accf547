----------------------------- MODULE Migrations -----------------------------
(***************************************************************************)
(* The life of the database: migrations that run and are reverted, with    *)
(* tenants, provider configurations and verifications in the tables, and   *)
(* the scripts that seed and reset it.  TypeORM runs what is pending in    *)
(* one transaction, reverts the last migration in one, and keeps a list of *)
(* what was applied, which is always a first part of all of them.          *)
(*                                                                         *)
(* PostgreSQL is modelled by what these statements rely on: foreign keys   *)
(* with their referential actions, unique emails, and transactions.  Rows  *)
(* of other tables than these five are left out, as are columns that are   *)
(* no foreign key, but for the email of a tenant.                          *)
(***************************************************************************)
EXTENDS DatabaseSchema, Naturals

CONSTANTS
  testTenant,    \* the fixed id of the seeded tenant
  regula, persona,  \* the seeded providers
  TestEmail,     \* the seeded tenant's email
  OtherTenants,  \* tenants that administrators create
  OtherEmails    \* their emails

SeedProviders == {regula, persona}
TenantRowIds == {testTenant} \cup OtherTenants
Emails == {TestEmail} \cup OtherEmails

ASSUME MigrationsAssumption ==
  testTenant \notin OtherTenants /\ TestEmail \notin OtherEmails

VARIABLES
  db,       \* the database: its tables, foreign keys and rows
  applied,  \* typeorm_migrations: how many migrations were applied
  wiped,    \* reset-database.sql ran since the schema was last dropped
  seeding   \* how the last db:seed ended

migrationVars == <<db, applied, wiped, seeding>>

Empty == [tables |-> [t \in {} |-> {}], keys |-> {}, rows |-> {}]

\* A statement is rejected, and with it the transaction.
Failed == [Empty EXCEPT !.rows = {[table |-> "failed", id |-> <<>>]}]

-----------------------------------------------------------------------------
(* Rows, with ids that are sequences.                                      *)

NoRefs == [c \in {} |-> <<>>]

TenantRow(t, email) ==
  [table |-> "tenants", id |-> <<t>>, refs |-> NoRefs, email |-> email]

ProviderRow(p) ==
  [table |-> "providers", id |-> <<p>>, refs |-> NoRefs]

ConfigRow(t, p) ==
  [table |-> "tenant_provider_configs", id |-> <<t, p>>,
   refs |-> [tenant_id |-> <<t>>, provider_id |-> <<p>>]]

\* The sample account.
AccountRow(t) ==
  [table |-> "accounts", id |-> <<t>>, refs |-> [tenant_id |-> <<t>>]]

VerificationRow(t, p) ==
  [table |-> "verifications", id |-> <<t, p>>,
   refs |-> [tenant_id |-> <<t>>, provider_id |-> <<p>>,
             provider_config_id |-> <<t, p>>]]

In(d, table) == {r \in d.rows : r.table = table}

Verified(d) == In(d, "verifications")

EmailOwner(d, email) == {r \in In(d, "tenants") : r.email = email}

HasTenant(d, t) == \E r \in In(d, "tenants") : r.id = <<t>>

\* r refers to x by the foreign key k.
RefersTo(r, k, x) ==
  /\ k.from = r.table /\ k.to = x.table
  /\ k.column \in DOMAIN r.refs /\ r.refs[k.column] = x.id

Referring(d, action, rows) ==
  {r \in d.rows : \E k \in d.keys, x \in rows :
                    k.onDelete = action /\ RefersTo(r, k, x)}

\* DELETE.  A foreign key is a trigger after the statement: those of the rows
\* of D run first and take what cascades, or meet what restricts; those of the
\* rows so taken wait for the next pass, and check what is left by then.  Among
\* these tables nothing cascades further, and no table both cascades and
\* restricts towards the same one.
DeleteRows(d, D) ==
  LET gone == D \cup Referring(d, "CASCADE", D)
      rest == [d EXCEPT !.rows = @ \ gone]
  IN  IF Referring(rest, "RESTRICT", gone) # {} THEN Failed ELSE rest

InsertRow(d, r) == [d EXCEPT !.rows = @ \cup {r}]

-----------------------------------------------------------------------------
(* Statements on the schema.                                               *)

HasTables(d, names) == names \subseteq DOMAIN d.tables

CreateTables(d, tables, keys) ==
  IF DOMAIN tables \cap DOMAIN d.tables # {} THEN Failed
  ELSE [tables |-> Joined(tables, d.tables), keys |-> d.keys \cup keys, rows |-> d.rows]

\* DROP TABLE IF EXISTS ... CASCADE, with the foreign keys from and to them.
DropTables(d, names) ==
  [tables |-> [t \in DOMAIN d.tables \ names |-> d.tables[t]],
   keys |-> {k \in d.keys : k.from \notin names /\ k.to \notin names},
   rows |-> {r \in d.rows : r.table \notin names}]

\* The columns named for the table t.
ColumnsOf(columns, t) == IF t \in DOMAIN columns THEN columns[t] ELSE {}

AddColumns(d, columns) ==
  IF ~HasTables(d, DOMAIN columns) THEN Failed
  ELSE [d EXCEPT !.tables = [t \in DOMAIN @ |-> @[t] \cup ColumnsOf(columns, t)]]

\* A foreign key goes with its column.
DropColumns(d, columns) ==
  IF ~HasTables(d, DOMAIN columns) THEN Failed
  ELSE [tables |-> [t \in DOMAIN d.tables |-> d.tables[t] \ ColumnsOf(columns, t)],
        keys |-> {k \in d.keys : k.column \notin ColumnsOf(columns, k.from)},
        rows |-> d.rows]

-----------------------------------------------------------------------------
(* SeedInitialData.                                                        *)

\* INSERT ... ON CONFLICT (email): a tenant with the email keeps its id, and
\* a tenant with the fixed id and another email is in the way.
UpsertTenant(d) ==
  IF EmailOwner(d, TestEmail) # {} THEN d
  ELSE IF HasTenant(d, testTenant) THEN Failed
  ELSE InsertRow(d, TenantRow(testTenant, TestEmail))

\* The configurations name the fixed id.
SeedUp(d) ==
  LET t == UpsertTenant(d)
      p == [t EXCEPT !.rows = @ \cup {ProviderRow(q) : q \in SeedProviders}
                                \cup {ConfigRow(testTenant, q) : q \in SeedProviders}
                                \cup {AccountRow(testTenant)}]
  IN  IF t = Failed \/ ~HasTenant(t, testTenant) THEN Failed ELSE p

\* The DELETEs, in their order.
SeedDown(d) ==
  LET Owned(x, table) == {r \in In(x, table) : r.refs.tenant_id = <<testTenant>>}
      a == DeleteRows(d, Owned(d, "accounts"))
      c == DeleteRows(a, Owned(a, "tenant_provider_configs"))
      p == DeleteRows(c, {r \in In(c, "providers") : \E q \in SeedProviders : r.id = <<q>>})
      t == DeleteRows(p, EmailOwner(p, TestEmail))
  IN  IF Failed \in {a, c, p, t} THEN Failed ELSE t

-----------------------------------------------------------------------------
(* The migrations, up and down.                                            *)

LastMigration == 5

EventUp(d) ==
  LET created == CreateTables(d, EventTables, EventReferences)
  IN  IF created = Failed THEN Failed ELSE AddColumns(created, EventColumns)

MigrateUp(m, d) ==
  IF d = Failed THEN Failed
  ELSE CASE m = 1 -> CreateTables(d, CleanTables, CleanReferences)
         [] m = 2 -> SeedUp(d)
         [] m = 3 -> AddColumns(d, PreviewColumns)
         [] m = 4 -> AddColumns(d, EncryptionColumns)
         [] m = 5 -> EventUp(d)

\* Faulty variant: the columns of providers are kept.
EventDownHalf(d) ==
  DropTables(DropColumns(d, [verifications |-> EventColumns.verifications]),
             DOMAIN EventTables)

\* Faulty variant: the tables are kept.
EventDownTablesKept(d) ==
  IF ~HasTables(d, DOMAIN EventColumns) THEN Failed ELSE DropColumns(d, EventColumns)

EventDown(d) ==
  IF ~HasTables(d, DOMAIN EventColumns) THEN Failed
  ELSE DropTables(DropColumns(d, EventColumns), DOMAIN EventTables)

MigrateDown(m, d) ==
  CASE m = 1 -> DropTables(d, DOMAIN CleanTables)
    [] m = 2 -> SeedDown(d)
    [] m = 3 -> DropColumns(d, PreviewColumns)
    [] m = 4 -> DropColumns(d, EncryptionColumns)
    [] m = 5 -> EventDown(d)

\* The migrations after the first n, up to the last of them.
MigratedTo(last, d, n) ==
  LET Up(m, e) == IF m > n /\ m <= last THEN MigrateUp(m, e) ELSE e
  IN  Up(5, Up(4, Up(3, Up(2, Up(1, d)))))

\* All that is pending.
Migrated(d, n) == MigratedTo(LastMigration, d, n)

\* npm run migration:run; when a statement is rejected, nothing changes.
RunMigrations ==
  /\ applied < LastMigration
  /\ Migrated(db, applied) # Failed
  /\ db' = Migrated(db, applied)
  /\ applied' = LastMigration
  /\ UNCHANGED <<wiped, seeding>>

\* npm run migration:revert
RevertMigration ==
  /\ applied > 0
  /\ MigrateDown(applied, db) # Failed
  /\ db' = MigrateDown(applied, db)
  /\ applied' = applied - 1
  /\ UNCHANGED <<wiped, seeding>>

\* npm run schema:drop: TypeORM's own table goes as well.
DropSchema ==
  /\ db' = Empty /\ applied' = 0 /\ wiped' = FALSE
  /\ UNCHANGED seeding

\* reset-database.sql names the tables of CreateCleanSchema and older ones,
\* not those of AddEventDrivenArchitecture, and not typeorm_migrations.
ResetScript ==
  /\ db' = DropTables(db, DOMAIN CleanTables)
  /\ wiped' = TRUE
  /\ UNCHANGED <<applied, seeding>>

\* npm run db:seed: InitialDataSeeder, in a transaction.
SeedDatabase ==
  /\ seeding' = IF HasTables(db, LegacySeederTables) THEN "ok" ELSE "failed"
  /\ UNCHANGED <<db, applied, wiped>>

-----------------------------------------------------------------------------
(* What the services write, see TenantAccess, ProviderAssignments and      *)
(* Verifications; each needs its tables.                                   *)

Write(d) ==
  /\ ~wiped /\ applied > 0
  /\ d # Failed
  /\ db' = d
  /\ UNCHANGED <<applied, wiped, seeding>>

AddTenant ==
  \E t \in OtherTenants, e \in Emails :
    /\ ~HasTenant(db, t) /\ EmailOwner(db, e) = {}
    /\ Write(InsertRow(db, TenantRow(t, e)))

RenameTenant ==
  \E r \in In(db, "tenants"), e \in Emails :
    /\ EmailOwner(db, e) = {}
    /\ Write([db EXCEPT !.rows = (@ \ {r}) \cup {[r EXCEPT !.email = e]}])

RemoveTenant ==
  \E r \in In(db, "tenants") : Write(DeleteRows(db, {r}))

AssignSeeded ==
  \E t \in In(db, "tenants"), p \in In(db, "providers") :
    Write(InsertRow(db, ConfigRow(t.id[1], p.id[1])))

UnassignSeeded ==
  \E r \in In(db, "tenant_provider_configs") : Write(DeleteRows(db, {r}))

VerifySeeded ==
  \E r \in In(db, "tenant_provider_configs") :
    Write(InsertRow(db, VerificationRow(r.id[1], r.id[2])))

-----------------------------------------------------------------------------

MigrationsInit ==
  db = Empty /\ applied = 0 /\ wiped = FALSE /\ seeding = "never"

MigrationsNext ==
  \/ RunMigrations \/ RevertMigration \/ DropSchema \/ ResetScript \/ SeedDatabase
  \/ AddTenant \/ RenameTenant \/ RemoveTenant
  \/ AssignSeeded \/ UnassignSeeded \/ VerifySeeded

MigrationsSpec == MigrationsInit /\ [][MigrationsNext]_migrationVars

-----------------------------------------------------------------------------
(* Properties.                                                             *)

\* The tables and foreign keys that the first n migrations make.
Built(n) == MigratedTo(n, Empty, 0)

(* A revert undoes what the migration did: whatever was run and reverted   *)
(* before, the schema depends only on what is applied now.                 *)
SchemaIsReplay ==
  ~wiped => db.tables = Built(applied).tables /\ db.keys = Built(applied).keys

(* Once all migrations have run, every column of the entities in use and   *)
(* of the statements written out is there, but for one statement: what a   *)
(* poll writes, which no migration provides for.  So is every table whose  *)
(* rows a foreign key refers to.                                           *)
CodeIsServed ==
  applied = LastMigration /\ ~wiped =>
    /\ \A need \in EntityNeeds \cup StatementNeeds :
         Served(db.tables, need) <=> need # UpdateVerificationStatus
    /\ \A k \in db.keys : Served(db.tables, Need(k.from, {k.column}))
                          /\ Served(db.tables, Need(k.to, {"id"}))

(* A migration is refused for two reasons only: the seeded tenant's email  *)
(* or id is taken by another tenant, or a verification refers to what the  *)
(* seeds would take away.                                                  *)
MigrationsApply ==
  ~wiped =>
    /\ applied < LastMigration /\ Migrated(db, applied) = Failed =>
         applied = 1 /\ \E r \in In(db, "tenants") :
                           (r.id = <<testTenant>>) # (r.email = TestEmail)
    /\ applied > 0 /\ MigrateDown(applied, db) = Failed =>
         applied = 2 /\ Verified(db) # {}

(* Until the tables themselves are dropped, a verification is lost only    *)
(* with its tenant, to the cascade from it: the foreign keys that restrict *)
(* keep it through every revert, seeds included, and every other deletion. *)
VerificationsSurvive ==
  [][HasTables(db, {"verifications"}) /\ "verifications" \in DOMAIN db'.tables
       => \A r \in Verified(db) \ Verified(db') : ~HasTenant(db', r.id[1])]_db
=============================================================================
