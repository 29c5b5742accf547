-------------------------- MODULE MigrationsProofs --------------------------
(***************************************************************************)
(* Theorems about the life of the database.                                *)
(***************************************************************************)
EXTENDS Migrations, TLAPS

CleanNames ==
  {"admins", "admin_api_keys", "admin_refresh_tokens",
   "tenants", "tenant_api_keys", "tenant_refresh_tokens",
   "providers", "tenant_provider_configs", "accounts", "verifications",
   "inquiry_templates", "inquiries", "documents", "webhooks"}

EventNames ==
  {"provider_templates", "provider_plans", "provider_verification_sessions"}

-----------------------------------------------------------------------------
(* What the migrations say of tables and foreign keys.                     *)

LEMMA CleanDomain ==
  /\ DOMAIN AdminTables = {"admins", "admin_api_keys", "admin_refresh_tokens"}
  /\ DOMAIN TenantTables = {"tenants", "tenant_api_keys", "tenant_refresh_tokens"}
  /\ DOMAIN ProviderTables = {"providers", "tenant_provider_configs"}
  /\ DOMAIN VerificationTables = {"accounts", "verifications"}
  /\ DOMAIN InquiryTables = {"inquiry_templates", "inquiries", "documents", "webhooks"}
BY DEF AdminTables, TenantTables, ProviderTables, VerificationTables, InquiryTables

LEMMA CleanTableNames == DOMAIN CleanTables = CleanNames
BY CleanDomain DEF Joined, CleanTables, CleanNames

LEMMA EventTableNames == DOMAIN EventTables = EventNames
<1>1. DOMAIN TemplateTables = {"provider_templates", "provider_plans"}
  BY DEF TemplateTables
<1>2. DOMAIN SessionTables = {"provider_verification_sessions"}
  BY DEF SessionTables
<1> QED
  BY <1>1, <1>2 DEF Joined, EventTables, EventNames

\* What the clean schema says of verifications; none of the columns that come
\* later is a foreign key yet.
LEMMA CleanKeys ==
  /\ \A k \in CleanReferences :
       /\ k.from \in CleanNames /\ k.to \in CleanNames
       /\ k.onDelete = "RESTRICT" => k.from = "verifications"
       /\ k.onDelete = "CASCADE" /\ k.from = "verifications" =>
            k.column = "tenant_id" /\ k.to = "tenants"
       /\ k.from \in {"tenant_api_keys", "verifications", "providers"} =>
            k.column \in {"tenant_id", "account_id", "provider_id", "provider_config_id"}
  /\ Reference("verifications", "provider_config_id", "tenant_provider_configs", "RESTRICT")
       \in CleanReferences
BY DEF CleanReferences, Reference, CleanNames

LEMMA EventKeys ==
  \A k \in EventReferences :
    /\ k.from \in EventNames \/ k.to \in EventNames
    /\ k.onDelete # "RESTRICT"
    /\ k.from = "verifications" => k.onDelete # "CASCADE"
BY DEF EventReferences, Reference, EventNames

\* Later columns are new to their tables.
LEMMA NewColumns ==
  /\ CleanTables["tenant_api_keys"] = KeyRow \cup {"tenant_id"}
  /\ CleanTables["tenant_api_keys"] \cap {"preview_suffix", "key_encrypted", "key_iv"} = {}
  /\ CleanTables["verifications"] \cap EventColumns.verifications = {}
  /\ CleanTables["providers"] \cap EventColumns.providers = {}
<1>1. CleanTables["tenant_api_keys"] = TenantTables["tenant_api_keys"]
  BY CleanDomain DEF CleanTables, Joined
<1>2. CleanTables["verifications"] = VerificationTables["verifications"]
  BY CleanDomain DEF CleanTables, Joined
<1>3. CleanTables["providers"] = ProviderTables["providers"]
  BY CleanDomain DEF CleanTables, Joined
<1>4. TenantTables["tenant_api_keys"] = KeyRow \cup {"tenant_id"}
  BY DEF TenantTables
<1>5. (KeyRow \cup {"tenant_id"}) \cap {"preview_suffix", "key_encrypted", "key_iv"} = {}
  BY DEF KeyRow, Stamps
<1>6. VerificationTables["verifications"] \cap EventColumns.verifications = {}
  BY DEF VerificationTables, EventColumns, Stamps
<1>7. ProviderTables["providers"] \cap EventColumns.providers = {}
  BY DEF ProviderTables, EventColumns, Stamps
<1> QED
  BY <1>1, <1>2, <1>3, <1>4, <1>5, <1>6, <1>7

-----------------------------------------------------------------------------
(* The schema after each migration.                                        *)

Widened(T, columns) == [t \in DOMAIN T |-> T[t] \cup ColumnsOf(columns, t)]

Narrowed(T, columns) == [t \in DOMAIN T |-> T[t] \ ColumnsOf(columns, t)]

Preview == Widened(CleanTables, PreviewColumns)
Encrypted == Widened(Preview, EncryptionColumns)
WithEvents == Joined(EventTables, Encrypted)

SchemaTables(n) ==
  CASE n = 0 -> Empty.tables
    [] n \in {1, 2} -> CleanTables
    [] n = 3 -> Preview
    [] n = 4 -> Encrypted
    [] n = 5 -> Widened(WithEvents, EventColumns)

SchemaKeys(n) ==
  CASE n = 0 -> {}
    [] n \in 1..4 -> CleanReferences
    [] n = 5 -> CleanReferences \cup EventReferences

LEMMA ColumnNames ==
  /\ DOMAIN PreviewColumns = {"tenant_api_keys"}
  /\ DOMAIN EncryptionColumns = {"tenant_api_keys"}
  /\ DOMAIN EventColumns = {"verifications", "providers"}
  /\ ColumnsOf(PreviewColumns, "tenant_api_keys") = {"preview_suffix"}
  /\ ColumnsOf(EncryptionColumns, "tenant_api_keys") = {"key_encrypted", "key_iv"}
  /\ ColumnsOf(EventColumns, "verifications") = EventColumns.verifications
  /\ ColumnsOf(EventColumns, "providers") = EventColumns.providers
  /\ \A t : t # "tenant_api_keys" => /\ ColumnsOf(PreviewColumns, t) = {}
                                     /\ ColumnsOf(EncryptionColumns, t) = {}
  /\ \A t : t \notin {"verifications", "providers"} => ColumnsOf(EventColumns, t) = {}
<1>1. /\ DOMAIN PreviewColumns = {"tenant_api_keys"}
      /\ DOMAIN EncryptionColumns = {"tenant_api_keys"}
      /\ DOMAIN EventColumns = {"verifications", "providers"}
      /\ PreviewColumns["tenant_api_keys"] = {"preview_suffix"}
      /\ EncryptionColumns["tenant_api_keys"] = {"key_encrypted", "key_iv"}
  BY DEF PreviewColumns, EncryptionColumns, EventColumns
<1> QED
  BY <1>1 DEF ColumnsOf

LEMMA NarrowsBack ==
  ASSUME NEW T, NEW columns, T = [t \in DOMAIN T |-> T[t]],
         \A t \in DOMAIN T : T[t] \cap ColumnsOf(columns, t) = {}
  PROVE  Narrowed(Widened(T, columns), columns) = T
<1>1. \A t \in DOMAIN T : (T[t] \cup ColumnsOf(columns, t)) \ ColumnsOf(columns, t) = T[t]
  OBVIOUS
<1>2. /\ DOMAIN Widened(T, columns) = DOMAIN T
      /\ \A t \in DOMAIN T : Widened(T, columns)[t] = T[t] \cup ColumnsOf(columns, t)
  BY DEF Widened
<1>3. Narrowed(Widened(T, columns), columns)
        = [t \in DOMAIN T |-> (T[t] \cup ColumnsOf(columns, t)) \ ColumnsOf(columns, t)]
  BY <1>2 DEF Narrowed
<1> QED
  BY <1>1, <1>3

LEMMA CleanIsTables == CleanTables = [t \in DOMAIN CleanTables |-> CleanTables[t]]
BY DEF CleanTables, Joined

\* Each migration widens or adds tables, and reverting it narrows them again.
LEMMA SchemaSteps ==
  /\ DOMAIN Preview = CleanNames /\ DOMAIN Encrypted = CleanNames
  /\ DOMAIN WithEvents = CleanNames \cup EventNames
  /\ Joined(CleanTables, Empty.tables) = CleanTables
  /\ Narrowed(Preview, PreviewColumns) = CleanTables
  /\ Narrowed(Encrypted, EncryptionColumns) = Preview
  /\ Narrowed(Widened(WithEvents, EventColumns), EventColumns) = WithEvents
  /\ [t \in DOMAIN WithEvents \ EventNames |-> WithEvents[t]] = Encrypted
<1>1. DOMAIN Preview = CleanNames /\ DOMAIN Encrypted = CleanNames
  BY CleanTableNames DEF Preview, Encrypted, Widened
<1>2. DOMAIN WithEvents = CleanNames \cup EventNames
  BY <1>1, EventTableNames DEF WithEvents, Joined
<1>3. Joined(CleanTables, Empty.tables) = CleanTables
  BY CleanIsTables DEF Joined, Empty
<1>4. Narrowed(Preview, PreviewColumns) = CleanTables
  BY NarrowsBack, CleanIsTables, ColumnNames, NewColumns DEF Preview
<1>5. Narrowed(Encrypted, EncryptionColumns) = Preview
  <2>1. Preview = [t \in DOMAIN Preview |-> Preview[t]]
    BY DEF Preview, Widened
  <2>2. Preview["tenant_api_keys"] = CleanTables["tenant_api_keys"] \cup {"preview_suffix"}
    BY ColumnNames, CleanTableNames DEF Preview, Widened, CleanNames
  <2>3. \A t \in DOMAIN Preview : Preview[t] \cap ColumnsOf(EncryptionColumns, t) = {}
    BY <2>2, ColumnNames, NewColumns
  <2> QED
    BY <2>1, <2>3, NarrowsBack DEF Encrypted
<1>6. Narrowed(Widened(WithEvents, EventColumns), EventColumns) = WithEvents
  <2>1. WithEvents = [t \in DOMAIN WithEvents |-> WithEvents[t]]
    BY DEF WithEvents, Joined
  <2>2. ASSUME NEW t \in {"verifications", "providers"}
        PROVE  WithEvents[t] = CleanTables[t]
    <3>1. WithEvents[t] = Encrypted[t]
      BY <1>1, <1>2, EventTableNames DEF WithEvents, Joined, CleanNames, EventNames
    <3>2. Encrypted[t] = Preview[t] \cup {} /\ Preview[t] = CleanTables[t] \cup {}
      BY <1>1, ColumnNames, CleanTableNames DEF Encrypted, Preview, Widened, CleanNames
    <3> QED
      BY <3>1, <3>2
  <2>3. \A t \in DOMAIN WithEvents : WithEvents[t] \cap ColumnsOf(EventColumns, t) = {}
    BY <2>2, ColumnNames, NewColumns
  <2> QED
    BY <2>1, <2>3, NarrowsBack
<1>7. [t \in DOMAIN WithEvents \ EventNames |-> WithEvents[t]] = Encrypted
  <2>1. DOMAIN WithEvents \ EventNames = CleanNames
    BY <1>2 DEF CleanNames, EventNames
  <2>2. \A t \in CleanNames : WithEvents[t] = Encrypted[t]
    BY <1>1, <1>2, EventTableNames DEF WithEvents, Joined, CleanNames, EventNames
  <2>3. Encrypted = [t \in CleanNames |-> Encrypted[t]]
    BY <1>1 DEF Encrypted, Widened
  <2> QED
    BY <2>1, <2>2, <2>3
<1> QED
  BY <1>1, <1>2, <1>3, <1>4, <1>5, <1>6, <1>7

-----------------------------------------------------------------------------
(* Databases and their rows.                                               *)

AnyRow ==
  {TenantRow(t, e) : t \in TenantRowIds, e \in Emails}
    \cup {ProviderRow(p) : p \in SeedProviders}
    \cup {ConfigRow(t, p) : t \in TenantRowIds, p \in SeedProviders}
    \cup {AccountRow(t) : t \in TenantRowIds}
    \cup {VerificationRow(t, p) : t \in TenantRowIds, p \in SeedProviders}

Database(d) ==
  /\ d = [tables |-> d.tables, keys |-> d.keys, rows |-> d.rows]
  /\ d.rows \subseteq AnyRow

\* Every verification has the configuration it was made with, and a tenant has
\* one row.
RowsAgree(d) ==
  /\ \A t \in TenantRowIds, p \in SeedProviders :
       VerificationRow(t, p) \in d.rows => ConfigRow(t, p) \in d.rows
  /\ \A t \in TenantRowIds, e1, e2 \in Emails :
       TenantRow(t, e1) \in d.rows /\ TenantRow(t, e2) \in d.rows => e1 = e2

\* A verification that d has and e has not is lost with its tenant.
LostWithTenant(d, e) ==
  \A t \in TenantRowIds, p \in SeedProviders :
    VerificationRow(t, p) \in d.rows \ e.rows => ~HasTenant(e, t)

Fits(d, n) == d.tables = SchemaTables(n) /\ d.keys = SchemaKeys(n)

LEMMA RowTables ==
  ASSUME NEW r \in AnyRow
  PROVE  /\ r.table \in {"tenants", "providers", "tenant_provider_configs",
                         "accounts", "verifications"}
         /\ r.table = "tenants" =>
              \E t \in TenantRowIds, e \in Emails : r = TenantRow(t, e)
         /\ r.table = "providers" => \E p \in SeedProviders : r = ProviderRow(p)
         /\ r.table = "tenant_provider_configs" =>
              \E t \in TenantRowIds, p \in SeedProviders : r = ConfigRow(t, p)
         /\ r.table = "verifications" =>
              \E t \in TenantRowIds, p \in SeedProviders : r = VerificationRow(t, p)
<1>1. CASE \E t \in TenantRowIds, e \in Emails : r = TenantRow(t, e)
  BY <1>1 DEF TenantRow
<1>2. CASE \E p \in SeedProviders : r = ProviderRow(p)
  BY <1>2 DEF ProviderRow
<1>3. CASE \E t \in TenantRowIds, p \in SeedProviders : r = ConfigRow(t, p)
  BY <1>3 DEF ConfigRow
<1>4. CASE \E t \in TenantRowIds : r = AccountRow(t)
  BY <1>4 DEF AccountRow
<1>5. CASE \E t \in TenantRowIds, p \in SeedProviders : r = VerificationRow(t, p)
  BY <1>5 DEF VerificationRow
<1> QED
  BY <1>1, <1>2, <1>3, <1>4, <1>5 DEF AnyRow

\* Tables and ids of rows.
LEMMA TenantFields ==
  ASSUME NEW t, NEW e
  PROVE  /\ TenantRow(t, e).table = "tenants"
         /\ TenantRow(t, e).id = <<t>> /\ TenantRow(t, e).email = e
BY DEF TenantRow

LEMMA ProviderFields ==
  ASSUME NEW p
  PROVE  ProviderRow(p).table = "providers" /\ ProviderRow(p).id = <<p>>
BY DEF ProviderRow

LEMMA AccountFields ==
  ASSUME NEW t
  PROVE  AccountRow(t).table = "accounts"
BY DEF AccountRow

LEMMA RowFields ==
  ASSUME NEW t, NEW p
  PROVE  /\ ConfigRow(t, p).table = "tenant_provider_configs"
         /\ ConfigRow(t, p).id = <<t, p>>
         /\ VerificationRow(t, p).table = "verifications"
         /\ VerificationRow(t, p).id = <<t, p>>
BY DEF ConfigRow, VerificationRow

LEMMA NotRejected ==
  ASSUME NEW d, Database(d)
  PROVE  d # Failed
<1>1. Failed.rows = {[table |-> "failed", id |-> <<>>]}
  BY DEF Failed, Empty
<1>2. ASSUME d = Failed PROVE FALSE
  <2>1. [table |-> "failed", id |-> <<>>] \in AnyRow
    BY <1>1, <1>2 DEF Database
  <2> QED
    BY <2>1, RowTables
<1> QED
  BY <1>2

LEMMA WithRows ==
  ASSUME NEW d, Database(d), NEW R
  PROVE  /\ [d EXCEPT !.rows = R] = [tables |-> d.tables, keys |-> d.keys, rows |-> R]
         /\ [d EXCEPT !.rows = R].rows = R
         /\ [d EXCEPT !.rows = R].tables = d.tables
         /\ [d EXCEPT !.rows = R].keys = d.keys
<1> DEFINE e == [tables |-> d.tables, keys |-> d.keys, rows |-> d.rows]
<1>1. d = e
  BY DEF Database
<1>2. [e EXCEPT !.rows = R] = [tables |-> d.tables, keys |-> d.keys, rows |-> R]
  OBVIOUS
<1> HIDE DEF e
<1>3. [d EXCEPT !.rows = R] = [tables |-> d.tables, keys |-> d.keys, rows |-> R]
  BY <1>1, <1>2
<1> QED
  BY <1>3

\* New rows but no verification, and no second row of a tenant.
LEMMA AddRows ==
  ASSUME NEW d, Database(d), RowsAgree(d), NEW R, R \subseteq AnyRow,
         \A r \in R : r.table # "verifications",
         \A r \in R, t \in TenantRowIds, e \in Emails :
           r = TenantRow(t, e) => R = {r} /\ ~HasTenant(d, t),
         NEW e, e = [d EXCEPT !.rows = d.rows \cup R]
  PROVE  /\ Database(e) /\ RowsAgree(e)
         /\ e.tables = d.tables /\ e.keys = d.keys /\ e.rows = d.rows \cup R
         /\ Verified(e) = Verified(d)
<1>1. /\ e = [tables |-> d.tables, keys |-> d.keys, rows |-> d.rows \cup R]
      /\ e.tables = d.tables /\ e.keys = d.keys /\ e.rows = d.rows \cup R
  BY WithRows, Zenon
<1>2. Database(e)
  BY <1>1 DEF Database
<1>3. Verified(e) = Verified(d)
  BY <1>1 DEF Verified, In
<1>4. ASSUME NEW t \in TenantRowIds, NEW p \in SeedProviders,
             VerificationRow(t, p) \in e.rows
      PROVE  ConfigRow(t, p) \in e.rows
  <2>1. VerificationRow(t, p).table = "verifications"
    BY RowFields
  <2>2. VerificationRow(t, p) \in d.rows
    BY <1>1, <1>4, <2>1
  <2> QED
    BY <1>1, <2>2 DEF RowsAgree
<1>5. ASSUME NEW t \in TenantRowIds, NEW e1 \in Emails, NEW e2 \in Emails,
             TenantRow(t, e1) \in e.rows, TenantRow(t, e2) \in e.rows
      PROVE  e1 = e2
  <2>1. ASSUME NEW x \in Emails, TenantRow(t, x) \in d.rows PROVE HasTenant(d, t)
    BY <2>1, TenantFields DEF HasTenant, In
  <2>2. CASE TenantRow(t, e1) \in R
    <3>1. R = {TenantRow(t, e1)} /\ ~HasTenant(d, t)
      BY <2>2
    <3>2. TenantRow(t, e2) = TenantRow(t, e1)
      BY <1>1, <1>5, <2>1, <3>1
    <3> QED
      BY <3>2, TenantFields
  <2>3. CASE TenantRow(t, e2) \in R
    <3>1. R = {TenantRow(t, e2)} /\ ~HasTenant(d, t)
      BY <2>3
    <3>2. TenantRow(t, e1) = TenantRow(t, e2)
      BY <1>1, <1>5, <2>1, <3>1
    <3> QED
      BY <3>2, TenantFields
  <2>4. CASE TenantRow(t, e1) \in d.rows /\ TenantRow(t, e2) \in d.rows
    BY <2>4 DEF RowsAgree
  <2> QED
    BY <1>1, <1>5, <2>2, <2>3, <2>4
<1>6. RowsAgree(e)
  BY <1>4, <1>5 DEF RowsAgree
<1> QED
  BY <1>1, <1>2, <1>3, <1>6

-----------------------------------------------------------------------------
(* DELETE.                                                                 *)

\* The rows that go with those of D.
Gone(d, D) == D \cup Referring(d, "CASCADE", D)

LEMMA DeletesSome ==
  ASSUME NEW d, Database(d), NEW D, NEW e, e = DeleteRows(d, D)
  PROVE  /\ e # Failed =>
              /\ Database(e) /\ e.tables = d.tables /\ e.keys = d.keys
              /\ e.rows = d.rows \ Gone(d, D)
              /\ Referring(e, "RESTRICT", Gone(d, D)) = {}
         /\ e = Failed => \E r \in d.rows, k \in d.keys :
                            k.onDelete = "RESTRICT" /\ k.from = r.table
<1> DEFINE gone == Gone(d, D)
           R == d.rows \ gone
           rest == [d EXCEPT !.rows = R]
<1>1. e = IF Referring(rest, "RESTRICT", gone) # {} THEN Failed ELSE rest
  BY DEF DeleteRows, Gone
<1>2. R \subseteq AnyRow /\ R \subseteq d.rows
  BY DEF Database
<1> HIDE DEF gone
<1>3. /\ Database(rest) /\ rest.tables = d.tables /\ rest.keys = d.keys /\ rest.rows = R
  <2> HIDE DEF R
  <2> QED
    BY <1>2, WithRows DEF Database
<1> HIDE DEF rest
<1>4. rest # Failed
  BY <1>3, NotRejected
<1>5. Referring(rest, "RESTRICT", gone) # {} =>
        \E r \in d.rows, k \in d.keys : k.onDelete = "RESTRICT" /\ k.from = r.table
  BY <1>2, <1>3 DEF Referring, RefersTo
<1> QED
  BY <1>1, <1>3, <1>4, <1>5 DEF gone

\* A foreign key that reaches from a verification or a configuration.
LEMMA Reached ==
  ASSUME NEW t, NEW p, NEW k, NEW x
  PROVE  /\ RefersTo(VerificationRow(t, p), k, x) /\ k.column = "tenant_id" =>
              k.from = "verifications" /\ k.to = x.table /\ x.id = <<t>>
         /\ RefersTo(VerificationRow(t, p), k, x) => k.from = "verifications"
         /\ k = Reference("verifications", "provider_config_id",
                          "tenant_provider_configs", "RESTRICT") =>
            RefersTo(VerificationRow(t, p), k, ConfigRow(t, p))
BY DEF RefersTo, VerificationRow, ConfigRow, Reference

\* The foreign keys of a database that is in use.
LEMMA KeysInUse ==
  ASSUME NEW n \in 1..5
  PROVE  /\ \A k \in SchemaKeys(n) :
              /\ k.onDelete = "RESTRICT" => k.from = "verifications"
              /\ k.onDelete = "CASCADE" /\ k.from = "verifications" =>
                   k.column = "tenant_id" /\ k.to = "tenants"
         /\ Reference("verifications", "provider_config_id", "tenant_provider_configs",
                      "RESTRICT") \in SchemaKeys(n)
<1>1. SchemaKeys(n) \in {CleanReferences, CleanReferences \cup EventReferences}
  BY DEF SchemaKeys
<1>2. \A k \in EventReferences : /\ k.onDelete # "RESTRICT"
                                 /\ k.from = "verifications" => k.onDelete # "CASCADE"
  BY EventKeys
<1> QED
  BY <1>1, <1>2, CleanKeys

\* A DELETE that is not rejected takes verifications with their tenants only,
\* and no configuration of one that stays.
LEMMA DeleteKeepsHistory ==
  ASSUME NEW d, Database(d), RowsAgree(d), NEW n \in 1..5, d.keys = SchemaKeys(n),
         NEW D, D \subseteq d.rows, \A r \in D : r.table # "verifications",
         NEW e, e = DeleteRows(d, D), e # Failed
  PROVE  RowsAgree(e) /\ LostWithTenant(d, e)
<1> DEFINE gone == Gone(d, D)
<1>0. /\ Database(e) /\ e.keys = d.keys /\ e.rows = d.rows \ gone
      /\ Referring(e, "RESTRICT", gone) = {}
  BY DeletesSome
<1>00. D \subseteq gone
  BY DEF Gone
<1> HIDE DEF gone
<1>1. ASSUME NEW t \in TenantRowIds, NEW p \in SeedProviders,
             VerificationRow(t, p) \in e.rows
      PROVE  ConfigRow(t, p) \in e.rows
  <2> DEFINE key == Reference("verifications", "provider_config_id",
                              "tenant_provider_configs", "RESTRICT")
  <2>1. key \in e.keys /\ key.onDelete = "RESTRICT"
    BY <1>0, KeysInUse DEF Reference
  <2>2. RefersTo(VerificationRow(t, p), key, ConfigRow(t, p))
    BY Reached
  <2>3. ConfigRow(t, p) \in d.rows
    BY <1>0, <1>1 DEF RowsAgree
  <2> HIDE DEF key
  <2>4. SUFFICES ASSUME ConfigRow(t, p) \in gone PROVE FALSE
    BY <1>0, <2>3
  <2>5. VerificationRow(t, p) \in Referring(e, "RESTRICT", gone)
    BY <1>1, <2>1, <2>2, <2>4 DEF Referring
  <2> QED
    BY <1>0, <2>5
<1>2. ASSUME NEW t \in TenantRowIds, NEW p \in SeedProviders,
             VerificationRow(t, p) \in d.rows \ e.rows, HasTenant(e, t)
      PROVE  FALSE
  <2>1. VerificationRow(t, p).table = "verifications"
    BY RowFields
  <2>2. VerificationRow(t, p) \in Referring(d, "CASCADE", D)
    BY <1>0, <1>2, <2>1 DEF gone, Gone
  <2>3. PICK k \in d.keys, x \in D :
          k.onDelete = "CASCADE" /\ RefersTo(VerificationRow(t, p), k, x)
    BY <2>2 DEF Referring
  <2>4. k.column = "tenant_id" /\ k.to = "tenants"
    BY <2>3, Reached, KeysInUse
  <2>5. x.table = "tenants" /\ x.id = <<t>>
    BY <2>3, <2>4, Reached
  <2>6. PICK y \in e.rows : y.table = "tenants" /\ y.id = <<t>>
    BY <1>2 DEF HasTenant, In
  <2>7. x \in AnyRow /\ y \in AnyRow /\ x \in d.rows /\ y \in d.rows
    BY <1>0 DEF Database
  <2>8. PICK t1 \in TenantRowIds, e1 \in Emails : x = TenantRow(t1, e1)
    BY <2>5, <2>7, RowTables
  <2>9. PICK t2 \in TenantRowIds, e2 \in Emails : y = TenantRow(t2, e2)
    BY <2>6, <2>7, RowTables
  <2>10. t1 = t /\ t2 = t
    <3>1. <<t1>> = <<t>> /\ <<t2>> = <<t>>
      BY <2>5, <2>6, <2>8, <2>9, TenantFields
    <3> QED
      BY <3>1
  <2>11. e1 = e2
    BY <2>7, <2>8, <2>9, <2>10 DEF RowsAgree
  <2>12. x = y
    BY <2>8, <2>9, <2>10, <2>11
  <2> QED
    BY <1>0, <1>00, <2>12
<1>3. RowsAgree(e)
  BY <1>0, <1>1 DEF RowsAgree
<1>4. LostWithTenant(d, e)
  BY <1>2 DEF LostWithTenant
<1> QED
  BY <1>3, <1>4

\* A DELETE is rejected for a verification only.
LEMMA DeleteRejected ==
  ASSUME NEW d, Database(d), NEW n \in 1..5, d.keys = SchemaKeys(n),
         NEW D, DeleteRows(d, D) = Failed
  PROVE  Verified(d) # {}
<1>1. PICK r \in d.rows, k \in d.keys : k.onDelete = "RESTRICT" /\ k.from = r.table
  BY DeletesSome
<1>2. r.table = "verifications"
  BY <1>1, KeysInUse
<1> QED
  BY <1>2 DEF Verified, In

-----------------------------------------------------------------------------
(* Statements on the schema.                                               *)

LEMMA RowsStay ==
  ASSUME NEW d, Database(d), RowsAgree(d), NEW T, NEW K, NEW e,
         e = [tables |-> T, keys |-> K, rows |-> d.rows]
  PROVE  /\ Database(e) /\ RowsAgree(e) /\ Verified(e) = Verified(d)
         /\ e.tables = T /\ e.keys = K /\ e.rows = d.rows
<1>1. e.tables = T /\ e.keys = K /\ e.rows = d.rows
  OBVIOUS
<1> QED
  BY <1>1 DEF Database, RowsAgree, Verified, In

LEMMA WithTables ==
  ASSUME NEW d, Database(d), NEW T
  PROVE  [d EXCEPT !.tables = T] = [tables |-> T, keys |-> d.keys, rows |-> d.rows]
<1> DEFINE e == [tables |-> d.tables, keys |-> d.keys, rows |-> d.rows]
<1>1. d = e
  BY DEF Database
<1>2. [e EXCEPT !.tables = T] = [tables |-> T, keys |-> d.keys, rows |-> d.rows]
  OBVIOUS
<1> HIDE DEF e
<1> QED
  BY <1>1, <1>2

LEMMA CreatesTables ==
  ASSUME NEW d, Database(d), RowsAgree(d), NEW tables, NEW keys,
         NEW e, e = CreateTables(d, tables, keys)
  PROVE  /\ e = Failed <=> DOMAIN tables \cap DOMAIN d.tables # {}
         /\ e # Failed =>
              /\ Database(e) /\ RowsAgree(e) /\ Verified(e) = Verified(d)
              /\ e.tables = Joined(tables, d.tables) /\ e.keys = d.keys \cup keys
              /\ e.rows = d.rows
<1> DEFINE T == Joined(tables, d.tables)
           K == d.keys \cup keys
           f == [tables |-> T, keys |-> K, rows |-> d.rows]
<1>1. /\ Database(f) /\ RowsAgree(f) /\ Verified(f) = Verified(d)
      /\ f.tables = T /\ f.keys = K /\ f.rows = d.rows
  <2> HIDE DEF T, K
  <2> QED
    BY RowsStay
<1>3. e = IF DOMAIN tables \cap DOMAIN d.tables # {} THEN Failed ELSE f
  BY DEF CreateTables
<1> HIDE DEF f, T, K
<1>4. f # Failed
  BY <1>1, NotRejected
<1> QED
  BY <1>1, <1>3, <1>4 DEF T, K

LEMMA WidensTables ==
  ASSUME NEW d, Database(d), RowsAgree(d), NEW columns,
         NEW e, e = AddColumns(d, columns)
  PROVE  /\ e = Failed <=> ~(DOMAIN columns \subseteq DOMAIN d.tables)
         /\ e # Failed =>
              /\ Database(e) /\ RowsAgree(e) /\ Verified(e) = Verified(d)
              /\ e.tables = Widened(d.tables, columns) /\ e.keys = d.keys
              /\ e.rows = d.rows
<1> DEFINE T == Widened(d.tables, columns)
           f == [tables |-> T, keys |-> d.keys, rows |-> d.rows]
<1>1. /\ Database(f) /\ RowsAgree(f) /\ Verified(f) = Verified(d)
      /\ f.tables = T /\ f.keys = d.keys /\ f.rows = d.rows
  <2> HIDE DEF T
  <2> QED
    BY RowsStay
<1>2. [d EXCEPT !.tables = T] = f
  <2> HIDE DEF T
  <2> QED
    BY WithTables
<1>3. e = IF ~(DOMAIN columns \subseteq DOMAIN d.tables) THEN Failed ELSE f
  BY <1>2 DEF AddColumns, HasTables, Widened
<1> HIDE DEF f, T
<1>4. f # Failed
  BY <1>1, NotRejected
<1> QED
  BY <1>1, <1>3, <1>4 DEF T

LEMMA NarrowsTables ==
  ASSUME NEW d, Database(d), RowsAgree(d), NEW columns,
         NEW e, e = DropColumns(d, columns)
  PROVE  /\ e = Failed <=> ~(DOMAIN columns \subseteq DOMAIN d.tables)
         /\ e # Failed =>
              /\ Database(e) /\ RowsAgree(e) /\ Verified(e) = Verified(d)
              /\ e.tables = Narrowed(d.tables, columns)
              /\ e.keys = {k \in d.keys : k.column \notin ColumnsOf(columns, k.from)}
              /\ e.rows = d.rows
<1> DEFINE T == Narrowed(d.tables, columns)
           K == {k \in d.keys : k.column \notin ColumnsOf(columns, k.from)}
           f == [tables |-> T, keys |-> K, rows |-> d.rows]
<1>1. /\ Database(f) /\ RowsAgree(f) /\ Verified(f) = Verified(d)
      /\ f.tables = T /\ f.keys = K /\ f.rows = d.rows
  <2> HIDE DEF T, K
  <2> QED
    BY RowsStay
<1>3. e = IF ~(DOMAIN columns \subseteq DOMAIN d.tables) THEN Failed ELSE f
  BY DEF DropColumns, HasTables, Narrowed
<1> HIDE DEF f, T, K
<1>4. f # Failed
  BY <1>1, NotRejected
<1> QED
  BY <1>1, <1>3, <1>4 DEF T, K

\* Tables go with their rows: all of a table, or none.
LEMMA DropsTables ==
  ASSUME NEW d, Database(d), NEW names, NEW e, e = DropTables(d, names)
  PROVE  /\ Database(e) /\ e # Failed
         /\ \A r : r \in e.rows <=> r \in d.rows /\ r.table \notin names
<1>1. /\ e = [tables |-> e.tables, keys |-> e.keys, rows |-> e.rows]
      /\ \A r : r \in e.rows <=> r \in d.rows /\ r.table \notin names
  BY DEF DropTables
<1>2. Database(e)
  BY <1>1 DEF Database
<1> QED
  BY <1>1, <1>2, NotRejected

\* The clean schema has all tables with rows, the last migration none.
LEMMA DropsRows ==
  ASSUME NEW d, Database(d), NEW e
  PROVE  /\ e = DropTables(d, DOMAIN CleanTables) => e.rows = {}
         /\ e = DropTables(d, DOMAIN EventTables) => e.rows = d.rows
<1>1. \A r \in d.rows : r.table \in CleanNames /\ r.table \notin EventNames
  BY RowTables DEF Database, CleanNames, EventNames
<1>2. ASSUME e = DropTables(d, DOMAIN CleanTables) PROVE e.rows = {}
  <2>1. \A r : r \in e.rows <=> r \in d.rows /\ r.table \notin DOMAIN CleanTables
    BY <1>2, DropsTables
  <2> QED
    BY <1>1, <2>1, CleanTableNames
<1>3. ASSUME e = DropTables(d, DOMAIN EventTables) PROVE e.rows = d.rows
  <2>1. \A r : r \in e.rows <=> r \in d.rows /\ r.table \notin DOMAIN EventTables
    BY <1>3, DropsTables
  <2> QED
    BY <1>1, <2>1, EventTableNames
<1> QED
  BY <1>2, <1>3

-----------------------------------------------------------------------------
(* The seeds.                                                              *)

\* The seeded tenant's id or email is another's.
Blocked(d) ==
  \E r \in In(d, "tenants") : (r.id = <<testTenant>>) # (r.email = TestEmail)

LEMMA Upserts ==
  ASSUME NEW d, Database(d), RowsAgree(d), NEW u, u = UpsertTenant(d)
  PROVE  /\ u = Failed \/ ~HasTenant(u, testTenant) => Blocked(d)
         /\ u # Failed => /\ Database(u) /\ RowsAgree(u)
                          /\ u.tables = d.tables /\ u.keys = d.keys
                          /\ Verified(u) = Verified(d)
<1>1. CASE EmailOwner(d, TestEmail) # {}
  <2>1. u = d
    BY <1>1 DEF UpsertTenant
  <2>2. PICK r \in In(d, "tenants") : r.email = TestEmail
    BY <1>1 DEF EmailOwner
  <2>3. ~HasTenant(d, testTenant) => r.id # <<testTenant>>
    BY DEF HasTenant
  <2> QED
    BY <2>1, <2>2, <2>3, NotRejected DEF Blocked
<1>2. CASE EmailOwner(d, TestEmail) = {} /\ HasTenant(d, testTenant)
  <2>1. u = Failed
    BY <1>2 DEF UpsertTenant
  <2>2. PICK r \in In(d, "tenants") : r.id = <<testTenant>>
    BY <1>2 DEF HasTenant
  <2>3. r.email # TestEmail
    BY <1>2 DEF EmailOwner
  <2> QED
    BY <2>1, <2>2, <2>3 DEF Blocked
<1>3. CASE EmailOwner(d, TestEmail) = {} /\ ~HasTenant(d, testTenant)
  <2> DEFINE r == TenantRow(testTenant, TestEmail)
  <2>1. u = [d EXCEPT !.rows = d.rows \cup {r}]
    BY <1>3 DEF UpsertTenant, InsertRow
  <2>2. r \in AnyRow /\ r.table = "tenants" /\ r.id = <<testTenant>>
    BY TenantFields DEF AnyRow, TenantRowIds, Emails
  <2> HIDE DEF r
  <2>3. /\ Database(u) /\ RowsAgree(u)
        /\ u.tables = d.tables /\ u.keys = d.keys /\ u.rows = d.rows \cup {r}
        /\ Verified(u) = Verified(d)
    <3> DEFINE R == {r}
    <3>1. /\ R \subseteq AnyRow /\ \A x \in R : x.table # "verifications"
          /\ \A x \in R, t \in TenantRowIds, e \in Emails :
               x = TenantRow(t, e) => R = {x} /\ ~HasTenant(d, t)
      <4>1. ASSUME NEW t \in TenantRowIds, NEW e \in Emails, r = TenantRow(t, e)
            PROVE  t = testTenant
        <5>1. <<t>> = <<testTenant>>
          BY <2>2, <4>1, TenantFields
        <5> QED
          BY <5>1
      <4> QED
        BY <1>3, <2>2, <4>1
    <3>2. u = [d EXCEPT !.rows = d.rows \cup R]
      BY <2>1
    <3> HIDE DEF R
    <3>3. /\ Database(u) /\ RowsAgree(u)
          /\ u.tables = d.tables /\ u.keys = d.keys /\ u.rows = d.rows \cup R
          /\ Verified(u) = Verified(d)
      BY <3>1, <3>2, AddRows
    <3> QED
      BY <3>3 DEF R
  <2>4. HasTenant(u, testTenant)
    BY <2>2, <2>3 DEF HasTenant, In
  <2> QED
    BY <2>3, <2>4, NotRejected
<1> QED
  BY <1>1, <1>2, <1>3

\* The seeds add no verification, and fail only for another tenant.
LEMMA Seeds ==
  ASSUME NEW d, Database(d), RowsAgree(d), NEW e, e = SeedUp(d)
  PROVE  /\ e = Failed => Blocked(d)
         /\ e # Failed => /\ Database(e) /\ RowsAgree(e)
                          /\ e.tables = d.tables /\ e.keys = d.keys
                          /\ Verified(e) = Verified(d)
<1> DEFINE u == UpsertTenant(d)
           R == {ProviderRow(q) : q \in SeedProviders}
                  \cup {ConfigRow(testTenant, q) : q \in SeedProviders}
                  \cup {AccountRow(testTenant)}
           s == [u EXCEPT !.rows = u.rows \cup R]
<1>1. /\ u = Failed \/ ~HasTenant(u, testTenant) => Blocked(d)
      /\ u # Failed => /\ Database(u) /\ RowsAgree(u)
                       /\ u.tables = d.tables /\ u.keys = d.keys
                       /\ Verified(u) = Verified(d)
  BY Upserts
<1>2. R \subseteq AnyRow
  BY DEF AnyRow, TenantRowIds
<1>3. /\ \A r \in R : r.table # "verifications" /\ r.table # "tenants"
      /\ \A r \in R, t \in TenantRowIds, x \in Emails :
           r = TenantRow(t, x) => R = {r} /\ ~HasTenant(u, t)
  <2>1. \A r \in R : r.table # "verifications" /\ r.table # "tenants"
    BY ProviderFields, AccountFields, RowFields
  <2> HIDE DEF R, u
  <2> QED
    BY <2>1, TenantFields
<1>4. e = IF u = Failed \/ ~HasTenant(u, testTenant) THEN Failed ELSE s
  <2>1. u.rows \cup R = ((u.rows \cup {ProviderRow(q) : q \in SeedProviders})
                          \cup {ConfigRow(testTenant, q) : q \in SeedProviders})
                          \cup {AccountRow(testTenant)}
    OBVIOUS
  <2> QED
    BY <2>1 DEF SeedUp
<1> HIDE DEF R, u
<1>5. ASSUME u # Failed
      PROVE  /\ Database(s) /\ RowsAgree(s)
             /\ s.tables = u.tables /\ s.keys = u.keys
             /\ Verified(s) = Verified(u)
  BY <1>1, <1>2, <1>3, <1>5, AddRows
<1> HIDE DEF s
<1> QED
  BY <1>1, <1>4, <1>5, NotRejected
\* The foreign keys of a schema in use, or no history that needs them.
Guarded(d) == (\E n \in 1..5 : d.keys = SchemaKeys(n)) \/ Verified(d) = {}

LEMMA Deletes ==
  ASSUME NEW d, Database(d), RowsAgree(d), Guarded(d),
         NEW D, D \subseteq d.rows, \A r \in D : r.table # "verifications",
         NEW e, e = DeleteRows(d, D), e # Failed
  PROVE  /\ Database(e) /\ RowsAgree(e) /\ Guarded(e)
         /\ e.tables = d.tables /\ e.keys = d.keys /\ e.rows \subseteq d.rows
         /\ LostWithTenant(d, e)
<1>1. /\ Database(e) /\ e.tables = d.tables /\ e.keys = d.keys
      /\ e.rows \subseteq d.rows
  BY DeletesSome
<1>2. Verified(d) = {} => Verified(e) = {}
  BY <1>1 DEF Verified, In
<1>3. RowsAgree(e) /\ LostWithTenant(d, e)
  <2>1. CASE \E n \in 1..5 : d.keys = SchemaKeys(n)
    BY <2>1, DeleteKeepsHistory
  <2>2. CASE Verified(d) = {}
    <3>1. \A t \in TenantRowIds, p \in SeedProviders : VerificationRow(t, p) \notin d.rows
      BY <2>2, RowFields DEF Verified, In
    <3> QED
      BY <1>1, <3>1 DEF RowsAgree, LostWithTenant
  <2> QED
    BY <2>1, <2>2 DEF Guarded
<1> QED
  BY <1>1, <1>2, <1>3 DEF Guarded

\* Losses of one DELETE after another.
LEMMA Losses ==
  ASSUME NEW d, NEW e, NEW f, LostWithTenant(d, e), LostWithTenant(e, f),
         f.rows \subseteq e.rows
  PROVE  LostWithTenant(d, f)
<1>1. \A t : HasTenant(f, t) => HasTenant(e, t)
  BY DEF HasTenant, In
<1> QED
  BY <1>1 DEF LostWithTenant

\* Reverting the seeds takes no verification but with its tenant, and is refused
\* only for one.
LEMMA SeedsGo ==
  ASSUME NEW d, Database(d), RowsAgree(d), Guarded(d), NEW e, e = SeedDown(d)
  PROVE  /\ e # Failed =>
              /\ Database(e) /\ RowsAgree(e) /\ LostWithTenant(d, e)
              /\ e.tables = d.tables /\ e.keys = d.keys /\ e.rows \subseteq d.rows
         /\ e = Failed /\ (\E n \in 1..5 : d.keys = SchemaKeys(n)) => Verified(d) # {}
<1> DEFINE Owned(x, table) == {r \in In(x, table) : r.refs.tenant_id = <<testTenant>>}
           D1 == Owned(d, "accounts")
           a == DeleteRows(d, D1)
           D2 == Owned(a, "tenant_provider_configs")
           c == DeleteRows(a, D2)
           D3 == {r \in In(c, "providers") : \E q \in SeedProviders : r.id = <<q>>}
           p == DeleteRows(c, D3)
           D4 == EmailOwner(p, TestEmail)
           t == DeleteRows(p, D4)
           Kept(x) == /\ Database(x) /\ RowsAgree(x) /\ Guarded(x)
                      /\ x.tables = d.tables /\ x.keys = d.keys /\ x.rows \subseteq d.rows
                      /\ LostWithTenant(d, x)
           Fit(D, x) == D \subseteq x.rows /\ \A r \in D : r.table # "verifications"
<1>1. e = IF Failed \in {a, c, p, t} THEN Failed ELSE t
  BY DEF SeedDown
<1>2. Fit(D1, d) /\ Fit(D2, a) /\ Fit(D3, c) /\ Fit(D4, p)
  BY DEF In, EmailOwner
<1> HIDE DEF D1, D2, D3, D4
<1>3. Kept(d)
  BY DEF LostWithTenant
<1>4. ASSUME NEW x, Kept(x), NEW D, Fit(D, x),
             NEW y, y = DeleteRows(x, D), y # Failed
      PROVE  Kept(y)
  <2>1. /\ Database(y) /\ RowsAgree(y) /\ Guarded(y)
        /\ y.tables = x.tables /\ y.keys = x.keys /\ y.rows \subseteq x.rows
        /\ LostWithTenant(x, y)
    BY <1>4, Deletes
  <2>2. LostWithTenant(d, y)
    BY <1>4, <2>1, Losses
  <2> QED
    BY <1>4, <2>1, <2>2
<1>5. ASSUME NEW x, Kept(x), NEW D, DeleteRows(x, D) = Failed,
             \E n \in 1..5 : d.keys = SchemaKeys(n)
      PROVE  Verified(d) # {}
  <2>1. Verified(x) # {}
    BY <1>5, DeleteRejected
  <2> QED
    BY <1>5, <2>1 DEF Verified, In
<1> HIDE DEF Fit
<1>6. a # Failed => Kept(a)
  BY <1>2, <1>3, <1>4
<1>7. a # Failed /\ c # Failed => Kept(c)
  BY <1>2, <1>4, <1>6
<1>8. a # Failed /\ c # Failed /\ p # Failed => Kept(p)
  BY <1>2, <1>4, <1>7
<1>9. a # Failed /\ c # Failed /\ p # Failed /\ t # Failed => Kept(t)
  BY <1>2, <1>4, <1>8
<1>10. (\E n \in 1..5 : d.keys = SchemaKeys(n)) /\ Failed \in {a, c, p, t} => Verified(d) # {}
  <2> SUFFICES ASSUME \E n \in 1..5 : d.keys = SchemaKeys(n), Failed \in {a, c, p, t}
               PROVE  Verified(d) # {}
    OBVIOUS
  <2>1. CASE a = Failed
    BY <1>3, <1>5, <2>1
  <2>2. CASE a # Failed /\ c = Failed
    BY <1>5, <1>6, <2>2
  <2>3. CASE a # Failed /\ c # Failed /\ p = Failed
    BY <1>5, <1>7, <2>3
  <2>4. CASE a # Failed /\ c # Failed /\ p # Failed /\ t = Failed
    BY <1>5, <1>8, <2>4
  <2> QED
    BY <2>1, <2>2, <2>3, <2>4
<1>11. Failed \notin {a, c, p, t} => Kept(t)
  BY <1>9
<1> HIDE DEF a, c, p, t
<1> QED
  BY <1>1, <1>10, <1>11
-----------------------------------------------------------------------------
(* One migration, up and down.                                             *)

LEMMA EventsComeUp ==
  ASSUME NEW d, Database(d), RowsAgree(d), NEW e, e = EventUp(d)
  PROVE  /\ e # Failed =>
              Database(e) /\ RowsAgree(e) /\ Verified(e) = Verified(d)
         /\ Fits(d, 4) => e # Failed /\ Fits(e, 5)
<1> DEFINE created == CreateTables(d, EventTables, EventReferences)
<1>1. /\ created = Failed <=> DOMAIN EventTables \cap DOMAIN d.tables # {}
      /\ created # Failed =>
           /\ Database(created) /\ RowsAgree(created) /\ Verified(created) = Verified(d)
           /\ created.tables = Joined(EventTables, d.tables)
           /\ created.keys = d.keys \cup EventReferences
  BY CreatesTables
<1>2. e = IF created = Failed THEN Failed ELSE AddColumns(created, EventColumns)
  BY DEF EventUp
<1> HIDE DEF created
<1>3. ASSUME created # Failed
      PROVE  /\ e = Failed <=> ~(DOMAIN EventColumns \subseteq DOMAIN created.tables)
             /\ e # Failed =>
                  /\ Database(e) /\ RowsAgree(e) /\ Verified(e) = Verified(created)
                  /\ e.tables = Widened(created.tables, EventColumns)
                  /\ e.keys = created.keys
  BY <1>1, <1>2, <1>3, WidensTables
<1>4. ASSUME Fits(d, 4) PROVE e # Failed /\ Fits(e, 5)
  <2>1. d.tables = Encrypted /\ d.keys = CleanReferences
    BY <1>4 DEF Fits, SchemaTables, SchemaKeys
  <2>2. created # Failed
    BY <1>1, <2>1, SchemaSteps, EventTableNames DEF CleanNames, EventNames
  <2>3. created.tables = WithEvents /\ created.keys = CleanReferences \cup EventReferences
    BY <1>1, <2>1, <2>2 DEF WithEvents
  <2>4. DOMAIN EventColumns \subseteq DOMAIN created.tables
    BY <2>3, SchemaSteps, ColumnNames DEF CleanNames
  <2> QED
    BY <1>3, <2>2, <2>3, <2>4 DEF Fits, SchemaTables, SchemaKeys
<1> QED
  BY <1>1, <1>2, <1>3, <1>4

\* A migration adds no verification; from the schema before it, it makes the
\* schema after it, and only the seeds may be in the way.
LEMMA StepUp ==
  ASSUME NEW d, Database(d), RowsAgree(d), NEW m \in 1..5, NEW e, e = MigrateUp(m, d)
  PROVE  /\ e # Failed =>
              Database(e) /\ RowsAgree(e) /\ Verified(e) = Verified(d)
         /\ e # Failed /\ m = 1 => e.rows = d.rows
         /\ Fits(d, m - 1) =>
              /\ e = Failed => m = 2 /\ Blocked(d)
              /\ e # Failed => Fits(e, m)
<1>0. d # Failed
  BY NotRejected
<1>1. CASE m = 1
  <2>1. e = CreateTables(d, CleanTables, CleanReferences)
    BY <1>0, <1>1 DEF MigrateUp
  <2>2. /\ e = Failed <=> DOMAIN CleanTables \cap DOMAIN d.tables # {}
        /\ e # Failed =>
             /\ Database(e) /\ RowsAgree(e) /\ Verified(e) = Verified(d)
             /\ e.tables = Joined(CleanTables, d.tables)
             /\ e.keys = d.keys \cup CleanReferences
             /\ e.rows = d.rows
    BY <2>1, CreatesTables
  <2>3. ASSUME Fits(d, 0) PROVE e # Failed /\ Fits(e, 1)
    <3>1. d.tables = Empty.tables /\ d.keys = {}
      BY <2>3 DEF Fits, SchemaTables, SchemaKeys
    <3>2. DOMAIN d.tables = {}
      BY <3>1 DEF Empty
    <3> QED
      BY <2>2, <3>1, <3>2, SchemaSteps DEF Fits, SchemaTables, SchemaKeys
  <2> QED
    BY <1>1, <2>2, <2>3
<1>2. CASE m = 2
  <2>1. e = SeedUp(d)
    BY <1>0, <1>2 DEF MigrateUp
  <2>2. /\ e = Failed => Blocked(d)
        /\ e # Failed => /\ Database(e) /\ RowsAgree(e)
                         /\ e.tables = d.tables /\ e.keys = d.keys
                         /\ Verified(e) = Verified(d)
    BY <2>1, Seeds
  <2> QED
    BY <1>2, <2>2 DEF Fits, SchemaTables, SchemaKeys
<1>3. CASE m = 3
  <2>1. e = AddColumns(d, PreviewColumns)
    BY <1>0, <1>3 DEF MigrateUp
  <2>2. /\ e = Failed <=> ~(DOMAIN PreviewColumns \subseteq DOMAIN d.tables)
        /\ e # Failed =>
             /\ Database(e) /\ RowsAgree(e) /\ Verified(e) = Verified(d)
             /\ e.tables = Widened(d.tables, PreviewColumns) /\ e.keys = d.keys
    BY <2>1, WidensTables
  <2>3. ASSUME Fits(d, 2) PROVE e # Failed /\ Fits(e, 3)
    <3>1. d.tables = CleanTables /\ d.keys = CleanReferences
      BY <2>3 DEF Fits, SchemaTables, SchemaKeys
    <3>2. DOMAIN PreviewColumns \subseteq DOMAIN d.tables
      BY <3>1, CleanTableNames, ColumnNames DEF CleanNames
    <3> QED
      BY <2>2, <3>1, <3>2 DEF Fits, SchemaTables, SchemaKeys, Preview
  <2> QED
    BY <1>3, <2>2, <2>3
<1>4. CASE m = 4
  <2>1. e = AddColumns(d, EncryptionColumns)
    BY <1>0, <1>4 DEF MigrateUp
  <2>2. /\ e = Failed <=> ~(DOMAIN EncryptionColumns \subseteq DOMAIN d.tables)
        /\ e # Failed =>
             /\ Database(e) /\ RowsAgree(e) /\ Verified(e) = Verified(d)
             /\ e.tables = Widened(d.tables, EncryptionColumns) /\ e.keys = d.keys
    BY <2>1, WidensTables
  <2>3. ASSUME Fits(d, 3) PROVE e # Failed /\ Fits(e, 4)
    <3>1. d.tables = Preview /\ d.keys = CleanReferences
      BY <2>3 DEF Fits, SchemaTables, SchemaKeys
    <3>2. DOMAIN EncryptionColumns \subseteq DOMAIN d.tables
      BY <3>1, SchemaSteps, ColumnNames DEF CleanNames
    <3> QED
      BY <2>2, <3>1, <3>2 DEF Fits, SchemaTables, SchemaKeys, Encrypted
  <2> QED
    BY <1>4, <2>2, <2>3
<1>5. CASE m = 5
  <2>1. e = EventUp(d)
    BY <1>0, <1>5 DEF MigrateUp
  <2> QED
    BY <1>5, <2>1, EventsComeUp
<1> QED
  BY <1>1, <1>2, <1>3, <1>4, <1>5
LEMMA EventsGoDown ==
  ASSUME NEW d, Database(d), RowsAgree(d), NEW e, e = EventDown(d)
  PROVE  /\ e # Failed =>
              Database(e) /\ RowsAgree(e) /\ Verified(e) = Verified(d)
         /\ Fits(d, 5) => e # Failed /\ Fits(e, 4)
<1> DEFINE narrow == DropColumns(d, EventColumns)
           f == DropTables(narrow, DOMAIN EventTables)
<1>1. /\ narrow = Failed <=> ~(DOMAIN EventColumns \subseteq DOMAIN d.tables)
      /\ narrow # Failed =>
           /\ Database(narrow) /\ RowsAgree(narrow) /\ Verified(narrow) = Verified(d)
           /\ narrow.tables = Narrowed(d.tables, EventColumns)
           /\ narrow.keys = {k \in d.keys : k.column \notin ColumnsOf(EventColumns, k.from)}
           /\ narrow.rows = d.rows
  BY NarrowsTables
<1>2. e = IF narrow = Failed THEN Failed ELSE f
  BY <1>1 DEF EventDown, HasTables
<1>3. /\ f.tables = [t \in DOMAIN narrow.tables \ EventNames |-> narrow.tables[t]]
      /\ f.keys = {k \in narrow.keys : k.from \notin EventNames /\ k.to \notin EventNames}
  BY EventTableNames DEF DropTables
<1> HIDE DEF narrow
<1>4. ASSUME narrow # Failed
      PROVE  /\ Database(f) /\ f # Failed /\ f.rows = d.rows
             /\ RowsAgree(f) /\ Verified(f) = Verified(d)
  <2>1. Database(f) /\ f # Failed
    BY <1>1, <1>4, DropsTables
  <2>2. f.rows = d.rows
    BY <1>1, <1>4, DropsRows
  <2> HIDE DEF f
  <2> QED
    BY <2>1, <2>2 DEF RowsAgree, Verified, In
<1> HIDE DEF f
<1>5. ASSUME Fits(d, 5) PROVE e # Failed /\ Fits(e, 4)
  <2>1. d.tables = Widened(WithEvents, EventColumns)
        /\ d.keys = CleanReferences \cup EventReferences
    BY <1>5 DEF Fits, SchemaTables, SchemaKeys
  <2>2. DOMAIN d.tables = CleanNames \cup EventNames
    BY <2>1, SchemaSteps DEF Widened
  <2>3. narrow # Failed
    BY <1>1, <2>2, ColumnNames DEF CleanNames
  <2>4. narrow.tables = WithEvents
    BY <1>1, <2>1, <2>3, SchemaSteps
  <2>5. f.tables = Encrypted
    BY <1>3, <2>4, SchemaSteps
  <2>6. ASSUME NEW k \in f.keys PROVE k \in CleanReferences
    BY <1>1, <1>3, <2>1, <2>3, <2>6, EventKeys
  <2>7. ASSUME NEW k \in CleanReferences PROVE k \in f.keys
    <3>1. k.from \notin EventNames /\ k.to \notin EventNames
      BY CleanKeys DEF CleanNames, EventNames
    <3>2. k.column \notin ColumnsOf(EventColumns, k.from)
      <4>1. CASE k.from \notin {"verifications", "providers"}
        BY <4>1, ColumnNames
      <4>2. CASE k.from \in {"verifications", "providers"}
        <5>1. k.column \in {"tenant_id", "account_id", "provider_id", "provider_config_id"}
          BY <4>2, CleanKeys
        <5>2. ColumnsOf(EventColumns, k.from) \in
                {EventColumns.verifications, EventColumns.providers}
          BY <4>2, ColumnNames
        <5>3. /\ EventColumns.verifications =
                   {"template_id", "processing_mode", "is_multi_step",
                    "verification_method", "job_id", "webhook_url"}
              /\ EventColumns.providers =
                   {"supports_templates", "supports_id_verification",
                    "supports_async", "processing_mode"}
          BY DEF EventColumns
        <5> QED
          BY <5>1, <5>2, <5>3
      <4> QED
        BY <4>1, <4>2
    <3> QED
      BY <1>1, <1>3, <2>1, <2>3, <3>1, <3>2
  <2>8. f.keys = CleanReferences
    BY <2>6, <2>7
  <2> QED
    BY <1>2, <1>4, <2>3, <2>5, <2>8 DEF Fits, SchemaTables, SchemaKeys
<1> QED
  BY <1>2, <1>4, <1>5

LEMMA KeyColumnsGo ==
  ASSUME NEW d, Database(d), RowsAgree(d), d.keys = CleanReferences,
         NEW columns \in {PreviewColumns, EncryptionColumns},
         NEW e, e = DropColumns(d, columns), "tenant_api_keys" \in DOMAIN d.tables
  PROVE  /\ e # Failed /\ e.keys = CleanReferences
         /\ e.tables = Narrowed(d.tables, columns)
<1>1. /\ e = Failed <=> ~(DOMAIN columns \subseteq DOMAIN d.tables)
      /\ e # Failed =>
           /\ e.tables = Narrowed(d.tables, columns)
           /\ e.keys = {k \in d.keys : k.column \notin ColumnsOf(columns, k.from)}
  BY NarrowsTables
<1>2. \A k \in CleanReferences : k.column \notin ColumnsOf(columns, k.from)
  <2> SUFFICES ASSUME NEW k \in CleanReferences
               PROVE  k.column \notin ColumnsOf(columns, k.from)
    OBVIOUS
  <2>1. CASE k.from = "tenant_api_keys"
    <3>1. k.column \in {"tenant_id", "account_id", "provider_id", "provider_config_id"}
      BY <2>1, CleanKeys
    <3> QED
      BY <2>1, <3>1, ColumnNames
  <2>2. CASE k.from # "tenant_api_keys"
    BY <2>2, ColumnNames
  <2> QED
    BY <2>1, <2>2
<1>3. DOMAIN columns \subseteq DOMAIN d.tables
  BY ColumnNames
<1> QED
  BY <1>1, <1>2, <1>3

\* A revert takes verifications with their tenant only, unless it takes the
\* tables, and from the schema
\* after its migration makes the one before; it is refused for a verification.
LEMMA StepDown ==
  ASSUME NEW d, Database(d), RowsAgree(d), NEW m \in 1..5,
         Fits(d, m) \/ Verified(d) = {}, NEW e, e = MigrateDown(m, d)
  PROVE  /\ e # Failed =>
              /\ Database(e) /\ RowsAgree(e)
              /\ m # 1 => LostWithTenant(d, e) /\ Verified(e) \subseteq Verified(d)
              /\ m = 1 => e.rows = {} /\ "verifications" \notin DOMAIN e.tables
         /\ Fits(d, m) =>
              /\ e = Failed => m = 2 /\ Verified(d) # {}
              /\ e # Failed => Fits(e, m - 1)
<1>0. Fits(d, m) => \E n \in 1..5 : d.keys = SchemaKeys(n)
  BY DEF Fits
<1>00. Guarded(d)
  BY <1>0 DEF Guarded
<1>01. ASSUME Database(e), Verified(e) = Verified(d) PROVE LostWithTenant(d, e)
  BY <1>01, RowFields DEF LostWithTenant, Verified, In
<1>1. CASE m = 1
  <2>1. e = DropTables(d, DOMAIN CleanTables)
    BY <1>1 DEF MigrateDown
  <2>2. Database(e) /\ e # Failed /\ e.rows = {}
    BY <2>1, DropsTables, DropsRows
  <2>3. /\ e.tables = [t \in DOMAIN d.tables \ CleanNames |-> d.tables[t]]
        /\ e.keys = {k \in d.keys : k.from \notin CleanNames /\ k.to \notin CleanNames}
    BY <2>1, CleanTableNames DEF DropTables
  <2>4. RowsAgree(e)
    BY <2>2 DEF RowsAgree
  <2>5. "verifications" \notin DOMAIN e.tables
    BY <2>3 DEF CleanNames
  <2>6. ASSUME Fits(d, 1) PROVE Fits(e, 0)
    <3>1. d.tables = CleanTables /\ d.keys = CleanReferences
      BY <2>6 DEF Fits, SchemaTables, SchemaKeys
    <3>2. DOMAIN d.tables \ CleanNames = {}
      BY <3>1, CleanTableNames
    <3>3. e.tables = [t \in {} |-> {}]
      BY <2>3, <3>2
    <3>4. e.keys = {}
      BY <2>3, <3>1, CleanKeys
    <3> QED
      BY <3>3, <3>4 DEF Fits, SchemaTables, SchemaKeys, Empty
  <2> QED
    BY <1>1, <2>2, <2>4, <2>5, <2>6
<1>2. CASE m = 2
  <2>1. e = SeedDown(d)
    BY <1>2 DEF MigrateDown
  <2>2. /\ e # Failed =>
             /\ Database(e) /\ RowsAgree(e) /\ LostWithTenant(d, e)
             /\ e.tables = d.tables /\ e.keys = d.keys /\ e.rows \subseteq d.rows
        /\ e = Failed /\ (\E n \in 1..5 : d.keys = SchemaKeys(n)) => Verified(d) # {}
    BY <1>00, <2>1, SeedsGo
  <2>3. e # Failed => Verified(e) \subseteq Verified(d)
    BY <2>2 DEF Verified, In
  <2> QED
    BY <1>0, <1>2, <2>2, <2>3 DEF Fits, SchemaTables, SchemaKeys
<1>3. CASE m = 3
  <2>1. e = DropColumns(d, PreviewColumns)
    BY <1>3 DEF MigrateDown
  <2>2. e # Failed => Database(e) /\ RowsAgree(e) /\ Verified(e) = Verified(d)
    BY <2>1, NarrowsTables
  <2>3. ASSUME Fits(d, 3) PROVE e # Failed /\ Fits(e, 2)
    <3>1. d.tables = Preview /\ d.keys = CleanReferences
      BY <2>3 DEF Fits, SchemaTables, SchemaKeys
    <3>2. "tenant_api_keys" \in DOMAIN d.tables
      BY <3>1, SchemaSteps DEF CleanNames
    <3>3. e # Failed /\ e.keys = CleanReferences /\ e.tables = Narrowed(d.tables, PreviewColumns)
      BY <2>1, <3>1, <3>2, KeyColumnsGo
    <3> QED
      BY <3>1, <3>3, SchemaSteps DEF Fits, SchemaTables, SchemaKeys
  <2> QED
    BY <1>01, <1>3, <2>2, <2>3
<1>4. CASE m = 4
  <2>1. e = DropColumns(d, EncryptionColumns)
    BY <1>4 DEF MigrateDown
  <2>2. e # Failed => Database(e) /\ RowsAgree(e) /\ Verified(e) = Verified(d)
    BY <2>1, NarrowsTables
  <2>3. ASSUME Fits(d, 4) PROVE e # Failed /\ Fits(e, 3)
    <3>1. d.tables = Encrypted /\ d.keys = CleanReferences
      BY <2>3 DEF Fits, SchemaTables, SchemaKeys
    <3>2. "tenant_api_keys" \in DOMAIN d.tables
      BY <3>1, SchemaSteps DEF CleanNames
    <3>3. e # Failed /\ e.keys = CleanReferences
          /\ e.tables = Narrowed(d.tables, EncryptionColumns)
      BY <2>1, <3>1, <3>2, KeyColumnsGo
    <3> QED
      BY <3>1, <3>3, SchemaSteps DEF Fits, SchemaTables, SchemaKeys
  <2> QED
    BY <1>01, <1>4, <2>2, <2>3
<1>5. CASE m = 5
  <2>1. e = EventDown(d)
    BY <1>5 DEF MigrateDown
  <2> QED
    BY <1>01, <1>5, <2>1, EventsGoDown
<1> QED
  BY <1>1, <1>2, <1>3, <1>4, <1>5

-----------------------------------------------------------------------------
(* Several migrations.                                                     *)

LEMMA SeveralUp ==
  ASSUME NEW d, Database(d), RowsAgree(d), NEW n \in 0..5, NEW last \in 0..5,
         n <= last, NEW e, e = MigratedTo(last, d, n)
  PROVE  /\ e # Failed =>
              Database(e) /\ RowsAgree(e) /\ Verified(e) = Verified(d)
         /\ Fits(d, n) /\ (n = 0 => d.rows = {}) =>
              /\ e = Failed => n = 1 /\ Blocked(d)
              /\ e # Failed => Fits(e, last)
<1> DEFINE Up(m, x) == IF m > n /\ m <= last THEN MigrateUp(m, x) ELSE x
           Level(m) == IF m <= n THEN n ELSE IF m <= last THEN m ELSE last
           Known == Fits(d, n) /\ (n = 0 => d.rows = {})
           Stage(m, x) ==
             /\ x # Failed =>
                  Database(x) /\ RowsAgree(x) /\ Verified(x) = Verified(d)
             /\ Known => /\ x = Failed => n = 1 /\ Blocked(d)
                         /\ x # Failed => Fits(x, Level(m))
             /\ x # Failed /\ m <= 1 => x.rows = d.rows
<1>1. e = Up(5, Up(4, Up(3, Up(2, Up(1, d)))))
  BY DEF MigratedTo
<1>2. Stage(0, d)
  BY NotRejected
<1>3. ASSUME NEW m \in 1..5, NEW x, Stage(m - 1, x), NEW y, y = Up(m, x)
      PROVE  Stage(m, y)
  <2>1. CASE x = Failed
    <3>1. y = Failed
      BY <1>3, <2>1 DEF MigrateUp
    <3> QED
      BY <1>3, <2>1, <3>1
  <2>2. CASE x # Failed /\ m > n /\ m <= last
    <3>1. y = MigrateUp(m, x)
      BY <1>3, <2>2
    <3>2. Level(m - 1) = m - 1 /\ Level(m) = m
      BY <2>2
    <3> HIDE DEF Level
    <3>3. Database(x) /\ RowsAgree(x) /\ Verified(x) = Verified(d)
          /\ (Known => Fits(x, m - 1)) /\ (m <= 2 => x.rows = d.rows)
      BY <1>3, <2>2, <3>2
    <3>4. /\ y # Failed =>
               Database(y) /\ RowsAgree(y) /\ Verified(y) = Verified(x)
          /\ y # Failed /\ m = 1 => y.rows = x.rows
          /\ Fits(x, m - 1) =>
               /\ y = Failed => m = 2 /\ Blocked(x)
               /\ y # Failed => Fits(y, m)
      BY <3>1, <3>3, StepUp
    <3>5. ASSUME Known, y = Failed PROVE n = 1 /\ Blocked(d)
      <4>1. m = 2 /\ Blocked(x) /\ x.rows = d.rows
        BY <3>3, <3>4, <3>5
      <4>2. Blocked(d) /\ d.rows # {}
        BY <4>1 DEF Blocked, In
      <4> QED
        BY <2>2, <3>5, <4>1, <4>2
    <3> QED
      BY <3>2, <3>3, <3>4, <3>5
  <2>3. CASE x # Failed /\ ~(m > n /\ m <= last)
    <3>1. y = x
      BY <1>3, <2>3
    <3>2. Level(m) = Level(m - 1)
      BY <2>3
    <3> HIDE DEF Level
    <3> QED
      BY <1>3, <2>3, <3>1, <3>2
  <2> QED
    BY <2>1, <2>2, <2>3
<1>4. Level(5) = last
  OBVIOUS
<1> HIDE DEF Up, Stage
<1>5. Stage(1, Up(1, d))
  BY <1>2, <1>3
<1>6. Stage(2, Up(2, Up(1, d)))
  BY <1>3, <1>5
<1>7. Stage(3, Up(3, Up(2, Up(1, d))))
  BY <1>3, <1>6
<1>8. Stage(4, Up(4, Up(3, Up(2, Up(1, d)))))
  BY <1>3, <1>7
<1>9. Stage(5, e)
  BY <1>1, <1>3, <1>8
<1>10. /\ e # Failed =>
            Database(e) /\ RowsAgree(e) /\ Verified(e) = Verified(d)
       /\ Known => /\ e = Failed => n = 1 /\ Blocked(d)
                   /\ e # Failed => Fits(e, Level(5))
  BY <1>9 DEF Stage
<1> QED
  BY <1>4, <1>10

LEMMA EmptyDatabase ==
  Database(Empty) /\ RowsAgree(Empty) /\ Fits(Empty, 0) /\ Empty.rows = {}
BY DEF Database, RowsAgree, Fits, SchemaTables, SchemaKeys, Empty

\* What the first n migrations make of an empty database.
LEMMA BuiltFits ==
  ASSUME NEW n \in 0..5
  PROVE  Fits(Built(n), n)
<1>1. Built(n) = MigratedTo(n, Empty, 0)
  BY DEF Built
<1> QED
  BY <1>1, EmptyDatabase, SeveralUp
-----------------------------------------------------------------------------
(* The invariant.  Unless the reset script was run, the schema is that of  *)
(* the migrations applied, every verification has its configuration and a  *)
(* tenant one row: what is lost to a cascade from a tenant had no other.   *)

MigrationsInv ==
  /\ applied \in 0..5 /\ wiped \in BOOLEAN
  /\ Database(db) /\ RowsAgree(db)
  /\ wiped \/ Fits(db, applied)
  /\ wiped => Verified(db) = {}
  /\ applied = 0 => db.rows = {}

LEMMA InvInit == MigrationsInit => MigrationsInv
<1> SUFFICES ASSUME MigrationsInit PROVE MigrationsInv
  OBVIOUS
<1>1. db = Empty /\ applied = 0 /\ wiped = FALSE
  BY DEF MigrationsInit
<1>2. 0 \in 0..5
  OBVIOUS
<1> QED
  BY <1>1, <1>2, EmptyDatabase, Zenon DEF MigrationsInv

\* A service's statement leaves the schema alone, and takes verifications with
\* their tenant only.
Serves(d, e) ==
  /\ Database(e) /\ RowsAgree(e)
  /\ e.tables = d.tables /\ e.keys = d.keys
  /\ LostWithTenant(d, e)

LEMMA InsertServes ==
  ASSUME NEW d, Database(d), RowsAgree(d), NEW r \in AnyRow,
         \A t \in TenantRowIds, p \in SeedProviders :
           r = VerificationRow(t, p) => ConfigRow(t, p) \in d.rows,
         \A t \in TenantRowIds, x \in Emails : r = TenantRow(t, x) => ~HasTenant(d, t)
  PROVE  Serves(d, InsertRow(d, r))
<1> DEFINE R == d.rows \cup {r}
           e == InsertRow(d, r)
<1>1. e = [d EXCEPT !.rows = R]
  BY DEF InsertRow
<1>2. R \subseteq AnyRow /\ d.rows \subseteq R
  BY DEF Database
<1>3. \A t \in TenantRowIds, p \in SeedProviders :
        VerificationRow(t, p) \in R => ConfigRow(t, p) \in R
  BY DEF RowsAgree
<1>03. ASSUME NEW t \in TenantRowIds, NEW e1 \in Emails, NEW e2 \in Emails,
              TenantRow(t, e1) \in R, TenantRow(t, e2) \in R
       PROVE  e1 = e2
  <2>1. ASSUME NEW x \in Emails, TenantRow(t, x) \in d.rows PROVE HasTenant(d, t)
    BY <2>1, TenantFields DEF HasTenant, In
  <2>2. CASE TenantRow(t, e1) = r \/ TenantRow(t, e2) = r
    <3>1. TenantRow(t, e1) = TenantRow(t, e2)
      BY <1>03, <2>1, <2>2
    <3> QED
      BY <3>1, TenantFields
  <2>3. CASE TenantRow(t, e1) # r /\ TenantRow(t, e2) # r
    BY <1>03, <2>3 DEF RowsAgree
  <2> QED
    BY <2>2, <2>3
<1> HIDE DEF R, e
<1>4. e = [tables |-> d.tables, keys |-> d.keys, rows |-> R]
  BY <1>1, WithRows
<1>5. e.tables = d.tables /\ e.keys = d.keys /\ e.rows = R
  BY <1>4
<1>6. Database(e) /\ RowsAgree(e)
  BY <1>2, <1>3, <1>03, <1>4, <1>5 DEF Database, RowsAgree
<1>7. LostWithTenant(d, e)
  BY <1>2, <1>5 DEF LostWithTenant
<1> QED
  BY <1>5, <1>6, <1>7 DEF Serves, e

LEMMA RenameServes ==
  ASSUME NEW d, Database(d), RowsAgree(d), NEW r \in In(d, "tenants"),
         NEW email \in Emails
  PROVE  Serves(d, [d EXCEPT !.rows = (d.rows \ {r}) \cup {[r EXCEPT !.email = email]}])
<1> DEFINE s == [r EXCEPT !.email = email]
           R == (d.rows \ {r}) \cup {s}
           e == [d EXCEPT !.rows = R]
<1>1. r \in d.rows /\ r \in AnyRow /\ r.table = "tenants"
  BY DEF In, Database
<1>2. PICK t \in TenantRowIds, old \in Emails : r = TenantRow(t, old)
  BY <1>1, RowTables
<1>3. s = TenantRow(t, email)
  BY <1>2 DEF TenantRow
<1> HIDE DEF s
<1>4. s \in AnyRow /\ s.table = "tenants"
  <2>1. s \in AnyRow
    BY <1>3 DEF AnyRow
  <2> QED
    BY <1>3, <2>1, TenantFields
<1>5. R \subseteq AnyRow
  BY <1>4 DEF Database
<1>6. \A x : x.table # "tenants" => (x \in R <=> x \in d.rows)
  BY <1>1, <1>4
<1> HIDE DEF R
<1>7. /\ e = [tables |-> d.tables, keys |-> d.keys, rows |-> R]
      /\ e.tables = d.tables /\ e.keys = d.keys /\ e.rows = R
  BY WithRows
<1> HIDE DEF e
<1>8. Database(e)
  BY <1>5, <1>7 DEF Database
<1>9. ASSUME NEW u \in TenantRowIds, NEW p \in SeedProviders,
             VerificationRow(u, p) \in d.rows \/ VerificationRow(u, p) \in e.rows
      PROVE  VerificationRow(u, p) \in e.rows /\ ConfigRow(u, p) \in e.rows
  <2>1. /\ VerificationRow(u, p).table = "verifications"
        /\ ConfigRow(u, p).table = "tenant_provider_configs"
    BY RowFields
  <2> QED
    BY <1>6, <1>7, <1>9, <2>1 DEF RowsAgree
<1>10. ASSUME NEW u \in TenantRowIds, NEW e1 \in Emails, NEW e2 \in Emails,
              TenantRow(u, e1) \in R, TenantRow(u, e2) \in R
       PROVE  e1 = e2
  <2>1. ASSUME NEW x \in Emails, NEW y \in Emails,
               TenantRow(u, x) = s, TenantRow(u, y) \in d.rows \ {r}
        PROVE  FALSE
    <3>1. <<u>> = <<t>>
      BY <1>3, <2>1, TenantFields
    <3>2. u = t
      BY <3>1
    <3>3. y = old
      BY <1>1, <1>2, <2>1, <3>2 DEF RowsAgree
    <3> QED
      BY <1>2, <2>1, <3>2, <3>3
  <2>2. CASE TenantRow(u, e1) = s /\ TenantRow(u, e2) = s
    <3>1. TenantRow(u, e1).email = TenantRow(u, e2).email
      BY <2>2
    <3> QED
      BY <3>1, TenantFields
  <2>3. CASE TenantRow(u, e1) # s /\ TenantRow(u, e2) # s
    BY <1>10, <2>3 DEF R, RowsAgree
  <2> QED
    BY <1>10, <2>1, <2>2, <2>3 DEF R
<1>11. RowsAgree(e)
  BY <1>7, <1>9, <1>10 DEF RowsAgree
<1>12. LostWithTenant(d, e)
  BY <1>9 DEF LostWithTenant
<1> QED
  BY <1>7, <1>8, <1>11, <1>12 DEF Serves, e, R, s

LEMMA ServicesServe ==
  ASSUME MigrationsInv, ~wiped, applied > 0,
         AddTenant \/ RenameTenant \/ RemoveTenant
           \/ AssignSeeded \/ UnassignSeeded \/ VerifySeeded
  PROVE  Serves(db, db')
<1>0. /\ Database(db) /\ RowsAgree(db) /\ applied \in 1..5
      /\ db.keys = SchemaKeys(applied)
  BY DEF MigrationsInv, Fits
<1>00. Guarded(db)
  BY <1>0 DEF Guarded
<1>1. CASE AddTenant
  <2>1. PICK t \in OtherTenants :
          ~HasTenant(db, t) /\ \E e \in Emails : db' = InsertRow(db, TenantRow(t, e))
    BY <1>1 DEF AddTenant, Write
  <2>2. PICK e \in Emails : db' = InsertRow(db, TenantRow(t, e))
    BY <2>1
  <2> DEFINE r == TenantRow(t, e)
  <2>3. r \in AnyRow /\ r.table = "tenants"
    BY TenantFields DEF AnyRow, TenantRowIds
  <2>33. \A u \in TenantRowIds, x \in Emails : r = TenantRow(u, x) => ~HasTenant(db, u)
    <3>1. ASSUME NEW u \in TenantRowIds, NEW x \in Emails, r = TenantRow(u, x) PROVE u = t
      <4>1. <<u>> = <<t>>
        BY <3>1, TenantFields
      <4> QED
        BY <4>1
    <3> QED
      BY <2>1, <3>1
  <2> HIDE DEF r
  <2>4. \A u \in TenantRowIds, p \in SeedProviders : r # VerificationRow(u, p)
    BY <2>3, RowFields
  <2>5. Serves(db, InsertRow(db, r))
    BY <1>0, <2>3, <2>33, <2>4, InsertServes
  <2> QED
    BY <2>2, <2>5 DEF r
<1>2. CASE RenameTenant
  <2>1. PICK r \in In(db, "tenants") : \E e \in Emails :
          db' = [db EXCEPT !.rows = (db.rows \ {r}) \cup {[r EXCEPT !.email = e]}]
    BY <1>2 DEF RenameTenant, Write
  <2> QED
    BY <1>0, <2>1, RenameServes
<1>3. ASSUME NEW r \in db.rows, r.table # "verifications",
             db' = DeleteRows(db, {r}), db' # Failed
      PROVE  Serves(db, db')
  <2>1. {r} \subseteq db.rows /\ \A x \in {r} : x.table # "verifications"
    BY <1>3
  <2>2. /\ Database(db') /\ RowsAgree(db')
        /\ db'.tables = db.tables /\ db'.keys = db.keys
        /\ LostWithTenant(db, db')
    BY <1>0, <1>00, <1>3, <2>1, Deletes
  <2> QED
    BY <2>2 DEF Serves
<1>4. CASE RemoveTenant
  <2>1. PICK r \in In(db, "tenants") : db' = DeleteRows(db, {r}) /\ db' # Failed
    BY <1>4 DEF RemoveTenant, Write
  <2> QED
    BY <1>3, <2>1 DEF In
<1>5. CASE UnassignSeeded
  <2>1. PICK r \in In(db, "tenant_provider_configs") :
          db' = DeleteRows(db, {r}) /\ db' # Failed
    BY <1>5 DEF UnassignSeeded, Write
  <2> QED
    BY <1>3, <2>1 DEF In
<1>6. CASE AssignSeeded
  <2>1. PICK t \in In(db, "tenants") : \E p \in In(db, "providers") :
          db' = InsertRow(db, ConfigRow(t.id[1], p.id[1]))
    BY <1>6 DEF AssignSeeded, Write
  <2>2. PICK p \in In(db, "providers") : db' = InsertRow(db, ConfigRow(t.id[1], p.id[1]))
    BY <2>1
  <2>3. t \in AnyRow /\ t.table = "tenants" /\ p \in AnyRow /\ p.table = "providers"
    BY <1>0 DEF In, Database
  <2>4. PICK u \in TenantRowIds, e \in Emails : t = TenantRow(u, e)
    BY <2>3, RowTables
  <2>5. PICK q \in SeedProviders : p = ProviderRow(q)
    BY <2>3, RowTables
  <2>6. t.id[1] = u /\ p.id[1] = q
    BY <2>4, <2>5, TenantFields, ProviderFields
  <2> DEFINE r == ConfigRow(u, q)
  <2>7. r \in AnyRow /\ r.table = "tenant_provider_configs"
    BY RowFields DEF AnyRow
  <2>8. db' = InsertRow(db, r)
    BY <2>2, <2>6
  <2> HIDE DEF r
  <2>9. /\ \A x \in TenantRowIds, y \in SeedProviders : r # VerificationRow(x, y)
        /\ \A x \in TenantRowIds, y \in Emails : r # TenantRow(x, y)
    BY <2>7, RowFields, TenantFields
  <2> QED
    BY <1>0, <2>7, <2>8, <2>9, InsertServes
<1>7. CASE VerifySeeded
  <2>1. PICK r \in In(db, "tenant_provider_configs") :
          db' = InsertRow(db, VerificationRow(r.id[1], r.id[2]))
    BY <1>7 DEF VerifySeeded, Write
  <2>2. r \in db.rows /\ r \in AnyRow /\ r.table = "tenant_provider_configs"
    BY <1>0 DEF In, Database
  <2>3. PICK t \in TenantRowIds, p \in SeedProviders : r = ConfigRow(t, p)
    BY <2>2, RowTables
  <2>4. r.id[1] = t /\ r.id[2] = p
    BY <2>3, RowFields
  <2> DEFINE v == VerificationRow(t, p)
  <2>5. v \in AnyRow
    BY DEF AnyRow
  <2>6. ASSUME NEW x \in TenantRowIds, NEW y \in SeedProviders, v = VerificationRow(x, y)
        PROVE  ConfigRow(x, y) \in db.rows
    <3>1. <<x, y>> = <<t, p>>
      BY <2>6, RowFields
    <3> QED
      BY <2>2, <2>3, <3>1
  <2>66. \A x \in TenantRowIds, y \in Emails : v # TenantRow(x, y)
    BY RowFields, TenantFields
  <2>7. db' = InsertRow(db, v)
    BY <2>1, <2>4
  <2> HIDE DEF v
  <2> QED
    BY <1>0, <2>5, <2>6, <2>66, <2>7, InsertServes
<1> QED
  BY <1>1, <1>2, <1>4, <1>5, <1>6, <1>7
HistoryKept ==
  HasTables(db, {"verifications"}) /\ "verifications" \in DOMAIN db'.tables
    => LostWithTenant(db, db')

LEMMA MigrationsStep ==
  ASSUME MigrationsInv, MigrationsNext
  PROVE  MigrationsInv' /\ HistoryKept
<1>0. /\ applied \in 0..5 /\ wiped \in BOOLEAN
      /\ Database(db) /\ RowsAgree(db)
      /\ wiped \/ Fits(db, applied)
      /\ wiped => Verified(db) = {}
      /\ applied = 0 => db.rows = {}
  BY DEF MigrationsInv
<1>1. CASE RunMigrations
  <2>1. /\ applied < 5 /\ db' # Failed /\ db' = MigratedTo(5, db, applied)
        /\ applied' = 5 /\ wiped' = wiped
    BY <1>1 DEF RunMigrations, Migrated, LastMigration
  <2>2. /\ Database(db') /\ RowsAgree(db') /\ Verified(db') = Verified(db)
        /\ Fits(db, applied) /\ (applied = 0 => db.rows = {}) => Fits(db', 5)
    BY <1>0, <2>1, SeveralUp
  <2>3. LostWithTenant(db, db')
    BY <2>2, RowFields DEF LostWithTenant, Verified, In
  <2> QED
    BY <1>0, <2>1, <2>2, <2>3 DEF MigrationsInv, HistoryKept
<1>2. CASE RevertMigration
  <2>1. /\ applied > 0 /\ db' # Failed /\ db' = MigrateDown(applied, db)
        /\ applied' = applied - 1 /\ wiped' = wiped
    BY <1>2 DEF RevertMigration
  <2>2. applied \in 1..5 /\ (Fits(db, applied) \/ Verified(db) = {})
    BY <1>0, <2>1
  <2>3. /\ Database(db') /\ RowsAgree(db')
        /\ applied # 1 =>
             LostWithTenant(db, db') /\ Verified(db') \subseteq Verified(db)
        /\ applied = 1 => db'.rows = {} /\ "verifications" \notin DOMAIN db'.tables
        /\ Fits(db, applied) => Fits(db', applied - 1)
    BY <1>0, <2>1, <2>2, StepDown
  <2>4. applied = 1 => Verified(db') = {}
    BY <2>3 DEF Verified, In
  <2>5. HistoryKept
    BY <2>3 DEF HistoryKept
  <2>6. wiped => Verified(db') = {}
    BY <1>0, <2>3, <2>4
  <2>7. applied' \in 0..5 /\ (applied' = 0 => db'.rows = {})
        /\ (wiped' \/ Fits(db', applied'))
    BY <1>0, <2>1, <2>2, <2>3
  <2> QED
    BY <1>0, <2>1, <2>3, <2>5, <2>6, <2>7 DEF MigrationsInv
<1>3. CASE DropSchema
  <2>1. db' = Empty /\ applied' = 0 /\ wiped' = FALSE
    BY <1>3 DEF DropSchema
  <2>2. DOMAIN db'.tables = {}
    BY <2>1 DEF Empty
  <2>3. 0 \in 0..5
    OBVIOUS
  <2>4. MigrationsInv'
    BY <2>1, <2>3, EmptyDatabase, Zenon DEF MigrationsInv
  <2> QED
    BY <2>2, <2>4 DEF HistoryKept
<1>4. CASE ResetScript
  <2>1. /\ db' = DropTables(db, DOMAIN CleanTables) /\ wiped' = TRUE /\ applied' = applied
    BY <1>4 DEF ResetScript
  <2>2. Database(db') /\ db'.rows = {}
    BY <1>0, <2>1, DropsTables, DropsRows
  <2>3. RowsAgree(db') /\ Verified(db') = {}
    BY <2>2 DEF RowsAgree, Verified, In
  <2>4. "verifications" \notin DOMAIN db'.tables
    BY <2>1, CleanTableNames DEF DropTables, CleanNames
  <2> QED
    BY <1>0, <2>1, <2>2, <2>3, <2>4 DEF MigrationsInv, HistoryKept
<1>5. CASE SeedDatabase
  <2>1. db' = db /\ applied' = applied /\ wiped' = wiped
    BY <1>5 DEF SeedDatabase
  <2> QED
    BY <1>0, <2>1 DEF MigrationsInv, HistoryKept, LostWithTenant
<1>6. CASE AddTenant \/ RenameTenant \/ RemoveTenant
             \/ AssignSeeded \/ UnassignSeeded \/ VerifySeeded
  <2>1. ~wiped /\ applied > 0 /\ applied' = applied /\ wiped' = wiped
    BY <1>6 DEF AddTenant, RenameTenant, RemoveTenant, AssignSeeded, UnassignSeeded,
                VerifySeeded, Write
  <2>2. Serves(db, db')
    BY <1>6, <2>1, ServicesServe
  <2> QED
    BY <1>0, <2>1, <2>2 DEF Serves, MigrationsInv, Fits, HistoryKept
<1> QED
  BY <1>1, <1>2, <1>3, <1>4, <1>5, <1>6 DEF MigrationsNext

(* In every reachable database, whatever was run, reverted, seeded and     *)
(* reset, the schema is that of the migrations applied, a verification has *)
(* the configuration it was made with and a tenant one row.                *)
THEOREM SchemaInvariant == MigrationsSpec => []MigrationsInv
<1>1. MigrationsInv /\ [MigrationsNext]_migrationVars => MigrationsInv'
  <2> SUFFICES ASSUME MigrationsInv, [MigrationsNext]_migrationVars PROVE MigrationsInv'
    OBVIOUS
  <2>1. CASE MigrationsNext
    BY <2>1, MigrationsStep
  <2>2. CASE UNCHANGED migrationVars
    BY <2>2 DEF migrationVars, MigrationsInv
  <2> QED
    BY <2>1, <2>2
<1> QED
  BY InvInit, <1>1, PTL DEF MigrationsSpec

(* Whatever is run, reverted, seeded and deleted, a verification is lost    *)
(* with its tenant or with the table: the foreign keys that restrict check *)
(* what the cascade from the tenant has left, and refuse everything else.  *)
THEOREM HistorySurvives == MigrationsSpec => VerificationsSurvive
<1>1. MigrationsInv /\ [MigrationsNext]_migrationVars =>
        [HasTables(db, {"verifications"}) /\ "verifications" \in DOMAIN db'.tables
           => \A r \in Verified(db) \ Verified(db') : ~HasTenant(db', r.id[1])]_db
  <2> SUFFICES ASSUME MigrationsInv, [MigrationsNext]_migrationVars, db' # db,
                      HasTables(db, {"verifications"}), "verifications" \in DOMAIN db'.tables,
                      NEW r \in Verified(db) \ Verified(db')
               PROVE  ~HasTenant(db', r.id[1])
    OBVIOUS
  <2>1. MigrationsNext
    BY DEF migrationVars
  <2>2. LostWithTenant(db, db')
    BY <2>1, MigrationsStep DEF HistoryKept
  <2>3. r \in db.rows \ db'.rows /\ r.table = "verifications" /\ r \in AnyRow
    BY DEF Verified, In, MigrationsInv, Database
  <2>4. PICK t \in TenantRowIds, p \in SeedProviders : r = VerificationRow(t, p)
    BY <2>3, RowTables
  <2>5. r.id[1] = t
    BY <2>4, RowFields
  <2> QED
    BY <2>2, <2>3, <2>4, <2>5 DEF LostWithTenant
<1> QED
  BY SchemaInvariant, <1>1, PTL DEF MigrationsSpec, VerificationsSurvive

(* A revert undoes its migration: the schema depends only on what is       *)
(* applied now.                                                            *)
THEOREM ReplayHolds == MigrationsSpec => []SchemaIsReplay
<1>1. MigrationsInv => SchemaIsReplay
  BY BuiltFits DEF MigrationsInv, SchemaIsReplay, Fits
<1> QED
  BY SchemaInvariant, <1>1, PTL

(* Migrations and reverts are refused only for another tenant that has the *)
(* seeded id or email, or for a verification made with the seeds.          *)
THEOREM ApplyHolds == MigrationsSpec => []MigrationsApply
<1>1. ASSUME MigrationsInv, ~wiped, applied < LastMigration, Migrated(db, applied) = Failed
      PROVE  applied = 1 /\ Blocked(db)
  <2>1. /\ applied \in 0..5 /\ Database(db) /\ RowsAgree(db)
        /\ Fits(db, applied) /\ (applied = 0 => db.rows = {})
    BY <1>1 DEF MigrationsInv
  <2>2. MigratedTo(5, db, applied) = Failed
    BY <1>1 DEF Migrated, LastMigration
  <2> QED
    BY <2>1, <2>2, SeveralUp
<1>2. ASSUME MigrationsInv, ~wiped, applied > 0, MigrateDown(applied, db) = Failed
      PROVE  applied = 2 /\ Verified(db) # {}
  <2>1. /\ applied \in 1..5 /\ Database(db) /\ RowsAgree(db) /\ Fits(db, applied)
    BY <1>2 DEF MigrationsInv
  <2> QED
    BY <1>2, <2>1, StepDown
<1>3. MigrationsInv => MigrationsApply
  BY <1>1, <1>2 DEF MigrationsApply, Blocked
<1> QED
  BY SchemaInvariant, <1>3, PTL
-----------------------------------------------------------------------------
(* What the code names is there.                                           *)

Final == SchemaTables(5)

LEMMA FinalTables ==
  /\ DOMAIN Final = CleanNames \cup EventNames
  /\ \A t \in CleanNames : CleanTables[t] \subseteq Final[t]
  /\ \A t \in EventNames : EventTables[t] \subseteq Final[t]
  /\ {"preview_suffix", "key_encrypted", "key_iv"} \subseteq Final["tenant_api_keys"]
  /\ Final["verifications"] = CleanTables["verifications"] \cup EventColumns.verifications
<1>1. Final = Widened(WithEvents, EventColumns)
  BY DEF Final, SchemaTables
<1>2. DOMAIN WithEvents = CleanNames \cup EventNames
  BY SchemaSteps
<1>3. DOMAIN Final = CleanNames \cup EventNames
  BY <1>1, <1>2 DEF Widened
<1>4. \A t \in CleanNames \cup EventNames :
        Final[t] = WithEvents[t] \cup ColumnsOf(EventColumns, t)
  BY <1>1, <1>2 DEF Widened
<1>5. \A t \in CleanNames : WithEvents[t] = Encrypted[t]
  BY SchemaSteps, EventTableNames DEF WithEvents, Joined, CleanNames, EventNames
<1>6. \A t \in EventNames : WithEvents[t] = EventTables[t]
  BY EventTableNames DEF WithEvents, Joined
<1>7. \A t \in CleanNames :
        /\ Encrypted[t] = Preview[t] \cup ColumnsOf(EncryptionColumns, t)
        /\ Preview[t] = CleanTables[t] \cup ColumnsOf(PreviewColumns, t)
  BY SchemaSteps, CleanTableNames DEF Encrypted, Preview, Widened
<1>8. {"tenant_api_keys", "verifications"} \subseteq CleanNames
  BY DEF CleanNames
<1> QED
  BY <1>3, <1>4, <1>5, <1>6, <1>7, <1>8, ColumnNames

\* The clean tables by group.
LEMMA CleanGroups ==
  /\ \A t \in DOMAIN AdminTables : CleanTables[t] = AdminTables[t]
  /\ \A t \in DOMAIN TenantTables : CleanTables[t] = TenantTables[t]
  /\ \A t \in DOMAIN ProviderTables : CleanTables[t] = ProviderTables[t]
  /\ \A t \in DOMAIN VerificationTables : CleanTables[t] = VerificationTables[t]
  /\ \A t \in DOMAIN InquiryTables : CleanTables[t] = InquiryTables[t]
BY CleanDomain DEF CleanTables, Joined

LEMMA FinalClean ==
  ASSUME NEW t \in CleanNames, NEW columns, columns \subseteq CleanTables[t]
  PROVE  Served(Final, Need(t, columns))
<1>1. t \in DOMAIN Final /\ columns \subseteq Final[t]
  BY FinalTables
<1>2. Need(t, columns).table = t /\ Need(t, columns).columns = columns
  BY DEF Need
<1> QED
  BY <1>1, <1>2 DEF Served

LEMMA FinalEvent ==
  ASSUME NEW t \in EventNames, NEW columns, columns \subseteq EventTables[t]
  PROVE  Served(Final, Need(t, columns))
<1>1. t \in DOMAIN Final /\ columns \subseteq Final[t]
  BY FinalTables
<1>2. Need(t, columns).table = t /\ Need(t, columns).columns = columns
  BY DEF Need
<1> QED
  BY <1>1, <1>2 DEF Served

LEMMA AdminsServed ==
  /\ Served(Final, AdminEntity) /\ Served(Final, AdminApiKeyEntity)
  /\ Served(Final, AdminRefreshTokenEntity)
<1>1. {"admins", "admin_api_keys", "admin_refresh_tokens"} \subseteq CleanNames
  BY DEF CleanNames
<1>2. /\ CleanTables["admins"] = AdminTables.admins
      /\ CleanTables["admin_api_keys"] = AdminTables.admin_api_keys
      /\ CleanTables["admin_refresh_tokens"] = AdminTables.admin_refresh_tokens
  BY CleanGroups, CleanDomain
<1>3. Served(Final, AdminEntity)
  BY <1>1, <1>2, FinalClean DEF AdminEntity, AdminTables
<1>4. Served(Final, AdminApiKeyEntity)
  BY <1>1, <1>2, FinalClean DEF AdminApiKeyEntity, AdminTables
<1>5. Served(Final, AdminRefreshTokenEntity)
  BY <1>1, <1>2, FinalClean DEF AdminRefreshTokenEntity, AdminTables
<1> QED
  BY <1>3, <1>4, <1>5

LEMMA TenantsServed ==
  /\ Served(Final, TenantEntity) /\ Served(Final, TenantApiKeyEntity)
  /\ Served(Final, TenantRefreshTokenEntity)
<1>1. {"tenants", "tenant_api_keys", "tenant_refresh_tokens"} \subseteq CleanNames
  BY DEF CleanNames
<1>2. /\ CleanTables["tenants"] = TenantTables.tenants
      /\ CleanTables["tenant_refresh_tokens"] = TenantTables.tenant_refresh_tokens
  BY CleanGroups, CleanDomain
<1>3. Served(Final, TenantEntity)
  BY <1>1, <1>2, FinalClean DEF TenantEntity, TenantTables
<1>4. Served(Final, TenantRefreshTokenEntity)
  BY <1>1, <1>2, FinalClean DEF TenantRefreshTokenEntity, TenantTables
<1>5. Served(Final, TenantApiKeyEntity)
  <2>1. /\ TenantApiKeyEntity.table = "tenant_api_keys"
        /\ TenantApiKeyEntity.columns =
             {"id", "tenant_id", "name", "key_hash", "preview_suffix", "key_encrypted",
              "key_iv", "status", "expires_at", "last_used_at"} \cup Stamps
    BY DEF TenantApiKeyEntity, Need
  <2>2. (KeyRow \cup {"tenant_id"}) \cup {"preview_suffix", "key_encrypted", "key_iv"}
          \subseteq Final["tenant_api_keys"]
    BY <1>1, FinalTables, NewColumns
  <2>3. TenantApiKeyEntity.columns \subseteq
          (KeyRow \cup {"tenant_id"}) \cup {"preview_suffix", "key_encrypted", "key_iv"}
    BY <2>1 DEF KeyRow
  <2> QED
    BY <1>1, <2>1, <2>2, <2>3, FinalTables DEF Served
<1> QED
  BY <1>3, <1>4, <1>5

LEMMA VerificationsServed ==
  /\ Served(Final, AccountEntity) /\ Served(Final, VerificationEntity)
  /\ Served(Final, InsertVerification) /\ Served(Final, SelectVerification)
  /\ Served(Final, UpdateVerification)
<1>1. {"accounts", "verifications"} \subseteq CleanNames
  BY DEF CleanNames
<1>2. /\ CleanTables["accounts"] = VerificationTables.accounts
      /\ CleanTables["verifications"] = VerificationTables.verifications
  BY CleanGroups, CleanDomain
<1>3. Served(Final, AccountEntity)
  BY <1>1, <1>2, FinalClean DEF AccountEntity, VerificationTables
<1>4. Served(Final, VerificationEntity)
  BY <1>1, <1>2, FinalClean DEF VerificationEntity, VerificationTables
<1>5. Served(Final, InsertVerification)
  BY <1>1, <1>2, FinalClean DEF InsertVerification, VerificationTables
<1>6. Served(Final, SelectVerification)
  BY <1>1, <1>2, FinalClean DEF SelectVerification, VerificationTables
<1>7. Served(Final, UpdateVerification)
  BY <1>1, <1>2, FinalClean DEF UpdateVerification, VerificationTables, Stamps
<1> QED
  BY <1>3, <1>4, <1>5, <1>6, <1>7

LEMMA ConfigsServed == \A need \in ConfigStatements : Served(Final, need)
<1>1. {"providers", "tenant_provider_configs"} \subseteq CleanNames
  BY DEF CleanNames
<1>2. /\ CleanTables["providers"] = ProviderTables.providers
      /\ CleanTables["tenant_provider_configs"] = ProviderTables.tenant_provider_configs
  BY CleanGroups, CleanDomain
<1>3. Served(Final, Need("tenant_provider_configs",
                         {"id", "tenant_id", "config", "priority",
                          "provider_id", "is_enabled"} \cup Stamps))
  BY <1>1, <1>2, FinalClean DEF ProviderTables
<1>4. Served(Final, Need("providers", {"id", "name", "type"}))
  BY <1>1, <1>2, FinalClean DEF ProviderTables
<1> QED
  BY <1>3, <1>4 DEF ConfigStatements

LEMMA EventsServed ==
  /\ Served(Final, ProviderTemplateEntity) /\ Served(Final, ProviderPlanEntity)
  /\ Served(Final, ProviderVerificationSessionEntity)
<1>1. /\ DOMAIN TemplateTables = {"provider_templates", "provider_plans"}
      /\ DOMAIN SessionTables = {"provider_verification_sessions"}
  BY DEF TemplateTables, SessionTables
<1>2. /\ EventTables["provider_templates"] = TemplateTables.provider_templates
      /\ EventTables["provider_plans"] = TemplateTables.provider_plans
      /\ EventTables["provider_verification_sessions"] =
           SessionTables.provider_verification_sessions
  BY <1>1 DEF EventTables, Joined
<1>3. EventNames = {"provider_templates", "provider_plans", "provider_verification_sessions"}
  BY DEF EventNames
<1>4. Served(Final, ProviderTemplateEntity)
  BY <1>2, <1>3, FinalEvent DEF ProviderTemplateEntity, TemplateTables
<1>5. Served(Final, ProviderPlanEntity)
  BY <1>2, <1>3, FinalEvent DEF ProviderPlanEntity, TemplateTables
<1>6. Served(Final, ProviderVerificationSessionEntity)
  BY <1>2, <1>3, FinalEvent DEF ProviderVerificationSessionEntity, SessionTables
<1> QED
  BY <1>4, <1>5, <1>6
LEMMA CleanIds == \A t \in CleanNames : "id" \in CleanTables[t]
<1>1. \A t \in DOMAIN AdminTables : "id" \in AdminTables[t]
  BY DEF AdminTables, KeyRow, TokenRow
<1>2. \A t \in DOMAIN TenantTables : "id" \in TenantTables[t]
  BY DEF TenantTables, KeyRow, TokenRow
<1>3. \A t \in DOMAIN ProviderTables : "id" \in ProviderTables[t]
  BY DEF ProviderTables
<1>4. \A t \in DOMAIN VerificationTables : "id" \in VerificationTables[t]
  BY DEF VerificationTables
<1>5. \A t \in DOMAIN InquiryTables : "id" \in InquiryTables[t]
  BY DEF InquiryTables
<1> QED
  BY <1>1, <1>2, <1>3, <1>4, <1>5, CleanGroups, CleanDomain DEF CleanNames

LEMMA CleanKeyColumns == \A k \in CleanReferences : k.column \in CleanTables[k.from]
<1>1. /\ "admin_id" \in CleanTables["admin_api_keys"]
      /\ "admin_id" \in CleanTables["admin_refresh_tokens"]
  BY CleanGroups, CleanDomain DEF AdminTables
<1>2. /\ "tenant_id" \in CleanTables["tenant_api_keys"]
      /\ "tenant_id" \in CleanTables["tenant_refresh_tokens"]
  BY CleanGroups, CleanDomain DEF TenantTables
<1>3. {"tenant_id", "provider_id"} \subseteq CleanTables["tenant_provider_configs"]
  BY CleanGroups, CleanDomain DEF ProviderTables
<1>4. /\ "tenant_id" \in CleanTables["accounts"]
      /\ {"tenant_id", "account_id", "provider_id", "provider_config_id"}
           \subseteq CleanTables["verifications"]
  BY CleanGroups, CleanDomain DEF VerificationTables
<1>5. /\ {"tenant_id", "account_id", "template_id"} \subseteq CleanTables["inquiries"]
      /\ "tenant_id" \in CleanTables["inquiry_templates"]
      /\ {"account_id", "inquiry_id"} \subseteq CleanTables["documents"]
      /\ "tenant_id" \in CleanTables["webhooks"]
  BY CleanGroups, CleanDomain DEF InquiryTables
<1> QED
  BY <1>1, <1>2, <1>3, <1>4, <1>5 DEF CleanReferences, Reference

LEMMA EventKeyColumns ==
  \A k \in EventReferences :
    /\ \/ k.from \in EventNames /\ k.column \in EventTables[k.from]
       \/ k.from = "verifications" /\ k.column \in EventColumns.verifications
    /\ \/ k.to \in EventNames /\ "id" \in EventTables[k.to]
       \/ k.to \in CleanNames
<1>1. /\ DOMAIN TemplateTables = {"provider_templates", "provider_plans"}
      /\ DOMAIN SessionTables = {"provider_verification_sessions"}
  BY DEF TemplateTables, SessionTables
<1>2. /\ {"id", "provider_id"} \subseteq EventTables["provider_templates"]
      /\ "provider_id" \in EventTables["provider_plans"]
  BY <1>1 DEF EventTables, Joined, TemplateTables
<1>3. {"verification_id", "provider_id", "template_id"}
        \subseteq EventTables["provider_verification_sessions"]
  BY <1>1 DEF EventTables, Joined, SessionTables
<1>4. "template_id" \in EventColumns.verifications
  BY DEF EventColumns
<1> QED
  BY <1>2, <1>3, <1>4 DEF EventReferences, Reference, EventNames, CleanNames

LEMMA KeysServed ==
  ASSUME NEW k \in SchemaKeys(5)
  PROVE  Served(Final, Need(k.from, {k.column})) /\ Served(Final, Need(k.to, {"id"}))
<1>1. k \in CleanReferences \/ k \in EventReferences
  BY DEF SchemaKeys
<1>2. CASE k \in CleanReferences
  <2>1. k.from \in CleanNames /\ k.to \in CleanNames
    BY <1>2, CleanKeys
  <2>2. {k.column} \subseteq CleanTables[k.from] /\ {"id"} \subseteq CleanTables[k.to]
    BY <1>2, <2>1, CleanIds, CleanKeyColumns
  <2> QED
    BY <2>1, <2>2, FinalClean
<1>3. CASE k \in EventReferences
  <2>1. Served(Final, Need(k.from, {k.column}))
    <3>1. CASE k.from \in EventNames /\ k.column \in EventTables[k.from]
      <4>1. {k.column} \subseteq EventTables[k.from]
        BY <3>1
      <4> QED
        BY <3>1, <4>1, FinalEvent
    <3>2. CASE k.from = "verifications" /\ k.column \in EventColumns.verifications
      <4>1. k.from \in DOMAIN Final /\ {k.column} \subseteq Final[k.from]
        BY <3>2, FinalTables DEF CleanNames
      <4> QED
        BY <4>1 DEF Served, Need
    <3> QED
      BY <1>3, <3>1, <3>2, EventKeyColumns
  <2>2. Served(Final, Need(k.to, {"id"}))
    <3>1. CASE k.to \in EventNames /\ "id" \in EventTables[k.to]
      <4>1. {"id"} \subseteq EventTables[k.to]
        BY <3>1
      <4> QED
        BY <3>1, <4>1, FinalEvent
    <3>2. CASE k.to \in CleanNames
      <4>1. {"id"} \subseteq CleanTables[k.to]
        BY <3>2, CleanIds
      <4> QED
        BY <3>2, <4>1, FinalClean
    <3> QED
      BY <1>3, <3>1, <3>2, EventKeyColumns
  <2> QED
    BY <2>1, <2>2
<1> QED
  BY <1>1, <1>2, <1>3

\* The columns a poll writes come with no migration.
LEMMA PollUnserved == ~Served(Final, UpdateVerificationStatus)
<1>1. CleanTables["verifications"] = VerificationTables["verifications"]
  BY CleanGroups, CleanDomain
<1>2. "result_data" \notin VerificationTables["verifications"] \cup EventColumns.verifications
  BY DEF VerificationTables, EventColumns, Stamps
<1>3. "result_data" \notin Final["verifications"]
  BY <1>1, <1>2, FinalTables
<1> QED
  BY <1>3 DEF Served, UpdateVerificationStatus, Need

(* Once all migrations have run, each entity in use and each statement     *)
(* written out finds its columns, but the UPDATE of a poll, which finds    *)
(* them in no schema; and each foreign key finds both its ends.            *)
THEOREM CodeServed == MigrationsSpec => []CodeIsServed
<1>1. \A need \in EntityNeeds \cup StatementNeeds :
        need # UpdateVerificationStatus => Served(Final, need)
  BY AdminsServed, TenantsServed, VerificationsServed, ConfigsServed, EventsServed
     DEF EntityNeeds, StatementNeeds
<1>2. MigrationsInv => CodeIsServed
  <2> SUFFICES ASSUME MigrationsInv, applied = LastMigration, ~wiped
               PROVE  /\ \A need \in EntityNeeds \cup StatementNeeds :
                           Served(db.tables, need) <=> need # UpdateVerificationStatus
                      /\ \A k \in db.keys : /\ Served(db.tables, Need(k.from, {k.column}))
                                            /\ Served(db.tables, Need(k.to, {"id"}))
    BY DEF CodeIsServed
  <2>1. db.tables = Final /\ db.keys = SchemaKeys(5)
    BY DEF MigrationsInv, Fits, Final, LastMigration
  <2> QED
    BY <1>1, <2>1, PollUnserved, KeysServed
<1> QED
  BY SchemaInvariant, <1>2, PTL
=============================================================================
