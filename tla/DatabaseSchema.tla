--------------------------- MODULE DatabaseSchema ---------------------------
(***************************************************************************)
(* What the migrations create and what the code needs: tables with their   *)
(* columns, foreign keys with their referential action, the entities whose *)
(* repositories the services use, and the SQL statements they write out.   *)
(* Types, defaults and indexes are left out.                               *)
(*                                                                         *)
(* Tables map names to sets of columns.                                    *)
(***************************************************************************)

\* The tables of s and those of t.
Joined(s, t) ==
  [n \in DOMAIN s \cup DOMAIN t |-> IF n \in DOMAIN s THEN s[n] ELSE t[n]]

Stamps == {"created_at", "updated_at"}

Reference(from, column, to, onDelete) ==
  [from |-> from, column |-> column, to |-> to, onDelete |-> onDelete]

-----------------------------------------------------------------------------
(* CreateCleanSchema.                                                      *)

KeyRow == {"id", "name", "key_hash", "status", "expires_at", "last_used_at"} \cup Stamps

TokenRow == {"id", "token", "is_revoked", "expires_at", "user_agent",
             "ip_address", "created_at"}

AdminTables ==
  [admins |-> {"id", "name", "email", "password", "role", "status",
               "last_login_at"} \cup Stamps,
   admin_api_keys |-> KeyRow \cup {"admin_id"},
   admin_refresh_tokens |-> TokenRow \cup {"admin_id"}]

TenantTables ==
  [tenants |-> {"id", "name", "status", "email", "password", "settings"} \cup Stamps,
   tenant_api_keys |-> KeyRow \cup {"tenant_id"},
   tenant_refresh_tokens |-> TokenRow \cup {"tenant_id"}]

ProviderTables ==
  [providers |-> {"id", "name", "type", "description", "credentials",
                  "default_config", "is_active", "api_url", "webhook_url",
                  "max_daily_verifications", "priority", "metadata"} \cup Stamps,
   tenant_provider_configs |-> {"id", "tenant_id", "provider_id", "is_enabled",
                  "config", "priority", "max_daily_verifications",
                  "webhook_url", "metadata"} \cup Stamps]

VerificationTables ==
  [accounts |-> {"id", "tenant_id", "reference_id", "name", "email", "phone",
                 "birthdate", "address"} \cup Stamps,
   verifications |-> {"id", "tenant_id", "account_id", "provider_id",
                 "provider_config_id", "provider_verification_id",
                 "verification_type", "status", "verification_link",
                 "callback_url", "expires_at", "result", "request_metadata",
                 "response_metadata", "error_details", "completed_at"} \cup Stamps]

InquiryTables ==
  [inquiry_templates |-> {"id", "tenant_id", "name", "description",
                          "template_data"} \cup Stamps,
   inquiries |-> {"id", "tenant_id", "account_id", "template_id", "status",
                  "inquiry_data"} \cup Stamps,
   documents |-> {"id", "account_id", "inquiry_id", "document_type",
                  "file_path", "metadata"} \cup Stamps,
   webhooks |-> {"id", "tenant_id", "url", "events", "is_active", "secret"}
                  \cup Stamps]

CleanTables ==
  Joined(Joined(AdminTables, TenantTables),
         Joined(Joined(ProviderTables, VerificationTables), InquiryTables))

\* Faulty variant: verifications refer to providers and configurations as
\* their entity declares it.
CleanReferencesOfEntity ==
  {Reference("verifications", "provider_id", "providers", "CASCADE"),
   Reference("verifications", "provider_config_id", "tenant_provider_configs", "CASCADE")}
  \cup {Reference(t, "tenant_id", "tenants", "CASCADE") :
          t \in {"tenant_provider_configs", "accounts", "verifications"}}

CleanReferences ==
  {Reference("admin_api_keys", "admin_id", "admins", "CASCADE"),
   Reference("admin_refresh_tokens", "admin_id", "admins", "CASCADE"),
   Reference("tenant_provider_configs", "provider_id", "providers", "CASCADE"),
   Reference("verifications", "account_id", "accounts", "SET_NULL"),
   Reference("verifications", "provider_id", "providers", "RESTRICT"),
   Reference("verifications", "provider_config_id", "tenant_provider_configs", "RESTRICT"),
   Reference("inquiries", "account_id", "accounts", "SET_NULL"),
   Reference("inquiries", "template_id", "inquiry_templates", "SET_NULL"),
   Reference("documents", "account_id", "accounts", "CASCADE"),
   Reference("documents", "inquiry_id", "inquiries", "SET_NULL")}
  \cup {Reference(t, "tenant_id", "tenants", "CASCADE") :
          t \in {"tenant_api_keys", "tenant_refresh_tokens",
                 "tenant_provider_configs", "accounts", "verifications",
                 "inquiry_templates", "inquiries", "webhooks"}}

-----------------------------------------------------------------------------
(* AddApiKeyPreviewSuffix and AddApiKeyEncryptionColumns.                  *)

PreviewColumns == [tenant_api_keys |-> {"preview_suffix"}]

\* Faulty variant: without the initialization vector.
EncryptionColumnsNoIv == [tenant_api_keys |-> {"key_encrypted"}]

EncryptionColumns == [tenant_api_keys |-> {"key_encrypted", "key_iv"}]

-----------------------------------------------------------------------------
(* AddEventDrivenArchitecture.                                             *)

TemplateTables ==
  [provider_templates |-> {"id", "provider_id", "external_template_id", "name",
                           "description", "category", "steps", "step_count",
                           "is_active", "metadata"} \cup Stamps,
   provider_plans |-> {"id", "provider_id", "plan_code", "plan_name",
                       "category", "description", "pricing", "features",
                       "is_active", "processing_time_seconds", "metadata"}
                       \cup Stamps]

SessionTables ==
  [provider_verification_sessions |->
     {"id", "verification_id", "provider_id", "template_id",
      "provider_session_id", "current_step", "total_steps",
      "progress_percentage", "last_progress_message", "status",
      "processing_steps", "metadata", "error_details", "started_at",
      "completed_at", "failed_at"} \cup Stamps]

EventTables == Joined(TemplateTables, SessionTables)

EventReferences ==
  {Reference("provider_templates", "provider_id", "providers", "CASCADE"),
   Reference("provider_plans", "provider_id", "providers", "CASCADE"),
   Reference("provider_verification_sessions", "verification_id", "verifications", "CASCADE"),
   Reference("provider_verification_sessions", "provider_id", "providers", "CASCADE"),
   Reference("provider_verification_sessions", "template_id", "provider_templates", "SET_NULL"),
   Reference("verifications", "template_id", "provider_templates", "SET_NULL")}

EventColumns ==
  [verifications |-> {"template_id", "processing_mode", "is_multi_step",
                      "verification_method", "job_id", "webhook_url"},
   providers |-> {"supports_templates", "supports_id_verification",
                  "supports_async", "processing_mode"}]

-----------------------------------------------------------------------------
(* What the code names: a repository selects every column of its entity.   *)

Need(table, columns) == [table |-> table, columns |-> columns]

TenantEntity == Need("tenants",
  {"id", "name", "status", "email", "password", "settings"} \cup Stamps)

TenantApiKeyEntity == Need("tenant_api_keys",
  {"id", "tenant_id", "name", "key_hash", "preview_suffix", "key_encrypted",
   "key_iv", "status", "expires_at", "last_used_at"} \cup Stamps)

TenantRefreshTokenEntity == Need("tenant_refresh_tokens", TokenRow \cup {"tenant_id"})

AdminEntity == Need("admins",
  {"id", "name", "email", "password", "role", "status", "last_login_at"} \cup Stamps)

AdminApiKeyEntity == Need("admin_api_keys", KeyRow \cup {"admin_id"})

AdminRefreshTokenEntity == Need("admin_refresh_tokens", TokenRow \cup {"admin_id"})

AccountEntity == Need("accounts",
  {"id", "tenant_id", "reference_id", "name", "email", "phone", "birthdate",
   "address"} \cup Stamps)

VerificationEntity == Need("verifications",
  {"id", "tenant_id", "account_id", "provider_id", "provider_config_id",
   "provider_verification_id", "verification_type", "status",
   "verification_link", "callback_url", "expires_at", "result",
   "request_metadata", "response_metadata", "error_details", "completed_at"}
  \cup Stamps)

ProviderTemplateEntity == Need("provider_templates",
  {"id", "provider_id", "external_template_id", "name", "description",
   "category", "steps", "step_count", "is_active", "metadata"} \cup Stamps)

ProviderPlanEntity == Need("provider_plans",
  {"id", "provider_id", "plan_code", "plan_name", "category", "description",
   "pricing", "features", "is_active", "processing_time_seconds", "metadata"}
  \cup Stamps)

ProviderVerificationSessionEntity == Need("provider_verification_sessions",
  {"id", "verification_id", "provider_id", "template_id",
   "provider_session_id", "current_step", "total_steps",
   "progress_percentage", "last_progress_message", "status",
   "processing_steps", "metadata", "error_details", "started_at",
   "completed_at", "failed_at"} \cup Stamps)

EntityNeeds ==
  {TenantEntity, TenantApiKeyEntity, TenantRefreshTokenEntity, AdminEntity,
   AdminApiKeyEntity, AdminRefreshTokenEntity, AccountEntity,
   VerificationEntity, ProviderTemplateEntity, ProviderPlanEntity,
   ProviderVerificationSessionEntity}

\* The join that finds a tenant's provider, for a verification and for a list.
ConfigStatements ==
  {Need("tenant_provider_configs", {"id", "tenant_id", "config", "priority",
                                    "provider_id", "is_enabled"} \cup Stamps),
   Need("providers", {"id", "name", "type"})}

InsertVerification == Need("verifications",
  {"id", "tenant_id", "account_id", "provider_id", "provider_config_id",
   "provider_verification_id", "verification_type", "status", "expires_at",
   "result", "response_metadata", "request_metadata"} \cup Stamps)

SelectVerification == Need("verifications",
  {"id", "tenant_id", "account_id", "provider_id", "provider_config_id",
   "provider_verification_id", "verification_type", "status", "result",
   "response_metadata", "request_metadata"} \cup Stamps)

\* Cancelling, and linking to an account.
UpdateVerification == Need("verifications", {"id", "status", "account_id", "updated_at"})

\* What a poll writes: no migration creates result_data or confidence_score.
UpdateVerificationStatus == Need("verifications",
  {"id", "status", "result_data", "confidence_score", "updated_at"})

StatementNeeds ==
  ConfigStatements \cup
  {InsertVerification, SelectVerification, UpdateVerification, UpdateVerificationStatus}

\* InitialDataSeeder saves entities of the schema before this one.
LegacySeederTables == {"provider_credentials", "clients", "client_provider_configs"}

Served(tables, need) ==
  need.table \in DOMAIN tables /\ need.columns \subseteq tables[need.table]
=============================================================================
