---------------------------- MODULE Migrations ----------------------------
(***************************************************************************)
(* The fifteen schema migrations of                                        *)
(* digital_identity/infrastructure/persistence/migrations: what each one   *)
(* adds, what its downgrade takes back, which database can run it, and the *)
(* data that 009, 010 and 015 convert. A database starts empty of them, or *)
(* is created from the models and stamped with a revision. The tables that *)
(* no migration creates are taken to exist.                                *)
(***************************************************************************)
EXTENDS Naturals, Sequences, FiniteSets

CONSTANT
    Stamps          \* the levels a database may be stamped with

VARIABLES
    dialect,        \* "postgresql" or "sqlite"
    started,        \* the level the database was stamped with
    level,          \* the last migration applied
    schema,         \* tables, columns, constraints, indexes and seed rows in place
    holder,         \* holder_binding of a presentation policy
    wanted,         \* the application required holder binding when it last wrote it
    bare,           \* 009 has reverted a required binding that names no method
    posture,        \* privacy_posture of a credential template
    framework       \* the OB3 trust framework: "none", "system" or "other" id

vars == <<dialect, started, level, schema, holder, wanted, bare, posture, framework>>

-----------------------------------------------------------------------------
(* What each upgrade adds                                                  *)

Of(table, names) == {<<table, name>> : name \in names}

Added001 ==
    Of("table", {"trust_profiles", "credential_templates", "presentation_policies",
                 "deployment_profiles", "flows", "flow_executions"})
    \union Of("index", {"flow_executions_flow_status", "credential_templates_trust_profile",
                        "presentation_policies_trust_profile"})
Added002 ==
    Of("trust_profile", {"organization_id", "display_name", "use_case_tags", "auto_generated",
                         "compliance_status", "manually_configured"})
    \union Of("constraint", {"compliance_status_check", "org_name_unique"})
    \union Of("index", {"org_type_unique", "organization_id", "compliance_status", "use_case_tags"})
Added003 ==
    Of("constraint", {"anchors_framework_fkey", "profiles_organization_fkey",
                      "profiles_framework_fkey", "legacy_organization_fkey"})
Added004 ==
    Of("di_presentation_policies", {"allowed_issuers", "derived_attribute_preferences",
                                    "credential_ranking_strategy", "credential_ranking_weights"})
Added005 ==
    Of("table", {"revocation_batches"})
    \union Of("index", {"batches_org", "batches_template", "batches_status", "batches_scheduled"})
\* 006 up to the first foreign key, and the rest of it
Added006Start ==
    Of("di_credential_templates", {"status", "compliance_profile_id"})
    \union Of("index", {"templates_status"})
Added006 ==
    Added006Start
    \union Of("type", {"publishstatus"})
    \union Of("di_credential_templates", {"application_template_id", "issuer_certificate_chain_pem",
                                          "issuer_did"})
    \union Of("di_flows", {"issuance_protocol"})
    \union Of("constraint", {"templates_compliance_profile", "templates_application_template"})
    \union Of("index", {"templates_compliance_profile_id", "templates_application_template_id",
                        "flows_issuance_protocol"})
Seeds007 == Of("di_compliance_profiles row", {"the 13 system profiles"})
Added007 ==
    Of("di_compliance_profiles", {"issuance_protocol"})
    \union Of("index", {"profiles_issuance_protocol"}) \union Seeds007
Added008 ==
    Of("di_credential_templates", {"organization_id", "issuer_key_id", "issuer_algorithm",
        "key_access_mode", "revocation_profile_id", "privacy_posture", "auto_generate_artifacts"})
    \union Of("di_trust_profiles", {"revocation_profile_id"})
    \union Of("di_presentation_policies", {"fallback_policy", "supported_circuits"})
    \union Of("di_deployment_profiles", {"organization_id", "lanes"})
    \union Of("di_application_templates", {"organization_id", "form_fields",
        "claim_collection_rules", "notifications", "ui_config"})
    \union Of("di_cascade_operations", {"organization_id"})
    \union Of("index", {"ct_organization_id", "ct_revocation_profile_id",
        "tp_revocation_profile_id", "dp_organization_id", "at_organization_id", "co_organization_id"})
Added009 ==
    Of("di_credential_templates", {"vct"}) \union Of("di_application_templates", {"status"})
Added010 == Of("table", {"revocation_profiles", "verification_sessions"})
Added011 ==
    Of("di_issued_credentials", {"organization_id"}) \union Of("index", {"di_issued_creds_org_id"})
    \union Of("di_application_templates", {"nullable references"})
    \union Of("di_trust_profiles", {"supported_formats"})
    \union Of("di_trust_profile_issuers", {"id"})
Added012 ==
    Of("di_trust_profile_issuers", {"version"})
    \union Of("organization_custom_anchors", {"updated_at", "version"})
Seeds013 == Of("trust_frameworks row", {"the system frameworks"})
Added014 ==
    Of("trust_framework_anchors", {"issuer_did", "issuer_jwk", "nullable certificate"})
    \union Of("index", {"anchors_issuer_did"}) \union Of("trust_framework_anchors row", {"ob3"})

Added == <<Added001, Added002, Added003, Added004, Added005, Added006, Added007, Added008,
           Added009, Added010, Added011, Added012, Seeds013, Added014, {}>>
LastRevision == Len(Added)

\* Seeds are upserted, and the enumeration type is created with checkfirst.
Upserted == Seeds007 \union Seeds013 \union Of("type", {"publishstatus"})

-----------------------------------------------------------------------------
(* What each downgrade removes: all that was added, but for the seeds of 007 *)

Removed001 == Added001
Removed002 == Added002
Removed003 == Added003
Removed004 == Added004
Removed005 == Added005
Removed006 == Added006
Removed007 == Added007 \ Seeds007
Removed008_ForgetsIndex == Added008 \ Of("index", {"ct_organization_id"})
Removed008 == Added008
Removed009 == Added009
Removed010 == Added010
Removed011 == Added011
Removed012 == Added012
Removed013 == Seeds013
Removed014 == Added014

Removed == <<Removed001, Removed002, Removed003, Removed004, Removed005, Removed006, Removed007,
             Removed008, Removed009, Removed010, Removed011, Removed012, Removed013, Removed014, {}>>

NameKey == Of("constraint", {"trust_profile_name_key"})

\* 002 restores a unique name whether or not there was one before.
Upgraded(n) == IF n = 2 THEN schema \ NameKey ELSE schema
Reverted(n) == IF n = 2 THEN NameKey ELSE {}

-----------------------------------------------------------------------------
(* Converted data                                                          *)

Legacy(s) == [legacy |-> s]
Binding(required, methods) == [required |-> required, methods |-> methods]
LegacyValues ==
    {Legacy(s) : s \in {"NULL", "NONE", "NONCE", "BIOMETRIC", "DEVICE_KEY", "SESSION_BINDING"}}
MethodLists == {<<>>} \union {<<m>> : m \in {"NONCE", "BIOMETRIC", "DEVICE_KEY", "SESSION_BINDING"}}
               \union {<<"NONCE", "BIOMETRIC">>, <<"DEVICE_KEY", "SESSION_BINDING">>,
                      <<"SESSION_BINDING", "DEVICE_KEY">>, <<"DEVICE_KEY", "NONCE">>,
                      <<"NONCE", "DEVICE_KEY">>}
Bindings == {Binding(r, m) : r \in BOOLEAN, m \in MethodLists}

IsRequired(h) ==
    IF h \in LegacyValues THEN h \notin {Legacy("NULL"), Legacy("NONE")} ELSE h.required

upgrade_009(h) ==
    CASE h = Legacy("NONE") -> Binding(FALSE, <<>>)
      [] h = Legacy("NULL") -> Binding(FALSE, <<"NONCE">>)
      [] OTHER -> Binding(TRUE, <<h.legacy>>)

downgrade_009(h) ==
    Legacy(IF h.required /\ h.methods # <<>> THEN h.methods[1] ELSE "NONE")

mapped(m) == CASE m = "NONCE" -> "SESSION_BINDING" [] m = "BIOMETRIC" -> "DEVICE_KEY" [] OTHER -> m

canonical_NeedsMethod(h) ==
    IF h.required /\ h.methods # <<>> THEN Binding(TRUE, <<mapped(h.methods[1])>>)
    ELSE Binding(FALSE, <<>>)

\* Methods are renamed and listed once; a required binding without one gets DEVICE_KEY.
canonical(h) ==
    IF ~h.required THEN Binding(FALSE, <<>>)
    ELSE LET ms == [i \in 1 .. Len(h.methods) |-> mapped(h.methods[i])]
         IN  Binding(TRUE, CASE ms = <<>> -> <<"DEVICE_KEY">>
                             [] Len(ms) = 2 /\ ms[1] = ms[2] -> <<ms[1]>>
                             [] OTHER -> ms)

downgrade_015(h) ==
    Binding(h.required, [i \in 1 .. Len(h.methods) |->
                            IF h.methods[i] = "SESSION_BINDING" THEN "NONCE" ELSE h.methods[i]])

\* privacy_posture: a string below 010, from then on an object with default_disclose_all.
upgrade_010(p) == IF p = "full_disclosure" THEN "all" ELSE "selective"
downgrade_010(p) == IF p = "all" THEN "full_disclosure" ELSE "selective_disclosure"

Converted(n) ==
    holder' = CASE n = 9 -> upgrade_009(holder) [] n = 15 -> canonical(holder) [] OTHER -> holder
ConvertedBack(n) ==
    holder' = CASE n = 9 -> downgrade_009(holder) [] n = 15 -> downgrade_015(holder)
                [] OTHER -> holder

-----------------------------------------------------------------------------
TypeOK ==
    /\ dialect \in {"postgresql", "sqlite"}
    /\ {started, level} \subseteq 0 .. LastRevision
    /\ schema \subseteq UNION {Added[n] : n \in 1 .. LastRevision} \union NameKey
    /\ IF level < 9 THEN holder \in LegacyValues ELSE holder \in Bindings
    /\ wanted \in BOOLEAN /\ bare \in BOOLEAN
    /\ posture \in {"full_disclosure", "selective_disclosure", "all", "selective"}
    /\ framework \in {"none", "system", "other"}

\* Created from the models: everything up to the stamped level is there.
Init ==
    /\ dialect \in {"postgresql", "sqlite"}
    /\ started \in Stamps
    /\ level = started
    /\ schema = UNION {Added[n] : n \in 1 .. started}
    /\ holder = IF started < 9 THEN Legacy("NONE") ELSE Binding(FALSE, <<>>)
    /\ wanted = FALSE /\ bare = FALSE
    /\ posture = IF started < 10 THEN "selective_disclosure" ELSE "selective"
    /\ framework \in IF started < 13 THEN {"none", "other"} ELSE {"system"}

\* The application writes a policy, in the form of the current schema.
WritePolicy ==
    /\ holder' \in IF level < 9 THEN LegacyValues ELSE {h \in Bindings : level = LastRevision => canonical(h) = h}
    /\ wanted' = IsRequired(holder')
    /\ bare' = FALSE
    /\ UNCHANGED <<dialect, started, level, schema, posture, framework>>

WriteTemplate ==
    /\ posture' \in IF level < 10 THEN {"full_disclosure", "selective_disclosure"} ELSE {"all", "selective"}
    /\ UNCHANGED <<dialect, started, level, schema, holder, wanted, bare, framework>>

\* 001 to 003 are written for PostgreSQL (JSONB, several ADD COLUMN in a statement, ADD
\* CONSTRAINT), and 006 adds a foreign key outside of batch mode; 011 fills in ids with
\* randomblob, which only SQLite has.
Runs(n, d) == IF d = "postgresql" THEN n # 11 ELSE n \in {4, 5} \union 7 .. LastRevision

\* The anchor that 014 inserts refers to the framework seeded by 013, which keeps the id
\* of an OB3 row that is there already.
Refers(n) == n = 14 /\ Of("constraint", {"anchors_framework_fkey"}) \subseteq schema

upgrade(n) ==
    /\ n = level + 1 /\ n <= LastRevision
    /\ Runs(n, dialect)
    /\ (Added[n] \ Upserted) \cap schema = {}
    /\ Refers(n) => framework = "system"
    /\ schema' = Upgraded(n) \union Added[n]
    /\ level' = n
    /\ Converted(n)
    /\ posture' = IF n = 10 THEN upgrade_010(posture) ELSE posture
    /\ framework' = IF n = 13 /\ framework = "none" THEN "system" ELSE framework
    /\ UNCHANGED <<dialect, started, wanted, bare>>

\* 006 on SQLite, where DDL is not transactional: it stops at the foreign key.
upgrade_006_partial ==
    /\ level = 5 /\ dialect = "sqlite"
    /\ Added006Start \cap schema = {}
    /\ schema' = schema \union Added006Start
    /\ UNCHANGED <<dialect, started, level, holder, wanted, bare, posture, framework>>

\* 002 and 006 drop their indexes before the constraint that SQLite cannot drop.
downgrade_partial ==
    /\ dialect = "sqlite" /\ level \in {2, 6}
    /\ LET indexes == {x \in Added[level] : x[1] = "index"}
       IN  indexes \subseteq schema /\ schema' = schema \ indexes
    /\ UNCHANGED <<dialect, started, level, holder, wanted, bare, posture, framework>>

\* A downgrade runs where its statements do; 013 removes the rows that are system rows.
downgrade(n) ==
    /\ n = level /\ n >= 1
    /\ dialect = "postgresql" \/ n \notin {2, 3, 6}
    /\ (Added[n] \ Upserted) \subseteq schema
    /\ schema' = (schema \ Removed[n]) \union Reverted(n)
    /\ level' = n - 1
    /\ ConvertedBack(n)
    /\ posture' = IF n = 10 THEN downgrade_010(posture) ELSE posture
    /\ framework' = IF n = 13 /\ framework = "system" THEN "none" ELSE framework
    /\ bare' = (bare \/ (n = 9 /\ holder.required /\ holder.methods = <<>>))
    /\ UNCHANGED <<dialect, started, wanted>>

Next ==
    \/ \E n \in 1 .. LastRevision : upgrade(n) \/ downgrade(n)
    \/ upgrade_006_partial \/ downgrade_partial
    \/ WritePolicy \/ WriteTemplate

Spec == Init /\ [][Next]_vars

-----------------------------------------------------------------------------
\* On PostgreSQL a migration that has been reverted can be applied again: nothing that
\* its upgrade creates is still there.
ReUpgradeable ==
    dialect = "postgresql" =>
        \A n \in level + 1 .. LastRevision : (Added[n] \ Upserted) \cap schema = {}

\* Whether a policy requires holder binding survives every sequence of upgrades and
\* downgrades, unless 009 is reverted while it is required and no method is named.
BindingSurvives == bare \/ IsRequired(holder) = wanted
=============================================================================
