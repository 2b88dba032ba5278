---------------------------- MODULE Repositories ----------------------------
(***************************************************************************)
(* The repositories of marty_common/infrastructure/repositories.py, each   *)
(* on one row of its table.  A session loads the row, changes its copy,    *)
(* and the unit of work flushes at commit; other sessions may commit in    *)
(* between (the engine runs at the default isolation, READ COMMITTED).     *)
(*                                                                         *)
(* SQLAlchemy and the database are external: a flush writes the columns    *)
(* whose value differs from the loaded one, plus those given to an UPDATE  *)
(* statement or to flag_modified; inserting a second row with the same key *)
(* fails.  Columns that no property tells apart are left out.  A keyword   *)
(* `metadata=` does not reach the column extra_metadata of the SD-JWT and  *)
(* OIDC tables, so that column stays NULL and the code that strips the     *)
(* pre-authorized code from it has nothing to do.                          *)
(***************************************************************************)
EXTENDS Integers

CONSTANTS
    Sessions,
    MaxVersion      \* bound on trust_entities.version

VARIABLES
    table,      \* the table the sessions work on
    row,        \* its row as committed
    session     \* what each session has loaded and is about to do

vars == <<table, row, session>>

Absent == [present |-> FALSE]
Idle == [op |-> "none", copy |-> Absent]

\* New rows, with the defaults of models.py.
TrustEntity == [present |-> TRUE, version |-> 1, trusted |-> TRUE]
CertificateRecord == [present |-> TRUE, pem |-> 0, revoked |-> FALSE, details |-> "none"]
PassportRecord ==
    [present |-> TRUE, status |-> "ISSUED", signature |-> FALSE, details |-> "none"]
DigitalTravelCredentialRecord == [present |-> TRUE, status |-> "ACTIVE"]
MobileDrivingLicenseRecord ==
    [present |-> TRUE, status |-> "PENDING_SIGNATURE", signature |-> FALSE,
     details |-> "none", policies |-> FALSE]
Oidc4VciSessionRecord == [present |-> TRUE, status |-> "OFFER_CREATED", token |-> 0]
CredentialLedgerEntry == [present |-> TRUE, status |-> "ISSUED", offset |-> 1]
SdJwtCredentialRecord == [present |-> TRUE, status |-> "ISSUED"]

NewRow ==
    [trust_entities |-> TrustEntity, certificates |-> CertificateRecord,
     passports |-> PassportRecord,
     digital_travel_credentials |-> DigitalTravelCredentialRecord,
     mobile_driving_licenses |-> MobileDrivingLicenseRecord,
     oidc4vci_sessions |-> Oidc4VciSessionRecord,
     credential_ledger |-> CredentialLedgerEntry,
     sd_jwt_credentials |-> SdJwtCredentialRecord]
Tables == DOMAIN NewRow

Ops ==
    [trust_entities |-> {"trust", "distrust"},
     certificates |-> {"upsert", "upsert_details", "mark_revoked"},
     passports |-> {"upsert", "update_status", "update_signature"},
     digital_travel_credentials |-> {"create", "mark_revoked"},
     mobile_driving_licenses |->
        {"create", "update_status", "update_signature", "set_disclosure_policies",
         "mark_revoked"},
     oidc4vci_sessions |-> {"create", "attach_1", "attach_2", "mark_issued"},
     credential_ledger |-> {"event_1", "event_2"},
     sd_jwt_credentials |-> {"create", "update_status"}]

TypeOK ==
    /\ table \in Tables
    /\ row.present => DOMAIN row = DOMAIN NewRow[table]
    /\ \A s \in Sessions : session[s].op \in Ops[table] \cup {"none"}

Init ==
    /\ table \in Tables
    /\ row = Absent
    /\ session = [s \in Sessions |-> Idle]

-----------------------------------------------------------------------------
(* What an operation makes of the copy it loaded                           *)

Inserts == {"trust", "distrust", "upsert", "upsert_details", "create", "event_1", "event_2"}

Trusted(r, op) == [r EXCEPT !.trusted = (op = "trust"), !.version = @ + 1]

\* issuer and subject are replaced like pem; details only when given.
Certificate(r, op) ==
    CASE op = "upsert" -> [r EXCEPT !.pem = 1 - @]
      [] op = "upsert_details" -> [r EXCEPT !.pem = 1 - @, !.details = "given"]
      [] op = "mark_revoked" -> [r EXCEPT !.revoked = TRUE, !.details = "reason"]

Passport(r, op) ==
    CASE op = "upsert" -> [r EXCEPT !.status = "ISSUED", !.signature = FALSE, !.details = "given"]
      [] op = "update_status" -> [r EXCEPT !.status = "REVOKED"]
      [] op = "update_signature" -> [r EXCEPT !.signature = TRUE, !.details = "signature_info"]

TravelCredential(r, op) == [r EXCEPT !.status = "REVOKED"]

DrivingLicense(r, op) ==
    CASE op = "update_status" -> [r EXCEPT !.status = "ACTIVE"]
      [] op = "update_signature" -> [r EXCEPT !.signature = TRUE, !.details = "signature_info"]
      [] op = "set_disclosure_policies" -> [r EXCEPT !.policies = ~@]
      [] op = "mark_revoked" -> [r EXCEPT !.status = "REVOKED"]

OidcSession(r, op) ==
    CASE op = "attach_1" -> [r EXCEPT !.token = 1, !.status = "TOKEN_ISSUED"]
      [] op = "attach_2" -> [r EXCEPT !.token = 2, !.status = "TOKEN_ISSUED"]
      [] op = "mark_issued" -> [r EXCEPT !.status = "VC_ISSUED"]

\* Status and offset of the event, whichever offset the entry has.
LedgerEntry(r, op) ==
    IF op = "event_2" THEN [r EXCEPT !.status = "REVOKED", !.offset = 2]
    ELSE [r EXCEPT !.status = "ISSUED", !.offset = 1]

\* The UPDATE names a column the table does not have and is refused.
SdJwtCredential(r, op) == r

Changed(r, op) ==
    CASE table = "trust_entities" -> Trusted(r, op)
      [] table = "certificates" -> Certificate(r, op)
      [] table = "passports" -> Passport(r, op)
      [] table = "digital_travel_credentials" -> TravelCredential(r, op)
      [] table = "mobile_driving_licenses" -> DrivingLicense(r, op)
      [] table = "oidc4vci_sessions" -> OidcSession(r, op)
      [] table = "credential_ledger" -> LedgerEntry(r, op)
      [] table = "sd_jwt_credentials" -> SdJwtCredential(r, op)

\* Columns in the values() of an UPDATE or named by flag_modified.
Forced(op) ==
    CASE op = "mark_revoked" -> {"revoked", "status"} \cup
                                (IF table = "certificates" THEN {"details"} ELSE {})
      [] op = "update_status" -> {"status"}     \* passports, driving licenses
      [] op = "update_signature" -> {"details"}
      [] op = "set_disclosure_policies" -> {"policies"}
      [] op = "upsert" -> IF table = "passports" THEN {"details"} ELSE {}
      [] OTHER -> {}

-----------------------------------------------------------------------------
(* Sessions                                                                *)

\* Mutant: a session is found for issuing whether or not it has a token.
Found_WithoutToken(op) == TRUE

\* get_by_access_token finds only rows that have a token.
Found(op) == op = "mark_issued" /\ table = "oidc4vci_sessions" => row.present /\ row.token # 0

Load(s, op) ==
    /\ session[s] = Idle
    /\ Found(op)
    /\ session' = [session EXCEPT ![s] = [op |-> op, copy |-> row]]
    /\ UNCHANGED <<table, row>>

\* Mutant: every column is written back.
Flushed_All(copy, op) == Changed(copy, op)

\* The columns that differ from the loaded copy, or are forced, are written.
Flushed(copy, op) ==
    LET new == Changed(copy, op) IN
    [c \in DOMAIN row |-> IF new[c] # copy[c] \/ c \in Forced(op) THEN new[c] ELSE row[c]]

Done(s) == session' = [session EXCEPT ![s] = Idle]

Inserted(op) ==
    CASE op = "distrust" -> [NewRow[table] EXCEPT !.trusted = FALSE]
      [] op = "event_2" -> LedgerEntry(NewRow[table], op)
      [] OTHER -> NewRow[table]

\* The row did not exist when it was looked up.
CommitInsert(s) ==
    /\ session[s].op \in Inserts
    /\ session[s].copy = Absent \/ session[s].op = "create"
    /\ row' = IF row.present THEN row       \* unique key: the insert fails
              ELSE Inserted(session[s].op)
    /\ Done(s)
    /\ UNCHANGED table

CommitUpdate(s) ==
    /\ session[s].op \notin {"none", "create"}
    /\ session[s].copy.present
    /\ table = "trust_entities" => session[s].copy.version < MaxVersion
    /\ row' = Flushed(session[s].copy, session[s].op)
    /\ Done(s)
    /\ UNCHANGED table

\* The row to change is not there; or the session is rolled back.
Abandon(s) ==
    /\ session[s].op # "none"
    /\ Done(s)
    /\ UNCHANGED <<table, row>>

Next ==
    \E s \in Sessions :
        \/ \E op \in Ops[table] : Load(s, op)
        \/ CommitInsert(s) \/ CommitUpdate(s) \/ Abandon(s)

Spec == Init /\ [][Next]_vars

-----------------------------------------------------------------------------
Revoked(r) ==
    /\ r.present
    /\ \/ table = "certificates" /\ r.revoked
       \/ table \notin {"certificates", "trust_entities"} /\ r.status = "REVOKED"

SetsStatus(op) == op \in {"update_status", "event_1"} \/ (op = "upsert" /\ table = "passports")

RevocationSurvives_Step ==
    Revoked(row) /\ ~Revoked(row') =>
       \E s \in Sessions : SetsStatus(session[s].op) /\ session'[s] = Idle

(***************************************************************************)
(* A revocation is undone only by an operation that is itself asked to set *)
(* the status (update_status, upsert of a passport, a ledger event): no    *)
(* session that loaded the row before it was revoked and writes a          *)
(* signature, policies, details or a new certificate over it clears it.    *)
(***************************************************************************)
RevocationSurvives == [][RevocationSurvives_Step]_vars

(***************************************************************************)
(* However redemptions of an offer and the issuance race, the status and   *)
(* the token of an OIDC session agree: it has left OFFER_CREATED exactly   *)
(* when an access token is stored.                                         *)
(***************************************************************************)
IssuedHasToken ==
    table = "oidc4vci_sessions" /\ row.present =>
        (row.status # "OFFER_CREATED" <=> row.token # 0)
=============================================================================
