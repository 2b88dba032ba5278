----------------------------- MODULE KeyCustody -----------------------------
(***************************************************************************)
(* Who may hold a signing key, the vault that holds it and the session     *)
(* with the certificate authority: three components that share no state,   *)
(* one section each, with its own Init and Next.                           *)
(***************************************************************************)
EXTENDS Naturals, Sequences, FiniteSets

-----------------------------------------------------------------------------
(***************************************************************************)
(* marty_common/crypto/role_separation.py: the policy of every role, the   *)
(* checks of RoleSeparationEnforcer and the cred: namespace of key ids.    *)
(* The enforcer judges one operation at a time and keeps no state; the     *)
(* module follows one key, and who holds a copy of it, through any number  *)
(* of operations that pass the checks.                                     *)
(***************************************************************************)
VARIABLES
    roleKey,        \* the KeyIdentity: its role, its purpose and the key id it was given
    holders,        \* roles that hold the key material
    signers,        \* roles that signed with it
    accepted        \* key ids the namespace check accepted

roleVars == <<roleKey, holders, signers, accepted>>

\* The purposes of the policy of each role. The policies also have a security level, a
\* lifetime and an audit flag, which no check reads, and can_cross_boundaries, which is
\* False in all of them.
ROLE_POLICIES ==
    [csca |-> {"certificate_signing"},
     dsc |-> {"document_signing", "vds_nc_signing"},
     reader |-> {"signature_verification", "certificate_validation"},
     verifier |-> {"signature_verification", "certificate_validation"},
     wallet |-> {"device_binding", "session_establishment"},
     holder |-> {"ephemeral_communication", "session_establishment"},
     audit |-> {"audit_logging"},
     evidence |-> {"evidence_signing"}]

CryptoRole == DOMAIN ROLE_POLICIES
KeyPurpose == UNION {ROLE_POLICIES[r] : r \in CryptoRole}
can_cross_boundaries == [r \in CryptoRole |-> FALSE]

is_compatible_purpose(role, purpose) == purpose \in ROLE_POLICIES[role]

\* An id as its parts between colons. make_credential_key_id puts the prefix first.
make_credential_key_id(type) == <<"cred", type, "1">>
is_credential_key(id) == id[1] = "cred"

\* The types that credential_key_to_role has a role for.
KeyTypes == {"issuer", "csca", "vdsnc", "holder", "wallet", "evidence", "audit"}

full_key_id_Namespaced(k) == <<"cred", k.role, k.purpose>> \o k.id

\* role, purpose and key id, in this order.
full_key_id(k) == <<k.role, k.purpose>> \o k.id

\* KeyIdentity refuses a purpose outside the policy of the role and looks at nothing else.
\* The factories leave the namespace out of the key id; a caller may put in any.
KeyIdentity ==
    {k \in [role : CryptoRole, purpose : KeyPurpose,
            id : {<<"1">>} \union {make_credential_key_id(t) : t \in KeyTypes}] :
        is_compatible_purpose(k.role, k.purpose)}

RoleTypeOK ==
    /\ roleKey \in KeyIdentity
    /\ holders \subseteq CryptoRole /\ signers \subseteq CryptoRole
    /\ accepted \subseteq {full_key_id(roleKey), roleKey.id}

RoleInit ==
    /\ roleKey \in KeyIdentity
    /\ holders = {roleKey.role}
    /\ signers = {} /\ accepted = {}

validate_key_operation_NoBoundary(k, operation, requesting) ==
    ~(operation = "sign" /\ k.role \in {"reader", "verifier"})

\* TRUE when the operation is not refused.
validate_key_operation(k, operation, requesting) ==
    /\ k.role = requesting \/ can_cross_boundaries[k.role]
    /\ ~(operation = "sign" /\ k.role \in {"reader", "verifier"})

validate_key_sharing_WalletUnchecked(source, target, purpose) ==
    ~(/\ source \in {"csca", "dsc"}
      /\ purpose \in {"certificate_signing", "document_signing"})

\* TRUE when sharing is not refused. Of the issuing purposes only two are named, and of
\* the other roles only wallet and holder.
validate_key_sharing(source, target, purpose) ==
    /\ ~(/\ source \in {"csca", "dsc"}
         /\ purpose \in {"certificate_signing", "document_signing"})
    /\ \/ purpose \in {"signature_verification", "certificate_validation"}
       \/ ~(source \in {"wallet", "holder"} /\ target \notin {"wallet", "holder"})

Sign(role) ==
    /\ role \in holders
    /\ validate_key_operation(roleKey, "sign", role)
    /\ signers' = signers \union {role}
    /\ UNCHANGED <<roleKey, holders, accepted>>

Share(source, target) ==
    /\ source \in holders
    /\ validate_key_sharing(source, target, roleKey.purpose)
    /\ holders' = holders \union {target}
    /\ UNCHANGED <<roleKey, signers, accepted>>

\* A credential operation is asked for under an id.
validate_credential_key_namespace(id) ==
    /\ is_credential_key(id)
    /\ accepted' = accepted \union {id}
    /\ UNCHANGED <<roleKey, holders, signers>>

RoleNext ==
    \/ \E r \in CryptoRole : Sign(r)
    \/ \E s, t \in CryptoRole : Share(s, t)
    \/ \E id \in {full_key_id(roleKey), roleKey.id} : validate_credential_key_namespace(id)

RoleSpec == RoleInit /\ [][RoleNext]_roleVars

\* However a key is passed on, one hop at a time, certificate and document signing keys
\* stay with the role that made them, and keys of wallets and holders with those two;
\* every other private key, VDS-NC signing keys included, can reach the readers.
KeysStayInside ==
    /\ roleKey.purpose \in {"certificate_signing", "document_signing"} => holders = {roleKey.role}
    /\ roleKey.role \in {"wallet", "holder"} => holders \subseteq {"wallet", "holder"}

\* Copies do not sign: only the role the key was made for does, and a verification role
\* never.
OnlyOwnersSign == signers \subseteq {roleKey.role} \ {"reader", "verifier"}

\* "The cred:* namespace is enforced by this module for all credential operations": a key
\* is accepted under the id it was given and never under its full_key_id, which begins with
\* the role, also when the id itself is in the namespace.
FullIdsRefused == \A id \in accepted : id = roleKey.id

-----------------------------------------------------------------------------
(***************************************************************************)
(* HashiCorpKeyVaultClient (infrastructure/key_vault.py): coroutines share *)
(* a client of a Vault transit engine. ensure_key reads the key and, on    *)
(* any error of Vault, creates it; sign and public_material name the key   *)
(* and not its version. Every request runs in a worker thread, so another  *)
(* coroutine may run between two of them.                                  *)
(***************************************************************************)
CONSTANTS
    VaultCallers,   \* coroutines using the client
    MaxVersion,     \* rotations of a key, in the instance
    MaxFaults       \* requests that fail and tokens that lapse, in the instance

VARIABLES
    vaultKey,       \* the key in Vault: its type and latest version
    vaultToken,     \* the client's token is valid
    pc,             \* caller -> its operation and how far it got
    asked,          \* caller -> key type its ensure_key asks for, "none" in other operations
    signature,      \* caller -> version its last signature was made with, 0 before
    material,       \* caller -> version of the public key read after it, 0 before
    types,          \* key types asked of ensure_key so far
    rotated,        \* caller -> Vault rotated the key since its last signature
    faults

vaultVars == <<vaultKey, vaultToken, pc, asked, signature, material, types, rotated, faults>>

Absent == [type |-> "none", version |-> 0]
Types == {"rsa-2048", "ecdsa-p256"}
Algorithms == {"rsa", "ecdsa", "es512"}
Operations == {"ensure", "sign", "public"}

VaultTypeOK ==
    /\ vaultKey \in {Absent} \union [type : Types, version : 1 .. MaxVersion]
    /\ vaultToken \in BOOLEAN /\ rotated \in [VaultCallers -> BOOLEAN]
    /\ pc \in [VaultCallers -> {"idle", "missing"} \union Operations]
    /\ asked \in [VaultCallers -> Types \union {"none"}] /\ types \subseteq Types
    /\ signature \in [VaultCallers -> 0 .. MaxVersion] /\ material \in [VaultCallers -> 0 .. MaxVersion]
    /\ faults \in 0 .. MaxFaults

VaultInit ==
    /\ vaultKey = Absent /\ vaultToken = FALSE /\ rotated = [c \in VaultCallers |-> FALSE]
    /\ pc = [c \in VaultCallers |-> "idle"]
    /\ asked = [c \in VaultCallers |-> "none"] /\ types = {}
    /\ signature = [c \in VaultCallers |-> 0] /\ material = [c \in VaultCallers |-> 0]
    /\ faults = 0

\* key_type_map.get: an unknown algorithm is an ECDSA key.
KeyType(a) == IF a = "rsa" THEN "rsa-2048" ELSE "ecdsa-p256"

\* _ensure_authenticated, then the operation's own request.
EnsureAuthenticated(c, op, a) ==
    /\ pc[c] = "idle"
    /\ vaultToken' = TRUE
    /\ pc' = [pc EXCEPT ![c] = op]
    /\ asked' = [asked EXCEPT ![c] = IF op = "ensure" THEN KeyType(a) ELSE "none"]
    /\ types' = IF op = "ensure" THEN types \union {KeyType(a)} ELSE types
    /\ UNCHANGED <<vaultKey, signature, material, rotated, faults>>

\* The login fails: nothing is remembered of it.
VaultLoginFails(c) ==
    /\ pc[c] = "idle" /\ ~vaultToken /\ faults < MaxFaults
    /\ faults' = faults + 1
    /\ UNCHANGED <<vaultKey, vaultToken, pc, asked, signature, material, types, rotated>>

NotFound_OnlyLapsed == ~vaultToken

\* read_key answers with an error.
NotFound == vaultKey = Absent \/ ~vaultToken

\* read_key of ensure_key: found, or any VaultError, a lapsed token included.
ReadKey(c) ==
    /\ pc[c] = "ensure"
    /\ \/ /\ ~NotFound
          /\ pc' = [pc EXCEPT ![c] = "idle"]
          /\ UNCHANGED faults
       \/ /\ NotFound
          /\ pc' = [pc EXCEPT ![c] = "missing"]
          /\ UNCHANGED faults
       \/ /\ faults < MaxFaults
          /\ faults' = faults + 1
          /\ pc' = [pc EXCEPT ![c] = "missing"]
    /\ UNCHANGED <<vaultKey, vaultToken, asked, signature, material, types, rotated>>

Created_Replaces(c) == [type |-> asked[c], version |-> 1]

\* create_key of a key that exists changes nothing.
Created(c) == IF vaultKey = Absent THEN [type |-> asked[c], version |-> 1] ELSE vaultKey

\* create_key, whose own error reaches the caller.
CreateKey(c) ==
    /\ pc[c] = "missing"
    /\ vaultKey' = IF vaultToken THEN Created(c) ELSE vaultKey
    /\ pc' = [pc EXCEPT ![c] = "idle"]
    /\ asked' = IF vaultToken THEN asked ELSE [asked EXCEPT ![c] = "none"]
    /\ UNCHANGED <<vaultToken, signature, material, types, rotated, faults>>

SignedWith_First == IF vaultKey = Absent THEN 0 ELSE 1

\* sign_data uses the latest version, and the version is cut off the answer.
SignedWith == vaultKey.version

sign(c) ==
    /\ pc[c] = "sign" /\ vaultToken /\ vaultKey # Absent
    /\ signature' = [signature EXCEPT ![c] = SignedWith]
    /\ material' = [material EXCEPT ![c] = 0]
    /\ rotated' = [rotated EXCEPT ![c] = FALSE]
    /\ pc' = [pc EXCEPT ![c] = "idle"]
    /\ UNCHANGED <<vaultKey, vaultToken, asked, types, faults>>

public_material(c) ==
    /\ pc[c] = "public" /\ vaultToken /\ vaultKey # Absent
    /\ material' = [material EXCEPT ![c] = IF signature[c] # 0 THEN vaultKey.version ELSE 0]
    /\ pc' = [pc EXCEPT ![c] = "idle"]
    /\ UNCHANGED <<vaultKey, vaultToken, asked, signature, types, rotated, faults>>

\* Without a key, or with a lapsed token, the request raises.
Refused(c) ==
    /\ pc[c] \in {"sign", "public"} /\ (~vaultToken \/ vaultKey = Absent)
    /\ pc' = [pc EXCEPT ![c] = "idle"]
    /\ UNCHANGED <<vaultKey, vaultToken, asked, signature, material, types, rotated, faults>>

\* Vault's operators rotate the key; leases end.
Rotate ==
    /\ vaultKey # Absent /\ vaultKey.version < MaxVersion
    /\ vaultKey' = [vaultKey EXCEPT !.version = @ + 1]
    /\ rotated' = [c \in VaultCallers |-> signature[c] # 0]
    /\ UNCHANGED <<vaultToken, pc, asked, signature, material, types, faults>>

VaultLapse ==
    /\ vaultToken /\ faults < MaxFaults
    /\ vaultToken' = FALSE
    /\ faults' = faults + 1
    /\ UNCHANGED <<vaultKey, pc, asked, signature, material, types, rotated>>

VaultNext ==
    \/ \E c \in VaultCallers :
          \/ \E op \in Operations, a \in Algorithms : EnsureAuthenticated(c, op, a)
          \/ VaultLoginFails(c) \/ ReadKey(c) \/ CreateKey(c)
          \/ sign(c) \/ public_material(c) \/ Refused(c)
    \/ Rotate \/ VaultLapse

VaultSpec == VaultInit /\ [][VaultNext]_vaultVars

(* A caller whose ensure_key returned relies on a key of another type than *)
(* it asked for only if the other type was asked for too, before or at the *)
(* same time: an existing key is never compared with the request.          *)
MismatchNeedsTwoTypes ==
    \A c \in VaultCallers :
        pc[c] = "idle" /\ asked[c] # "none" => vaultKey # Absent /\ (vaultKey.type # asked[c] => types = Types)

FailedReadsReplaceNothing_Step ==
    vaultKey # Absent => vaultKey'.type = vaultKey.type /\ vaultKey'.version >= vaultKey.version

(* The type of a key never changes and its version never falls, although   *)
(* every failed read ends in a request to create the key.                  *)
FailedReadsReplaceNothing == [][FailedReadsReplaceNothing_Step]_vaultVars

(* The public key a caller reads after signing belongs to another version  *)
(* than its signature only if Vault rotated the key in between; neither    *)
(* answer says which version it is about.                                  *)
SplitNeedsRotation ==
    \A c \in VaultCallers :
        signature[c] # 0 /\ material[c] # 0 /\ signature[c] # material[c] => rotated[c]

-----------------------------------------------------------------------------
(***************************************************************************)
(* BaseOpenXPKIService of marty_common/services/base_openxpki_service.py:  *)
(* the handlers of a service share one session token of the OpenXPKI       *)
(* server without a lock. A request reads the token twice (is there one,   *)
(* and what goes into the header), and a 401 throws away whatever token is *)
(* stored by then, logs in again and repeats the request once.             *)
(***************************************************************************)
CONSTANTS
    XpkiCallers,    \* handlers that use the service object
    MaxTokens       \* sessions the server opens, the bound of the model

VARIABLES
    service,        \* "ready", or "refused" by the constructor
    xpkiToken,      \* session_token, 0 for None
    fresh,          \* now < session_expiry
    valid,          \* the server: the sessions it honours
    opened,         \* the server: how many it has opened
    call            \* the request of each caller

xpkiVars == <<service, xpkiToken, fresh, valid, opened, call>>

Idle == [pc |-> "idle", round |-> 1, answer |-> "none", performed |-> 0, trouble |-> FALSE,
         overlap |-> FALSE, result |-> "none"]

XpkiTypeOK ==
    /\ service \in {"ready", "refused"}
    /\ xpkiToken \in 0 .. MaxTokens /\ opened \in 0 .. MaxTokens /\ valid \subseteq 1 .. opened
    /\ fresh \in BOOLEAN
    /\ call \in [XpkiCallers -> [pc : {"idle", "auth", "login", "stamp", "send", "sent", "done"},
                                 round : 1 .. 2, answer : {"none", "200", "401", "500", "raised"},
                                 performed : 0 .. 2, trouble : BOOLEAN, overlap : BOOLEAN,
                                 result : {"none", "operational", "auth", "request", "exception"}]]

\* _resolve_secret: the variable itself, else the stripped content of the file it names;
\* empty when the file is missing, unreadable or blank.
resolve_secret(source) == source.direct \/ source.file = "text"
Sources == [direct : BOOLEAN, file : {"unset", "missing", "blank", "text"}]

XpkiInit ==
    /\ \E username, password \in Sources :
          service = IF resolve_secret(username) /\ resolve_secret(password)
                    THEN "ready" ELSE "refused"
    /\ xpkiToken = 0 /\ fresh = FALSE
    /\ valid = {} /\ opened = 0
    /\ call = [c \in XpkiCallers |-> Idle]

Running == {c \in XpkiCallers : call[c].pc \notin {"idle", "done"}}

\* The request of c goes on as r; every request that is under way meanwhile has overlapped.
Go(c, r) ==
    call' = [d \in XpkiCallers |->
                IF d = c THEN [r EXCEPT !.overlap = @ \/ Running \ {c} # {}]
                ELSE IF d \in Running THEN [call[d] EXCEPT !.overlap = TRUE] ELSE call[d]]

\* What get_server_status makes of the pair that _api_request returns.
get_server_status(success, error) == IF success THEN "operational" ELSE error

Return(c, success, error) ==
    Go(c, [call[c] EXCEPT !.pc = "done", !.result = get_server_status(success, error)])

Begin(c) ==
    /\ service = "ready" /\ call[c].pc \in {"idle", "done"}
    /\ Go(c, [Idle EXCEPT !.pc = "auth"])
    /\ UNCHANGED <<service, xpkiToken, fresh, valid, opened>>

\* _authenticate, its check: a session is stored and has not expired by the local clock.
CheckSession(c) ==
    /\ call[c].pc = "auth"
    /\ Go(c, [call[c] EXCEPT !.pc = IF xpkiToken # 0 /\ fresh THEN "send" ELSE "login"])
    /\ UNCHANGED <<service, xpkiToken, fresh, valid, opened>>

\* _authenticate, the login. The token is stored before its expiry; a 200 without a
\* session_id stores None.
Login(c) ==
    /\ call[c].pc = "login" /\ opened < MaxTokens
    /\ opened' = opened + 1
    /\ valid' = valid \union {opened + 1}
    /\ xpkiToken' = opened + 1
    /\ Go(c, [call[c] EXCEPT !.pc = "stamp"])
    /\ UNCHANGED <<service, fresh>>

StampExpiry(c) ==
    /\ call[c].pc = "stamp"
    /\ fresh' = TRUE
    /\ Go(c, [call[c] EXCEPT !.pc = "send"])
    /\ UNCHANGED <<service, xpkiToken, valid, opened>>

XpkiLoginFails(c) ==
    /\ call[c].pc = "login"
    /\ xpkiToken' \in {xpkiToken, 0}
    /\ Go(c, [call[c] EXCEPT !.pc = "done", !.trouble = TRUE,
                             !.result = get_server_status(FALSE, "auth")])
    /\ UNCHANGED <<service, fresh, valid, opened>>

(* _api_request                                                            *)

\* The header carries the token stored now, and the server performs the request if it
\* honours it. Its answer may be an error, or get lost.
Send(c) ==
    /\ call[c].pc = "send"
    /\ \E answer \in IF xpkiToken \in valid THEN {"200", "500", "raised"} ELSE {"401", "raised"} :
          Go(c, [call[c] EXCEPT !.pc = "sent", !.answer = answer,
                                !.performed = @ + IF xpkiToken \in valid THEN 1 ELSE 0,
                                !.trouble = @ \/ answer \in {"500", "raised"}])
    /\ UNCHANGED <<service, xpkiToken, fresh, valid, opened>>

Repeats_AnyFailure(c) == call[c].round = 1 /\ call[c].answer \in {"401", "500"}

\* "Session might have expired, clear token and retry once".
Repeats(c) == call[c].round = 1 /\ call[c].answer = "401"

Cleared_Kept == xpkiToken

Cleared == 0

ClearToken(c) ==
    /\ call[c].pc = "sent" /\ Repeats(c)
    /\ xpkiToken' = Cleared
    /\ Go(c, [call[c] EXCEPT !.pc = "auth", !.round = 2])
    /\ UNCHANGED <<service, fresh, valid, opened>>

Answered_Resends(c) ==
    /\ call[c].pc = "sent" /\ ~Repeats(c)
    /\ IF call[c].answer = "raised" /\ call[c].round = 1
       THEN Go(c, [call[c] EXCEPT !.pc = "auth", !.round = 2])
       ELSE Return(c, call[c].answer = "200", "request")
    /\ UNCHANGED <<service, xpkiToken, fresh, valid, opened>>

\* Whatever the repeated request is answered but 200, the error is "Authentication failed".
Answered(c) ==
    /\ call[c].pc = "sent" /\ ~Repeats(c)
    /\ CASE call[c].answer = "200" -> Return(c, TRUE, "none")
         [] call[c].answer = "raised" -> Return(c, FALSE, "exception")
         [] OTHER -> Return(c, FALSE, IF call[c].round = 2 THEN "auth" ELSE "request")
    /\ UNCHANGED <<service, xpkiToken, fresh, valid, opened>>

\* The local clock passes session_expiry.
XpkiLapse ==
    /\ fresh /\ fresh' = FALSE
    /\ UNCHANGED <<service, xpkiToken, valid, opened, call>>

\* The server ends a session; requests under way may meet it.
DropSession(t) ==
    /\ t \in valid
    /\ valid' = valid \ {t}
    /\ call' = [c \in XpkiCallers |-> IF c \in Running THEN [call[c] EXCEPT !.trouble = TRUE]
                                      ELSE call[c]]
    /\ UNCHANGED <<service, xpkiToken, fresh, opened>>

XpkiNext ==
    \/ \E c \in XpkiCallers : \/ Begin(c) \/ CheckSession(c) \/ Login(c) \/ StampExpiry(c)
                              \/ XpkiLoginFails(c) \/ Send(c) \/ ClearToken(c) \/ Answered(c)
    \/ XpkiLapse
    \/ \E t \in 1 .. MaxTokens : DropSession(t)

XpkiSpec == XpkiInit /\ [][XpkiNext]_xpkiVars

\* A request is performed at most once, although it may be sent twice and callers throw
\* away one another's sessions: only a request the server refused is repeated.
PerformedOnce == \A c \in XpkiCallers : call[c].performed <= 1

\* "Authentication failed" has a cause during the request itself: a login that failed, a
\* session ended, a server error, or another request. A session that ended before, noticed
\* only by a 401, is none: it is replaced within the request.
RefusedNeedsTrouble ==
    \A c \in XpkiCallers : call[c].result = "auth" => call[c].trouble \/ call[c].overlap

DiscardNeedsOverlap_Step ==
    (xpkiToken \in valid /\ fresh /\ xpkiToken' = 0) => \E c \in Running : call[c].overlap

\* A session that the server honours and the local clock does not end is thrown away only
\* by a request that overlapped another: the 401 of the older session, or a login answered
\* without one, clears the newer session.
DiscardNeedsOverlap == [][DiscardNeedsOverlap_Step]_xpkiVars
=============================================================================
