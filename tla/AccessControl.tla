--------------------------- MODULE AccessControl ---------------------------
(***************************************************************************)
(* AccessControlManager and FileAuditLogger of                             *)
(* marty_common/security/access_control.py: user accounts, sessions,       *)
(* permissions and the audit log. authenticate_user, get_user_by_session   *)
(* and logout_user run without the manager's lock, and a session's expiry  *)
(* is a field of the user, shared by all of its tokens.                    *)
(***************************************************************************)
EXTENDS Naturals, FiniteSets

CONSTANTS
    Roles,          \* the roles of each user, a function from users to sets of roles
    Custom,         \* custom_permissions of each user, given to create_user
    Tokens,         \* session tokens (uuid4: never given twice)
    Hours,          \* length of a session
    MaxTime         \* bound on the clock

Users == DOMAIN Roles
None == "none"
NoExpiry == 0

VARIABLES
    account,        \* "absent", "active" or "inactive", per user
    expires,        \* session_expires_at of each user, NoExpiry for None
    sessions,       \* token -> user, None when not in the dictionary
    pending,        \* tokens made by an authenticate_user that has not stored them yet
    holder,         \* the user a token was made for
    deadline,       \* the expiry computed when a token was made
    overlapping,    \* users who logged in while another session of theirs was open
    late,           \* tokens accepted after their own deadline
    log,            \* entries of the audit log
    writable,       \* the log file can be written
    denied,         \* users denied a permission while the log was writable
    now

vars == <<account, expires, sessions, pending, holder, deadline, overlapping, late, log,
          writable, denied, now>>

\* The permissions of each role. An operation is named by the permission it requires.
Documents == {"create_document", "read_document", "sign_document"}
ROLE_PERMISSIONS ==
    [admin |-> Documents \union
        {"revoke_document", "issue_certificate", "revoke_certificate", "validate_certificate",
         "generate_key", "rotate_key", "delete_key", "update_pkd", "query_pkd", "manage_users",
         "view_audit_logs", "configure_system", "manage_trust_anchors", "verify_trust_chain"},
     operator |-> Documents \union {"validate_certificate", "query_pkd", "verify_trust_chain"},
     auditor |-> {"read_document", "view_audit_logs", "query_pkd"},
     document_issuer |-> Documents \union {"issue_certificate", "validate_certificate"},
     validator |-> {"read_document", "validate_certificate", "verify_trust_chain"},
     read_only |-> {"read_document", "query_pkd"}]

Permission == UNION {ROLE_PERMISSIONS[r] : r \in DOMAIN ROLE_PERMISSIONS}

Entry(event, user, result) == [event |-> event, user |-> user, result |-> result]
Entries ==
    {Entry(e, u, r) : e \in {"USER_LOGIN", "USER_LOGOUT", "PERMISSION_DENIED"},
                      u \in Users \union {None}, r \in {"success", "failure"}}

TypeOK ==
    /\ account \in [Users -> {"absent", "active", "inactive"}]
    /\ expires \in [Users -> 0 .. MaxTime + Hours]
    /\ sessions \in [Tokens -> Users \union {None}]
    /\ holder \in [Tokens -> Users \union {None}]
    /\ deadline \in [Tokens -> 0 .. MaxTime + Hours]
    /\ pending \subseteq Tokens /\ late \subseteq Tokens
    /\ overlapping \subseteq Users /\ denied \subseteq Users
    /\ log \subseteq Entries
    /\ writable \in BOOLEAN
    /\ now \in 0 .. MaxTime

Init ==
    /\ account = [u \in Users |-> "absent"]
    /\ expires = [u \in Users |-> NoExpiry]
    /\ sessions = [t \in Tokens |-> None]
    /\ holder = [t \in Tokens |-> None]
    /\ deadline = [t \in Tokens |-> 0]
    /\ pending = {} /\ overlapping = {} /\ late = {} /\ denied = {} /\ log = {}
    /\ writable = TRUE
    /\ now = 0

-----------------------------------------------------------------------------
\* log_event: an error of the file is logged and swallowed.
log_event(event, user, result) ==
    log' = IF writable THEN log \union {Entry(event, user, result)} ELSE log

\* query_events with the filter on user_id.
query_events(user) == {e \in log : e.user = user}

create_user(u) ==
    /\ account[u] = "absent"
    /\ account' = [account EXCEPT ![u] = "active"]
    /\ log_event("USER_LOGIN", u, "success")
    /\ UNCHANGED <<expires, sessions, pending, holder, deadline, overlapping, late, writable,
                   denied, now>>

\* The application clears User.is_active.
Deactivate(u) ==
    /\ account[u] = "active"
    /\ account' = [account EXCEPT ![u] = "inactive"]
    /\ UNCHANGED <<expires, sessions, pending, holder, deadline, overlapping, late, log,
                   writable, denied, now>>

FailureUser_Named(u) == u

\* The entry of a refused login names the username, and no user_id.
FailureUser(u) == None

\* No active user of that name. account_locked_until is never set to a time, so the
\* branch of a locked account is not taken.
AuthenticationRefused(u) ==
    /\ account[u] # "active"
    /\ log_event("USER_LOGIN", FailureUser(u), "failure")
    /\ UNCHANGED <<account, expires, sessions, pending, holder, deadline, overlapping, late,
                   writable, denied, now>>

Open(u) == {t \in Tokens : sessions[t] = u} \union {t \in pending : holder[t] = u}

\* authenticate_user up to last_login: a new token and the user's new expiry.
authenticate_user(u, t) ==
    /\ account[u] = "active"
    /\ holder[t] = None
    /\ holder' = [holder EXCEPT ![t] = u]
    /\ deadline' = [deadline EXCEPT ![t] = now + Hours]
    /\ expires' = [expires EXCEPT ![u] = now + Hours]
    /\ pending' = pending \union {t}
    /\ overlapping' = IF Open(u) = {} THEN overlapping ELSE overlapping \union {u}
    /\ UNCHANGED <<account, sessions, late, log, writable, denied, now>>

\* The rest of it: the session is stored.
StoreSession(t) ==
    /\ t \in pending
    /\ sessions' = [sessions EXCEPT ![t] = holder[t]]
    /\ pending' = pending \ {t}
    /\ log_event("USER_LOGIN", holder[t], "success")
    /\ UNCHANGED <<account, expires, holder, deadline, overlapping, late, writable, denied, now>>

\* logout_user clears the expiry of the user, also for its other tokens.
logout_user(t) ==
    /\ sessions[t] # None
    /\ sessions' = [sessions EXCEPT ![t] = None]
    /\ expires' = [expires EXCEPT ![sessions[t]] = NoExpiry]
    /\ log_event("USER_LOGOUT", sessions[t], "success")
    /\ UNCHANGED <<account, pending, holder, deadline, overlapping, late, writable, denied, now>>

Expired_Never(u) == FALSE
Expired(u) == expires[u] # NoExpiry /\ now > expires[u]

\* get_user_by_session does not look at is_active.
get_user_by_session(t) ==
    /\ sessions[t] # None
    /\ IF Expired(sessions[t])
       THEN logout_user(t)
       ELSE /\ late' = IF now > deadline[t] THEN late \union {t} ELSE late
            /\ UNCHANGED <<account, expires, sessions, pending, holder, deadline, overlapping,
                           log, writable, denied, now>>

has_permission(u, p) ==
    /\ account[u] = "active"
    /\ p \in Custom[u] \/ \E r \in Roles[u] : p \in ROLE_PERMISSIONS[r]

\* The wrapper of require_permission, when it refuses; otherwise the function runs and
\* nothing here changes.
PermissionDenied(u, p) ==
    /\ account[u] # "absent"
    /\ ~has_permission(u, p)
    /\ log_event("PERMISSION_DENIED", u, "failure")
    /\ denied' = IF writable THEN denied \union {u} ELSE denied
    /\ UNCHANGED <<account, expires, sessions, pending, holder, deadline, overlapping, late,
                   writable, now>>

NoUserProvided ==
    /\ log_event("PERMISSION_DENIED", None, "failure")
    /\ UNCHANGED <<account, expires, sessions, pending, holder, deadline, overlapping, late,
                   writable, denied, now>>

LogFileFails ==
    /\ writable /\ writable' = FALSE
    /\ UNCHANGED <<account, expires, sessions, pending, holder, deadline, overlapping, late,
                   log, denied, now>>

Tick ==
    /\ now < MaxTime /\ now' = now + 1
    /\ UNCHANGED <<account, expires, sessions, pending, holder, deadline, overlapping, late,
                   log, writable, denied>>

Next ==
    \/ \E u \in Users : create_user(u) \/ Deactivate(u) \/ AuthenticationRefused(u)
    \/ \E u \in Users, t \in Tokens : authenticate_user(u, t)
    \/ \E t \in Tokens : StoreSession(t) \/ logout_user(t) \/ get_user_by_session(t)
    \/ \E u \in Users, p \in Permission : PermissionDenied(u, p)
    \/ NoUserProvided \/ LogFileFails \/ Tick

Spec == Init /\ [][Next]_vars

-----------------------------------------------------------------------------
\* A session is accepted past its own hours only if its user has logged in beside an
\* open session: a later login extends the earlier one's expiry, and ending either one
\* clears it for both.
LateNeedsOverlap == \A t \in late : holder[t] \in overlapping

\* What the audit log says of a user: every denial written while the file was writable
\* is found by a query for that user, and a refused login never is.
AuditByUser ==
    \A u \in Users :
        /\ u \in denied => \E e \in query_events(u) : e.event = "PERMISSION_DENIED"
        /\ Entry("USER_LOGIN", u, "failure") \notin query_events(u)
=============================================================================
