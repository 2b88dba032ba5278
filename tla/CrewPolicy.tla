----------------------------- MODULE CrewPolicy -----------------------------
(***************************************************************************)
(* policies/annex9_policies.py: background checks, the electronic record   *)
(* and the visa-free status of one crew member certificate, the compliance *)
(* verdict drawn from them, and the cleanup of what has expired, which     *)
(* waits for the archive between choosing records and deleting them.       *)
(***************************************************************************)
EXTENDS Naturals, Sequences

CONSTANTS
    Cleaners,       \* tasks that run cleanup_expired_records
    Validity,       \* a background check expires after this time (365 days)
    Retention,      \* archival date of an electronic record (10 years)
    Grace,          \* a visa-free record is kept this long past its end (30 days)
    MaxChecks,      \* bound on the background checks
    MaxTime         \* bound on the clock

VARIABLES
    checks,         \* _background_checks, in the order of the dictionary
    record,         \* the electronic record
    visa,           \* the visa-free record
    granted,        \* countries asked for by the last call that granted the status
    regranted,      \* the status was granted on a record that existed already
    cleaned,        \* time of the last finished cleanup of background checks
    chosen,         \* per cleaner: idle, or the electronic record it will delete, or not
    raised,         \* cleaners that ended with a KeyError
    overlapped,     \* two cleanups were under way at once
    now

vars == <<checks, record, visa, granted, regranted, cleaned, chosen, raised, overlapped, now>>

\* "in_progress" and "expired" are set and read as "pending" is.
Statuses == {"pending", "completed", "failed"}
Countries == {"A", "B"}
Absent == [exists |-> FALSE]
Never == 0      \* no valid_until: the clock starts at 1
Times == 0 .. MaxTime + Validity + Retention

\* The content of an electronic record that its hash covers: the holder's data, the
\* linked checks and the version.
Content == [holder : {"original", "altered"}, linked : 0 .. MaxChecks, version : 1 .. MaxTime + MaxChecks + 2]

TypeOK ==
    /\ \A i \in DOMAIN checks :
          checks[i] \in [status : Statuses, compliant : BOOLEAN, expires : Times]
    /\ Len(checks) <= MaxChecks
    /\ record = Absent \/
          (/\ record.content \in Content /\ record.hash \in Content /\ record.archival \in Times)
    /\ visa = Absent \/
          (/\ visa.status \in {"eligible", "not_eligible", "suspended"}
           /\ visa.countries \subseteq Countries
           /\ visa.from \in Times /\ visa.until \in Times)
    /\ granted \subseteq Countries
    /\ regranted \in BOOLEAN /\ overlapped \in BOOLEAN
    /\ chosen \in [Cleaners -> {"idle", "nothing", "record"}]
    /\ raised \subseteq Cleaners
    /\ cleaned \in 0 .. MaxTime /\ now \in 1 .. MaxTime

Init ==
    /\ checks = <<>> /\ record = Absent /\ visa = Absent
    /\ granted = {} /\ regranted = FALSE /\ cleaned = 0
    /\ chosen = [c \in Cleaners |-> "idle"] /\ raised = {} /\ overlapped = FALSE
    /\ now = 1

-----------------------------------------------------------------------------
initiate_background_check ==
    /\ Len(checks) < MaxChecks
    /\ checks' = Append(checks,
          [status |-> "pending", compliant |-> FALSE, expires |-> now + Validity])
    /\ UNCHANGED <<record, visa, granted, regranted, cleaned, chosen, raised, overlapped, now>>

\* all_passed says that the findings given with this call have all five required checks
\* passed; those of earlier calls are not looked at. Any status may follow any other.
update_status(check, status, all_passed) ==
    [check EXCEPT !.status = status,
                  !.compliant = CASE status = "completed" -> all_passed
                                  [] status = "failed" -> FALSE
                                  [] OTHER -> @]

update_background_check(i, status, all_passed) ==
    /\ checks' = [checks EXCEPT ![i] = update_status(@, status, all_passed)]
    /\ UNCHANGED <<record, visa, granted, regranted, cleaned, chosen, raised, overlapped, now>>

Hashed_NotHolder(content) == [content EXCEPT !.holder = "original"]

\* calculate_record_hash
Hashed(content) == content

\* add_audit_entry: the version goes up and the hash is computed anew.
Audited(content) == [content EXCEPT !.version = @ + 1]

create_electronic_record ==
    /\ record = Absent
    /\ LET content == Audited([holder |-> "original", linked |-> 0, version |-> 1])
       IN  record' = [exists |-> TRUE, content |-> content, hash |-> Hashed(content),
                      archival |-> now + Retention]
    /\ UNCHANGED <<checks, visa, granted, regranted, cleaned, chosen, raised, overlapped, now>>

link_background_check ==
    /\ record.exists /\ checks # <<>> /\ record.content.linked < MaxChecks
    /\ LET content == Audited([record.content EXCEPT !.linked = @ + 1])
       IN  record' = [record EXCEPT !.content = content, !.hash = Hashed(content)]
    /\ UNCHANGED <<checks, visa, granted, regranted, cleaned, chosen, raised, overlapped, now>>

\* Code outside the manager changes holder_data of the record it got from
\* get_electronic_record.
AlterHolder ==
    /\ record.exists /\ record.content.holder = "original"
    /\ record' = [record EXCEPT !.content.holder = "altered"]
    /\ UNCHANGED <<checks, visa, granted, regranted, cleaned, chosen, raised, overlapped, now>>

verify_integrity == record.exists /\ record.hash = Hashed(record.content)

CountriesOf_Dropped(countries) == {}

\* An existing record keeps the countries it was created with.
CountriesOf(countries) == IF visa.exists THEN visa.countries ELSE countries

manage_visa_free_status(status, countries, until) ==
    /\ visa' = [exists |-> TRUE, status |-> status, countries |-> CountriesOf(countries),
          from |-> IF status = "eligible" THEN now ELSE IF visa.exists THEN visa.from ELSE Never,
          until |-> IF status = "eligible" THEN until ELSE now]
    /\ granted' = IF status = "eligible" THEN countries ELSE granted
    /\ regranted' = IF status = "eligible" THEN visa.exists ELSE regranted
    /\ UNCHANGED <<checks, record, cleaned, chosen, raised, overlapped, now>>

is_currently_eligible ==
    /\ visa.exists /\ visa.status = "eligible"
    /\ visa.from <= now
    /\ visa.until = Never \/ now <= visa.until

\* No countries means all of them.
is_eligible_for_country(c) ==
    is_currently_eligible /\ (c \in visa.countries \/ visa.countries = {})

-----------------------------------------------------------------------------
\* The first check of the dictionary that is completed decides; an expired one counts.
background_compliant ==
    \E i \in DOMAIN checks :
        /\ checks[i].status = "completed" /\ checks[i].compliant
        /\ \A j \in 1 .. i - 1 : checks[j].status # "completed"

verify_annex9_compliance == background_compliant /\ verify_integrity /\ visa.exists

is_expired_Never(check) == FALSE
is_expired(check) == now > check.expires

Kept(check) == ~is_expired(check)

ArchiveDue_Unchecked == now > Retention
ArchiveDue == record.exists /\ now > record.archival

\* cleanup_expired_records up to the archive: expired checks go, and the electronic
\* record is chosen.
cleanup_checks(c) ==
    /\ chosen[c] = "idle" /\ c \notin raised
    /\ checks' = SelectSeq(checks, Kept)
    /\ cleaned' = now
    /\ chosen' = [chosen EXCEPT ![c] =
          IF ArchiveDue THEN "record" ELSE "nothing"]
    /\ overlapped' = (overlapped \/ \E d \in Cleaners : chosen[d] = "record")
    /\ UNCHANGED <<record, visa, granted, regranted, raised, now>>

VisaKept == ~(visa.exists /\ visa.until # Never /\ now > visa.until + Grace)

\* The rest of it. Deleting a record that another cleanup deleted meanwhile raises, and
\* visa-free records are then not cleaned.
cleanup_records(c) ==
    /\ chosen[c] # "idle"
    /\ chosen' = [chosen EXCEPT ![c] = "idle"]
    /\ IF chosen[c] = "record" /\ ~record.exists
       THEN raised' = raised \union {c} /\ UNCHANGED <<record, visa>>
       ELSE /\ record' = IF chosen[c] = "record" THEN Absent ELSE record
            /\ visa' = IF VisaKept THEN visa ELSE Absent
            /\ UNCHANGED raised
    /\ UNCHANGED <<checks, granted, regranted, cleaned, overlapped, now>>

Tick ==
    /\ now < MaxTime /\ now' = now + 1
    /\ UNCHANGED <<checks, record, visa, granted, regranted, cleaned, chosen, raised, overlapped>>

Next ==
    \/ initiate_background_check \/ create_electronic_record \/ link_background_check
    \/ \E i \in DOMAIN checks, s \in Statuses, p \in BOOLEAN : update_background_check(i, s, p)
    \/ AlterHolder \/ Tick
    \/ \E u \in {Never, now} : manage_visa_free_status("eligible", {"A"}, u)
    \/ manage_visa_free_status("suspended", {}, Never)
    \/ \E c \in Cleaners : cleanup_checks(c) \/ cleanup_records(c)

Spec == Init /\ [][Next]_vars

-----------------------------------------------------------------------------
\* Eligibility for a country outside the last grant needs a grant made on an existing
\* record, whose countries are not replaced: one created without countries is good for
\* all of them, whatever is granted later.
BeyondGrantNeedsRegrant ==
    \A c \in Countries :
        is_eligible_for_country(c) /\ granted # {} /\ c \notin granted => regranted

\* Data altered behind the manager's back fails the compliance check until the next audit
\* entry: the certificate is compliant on an altered record only when the hash was computed
\* from the altered data.
AlteredIsSeen ==
    verify_annex9_compliance /\ record.content.holder = "altered" =>
        record.hash.holder = "altered"

\* An expired background check counts for compliance only until the next cleanup.
ExpiredUntilCleanup ==
    background_compliant =>
        \E i \in DOMAIN checks : checks[i].compliant /\ cleaned <= checks[i].expires

\* A cleanup fails, and leaves visa-free records behind, only beside another one.
CleanupNeedsOverlap == raised # {} => overlapped
=============================================================================
