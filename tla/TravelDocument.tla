--------------------------- MODULE TravelDocument ---------------------------
(***************************************************************************)
(* The passport and crew certificate objects of models/passport.py: their  *)
(* fields are assigned one at a time, each under its own validator, and    *)
(* converted to the MRZ, to the ICAO format, to dictionaries and to        *)
(* strings. A date is a year; the MRZ keeps its last two digits.           *)
(***************************************************************************)
EXTENDS Naturals, FiniteSets

CONSTANTS
    Years,          \* years a date may have
    Century         \* the MRZ keeps a year modulo this

VARIABLES
    subject,        \* the object at hand: they share no state
    passport,       \* PassportData: birth, expiry; the data groups added
    mrz,            \* Passport.mrz, made from to_mrz_data, or unset
    icao,           \* the last result of to_icao_format, or unset
    saved,          \* the last result of to_dict, or unset
    changed,        \* dates assigned since mrz was made
    birth_assigned, \* date_of_birth was assigned after construction
    outcome,        \* "refused": to_icao_format raised; "unloadable": from_dict did
    sod,            \* the security object
    cmc,            \* the crew certificate
    verified        \* one of the verification methods returned True

pvars == <<passport, mrz, icao, saved, changed, birth_assigned, outcome>>
cvars == <<cmc, verified>>
vars == <<subject, pvars, sod, cvars>>

Unset == [set |-> FALSE]
Algorithms == {"SHA256withRSA", "SHA384withECDSA"}
Models == {"CHIP_LDS", "VDS_NC"}
Dates == {"birth", "expiry"}
Digits == [set : {TRUE}, birth : 0 .. Century - 1, expiry : 0 .. Century - 1]
Groups == {"DG2"}

TypeOK ==
    /\ subject \in {"passport", "sod", "cmc"}
    /\ passport \in [birth : Years, expiry : Years, groups : SUBSET Groups]
    /\ mrz \in {Unset} \union Digits
    /\ icao \in {Unset} \union [set : {TRUE}, expired : BOOLEAN, dg1 : {Unset} \union Digits]
    /\ saved \in {Unset} \union [set : {TRUE}, birth : Years, expiry : Years]
    /\ changed \subseteq Dates
    /\ birth_assigned \in BOOLEAN /\ verified \in BOOLEAN
    /\ outcome \in {"none", "refused", "unloadable"}
    /\ sod \in [signed : Algorithms, algorithm : Algorithms, form : {"object", "string"}]
    /\ cmc \in [model : Models, groups : SUBSET Groups, seal : {"none", "matching", "other"},
                mrz : BOOLEAN]

\* The validator of date_of_expiry, in PassportData and in CMCData.
validate_expiry_date(birth, expiry) == expiry >= birth

\* The constructors validate both dates. A behaviour is about one of the three objects.
Init ==
    /\ subject \in {"passport", "sod", "cmc"}
    /\ passport \in {p \in [birth : Years, expiry : Years, groups : {{}}] :
                        /\ validate_expiry_date(p.birth, p.expiry)
                        /\ subject # "passport" => p.birth = p.expiry}
    /\ mrz = Unset /\ icao = Unset /\ saved = Unset /\ changed = {}
    /\ birth_assigned = FALSE /\ outcome = "none"
    /\ sod \in {[signed |-> a, algorithm |-> a, form |-> "object"] :
                   a \in IF subject = "sod" THEN Algorithms ELSE {"SHA256withRSA"}}
    /\ cmc \in IF subject = "cmc"
              THEN [model : Models, groups : {{}}, seal : {"none", "matching", "other"},
                    mrz : BOOLEAN]
              ELSE [model : {"CHIP_LDS"}, groups : {{}}, seal : {"none"}, mrz : {FALSE}]
    /\ verified = FALSE

-----------------------------------------------------------------------------
AssignExpiry_Unvalidated(y) ==
    /\ passport' = [passport EXCEPT !.expiry = y]
    /\ changed' = changed \union {"expiry"}
    /\ UNCHANGED <<mrz, icao, saved, birth_assigned, outcome, sod, cvars>>

\* validate_assignment runs the validator of the assigned field only.
AssignExpiry(y) ==
    /\ validate_expiry_date(passport.birth, y)
    /\ passport' = [passport EXCEPT !.expiry = y]
    /\ changed' = changed \union {"expiry"}
    /\ UNCHANGED <<mrz, icao, saved, birth_assigned, outcome, sod, cvars>>

AssignBirth(y) ==
    /\ passport' = [passport EXCEPT !.birth = y]
    /\ changed' = changed \union {"birth"}
    /\ birth_assigned' = TRUE
    /\ UNCHANGED <<mrz, icao, saved, outcome, sod, cvars>>

\* Passport.add_data_group
AddGroup(g) ==
    /\ passport' = [passport EXCEPT !.groups = @ \union {g}]
    /\ UNCHANGED <<mrz, icao, saved, changed, birth_assigned, outcome, sod, cvars>>

MrzYear_Off(y) == (y + 1) % Century

\* strftime("%y%m%d")
MrzYear(y) == y % Century

\* to_mrz_data, whose result the caller stores as the mrz of the passport.
to_mrz_data ==
    /\ mrz' = [set |-> TRUE, birth |-> MrzYear(passport.birth), expiry |-> MrzYear(passport.expiry)]
    /\ changed' = {}
    /\ UNCHANGED <<passport, icao, saved, birth_assigned, outcome, sod, cvars>>

\* ICaoPassport.validate_expiry_date raises its ValueError inside the try whose
\* "except ValueError" passes over it.
IcaoExpiryAccepted(issue, expiry) == TRUE

\* DG1 is the stored mrz, but only of a passport to which no group was added.
IcaoDG1 == IF passport.groups = {} THEN mrz ELSE Unset

\* to_icao_format: issued today.
to_icao_format(today) ==
    /\ outcome = "none"
    /\ IF IcaoExpiryAccepted(today, passport.expiry)
       THEN /\ icao' = [set |-> TRUE, expired |-> passport.expiry <= today, dg1 |-> IcaoDG1]
            /\ UNCHANGED outcome
       ELSE outcome' = "refused" /\ UNCHANGED icao
    /\ UNCHANGED <<passport, mrz, saved, changed, birth_assigned, sod, cvars>>

\* Passport.to_dict writes the fields as they are.
to_dict ==
    /\ saved' = [set |-> TRUE, birth |-> passport.birth, expiry |-> passport.expiry]
    /\ UNCHANGED <<passport, mrz, icao, changed, birth_assigned, outcome, sod, cvars>>

\* Passport.from_dict constructs, which validates; a failure ends the passport's story.
from_dict ==
    /\ saved.set /\ outcome = "none"
    /\ IF validate_expiry_date(saved.birth, saved.expiry)
       THEN /\ passport' = [passport EXCEPT !.birth = saved.birth, !.expiry = saved.expiry]
            /\ changed' = changed \union {d \in Dates : saved[d] # passport[d]}
            /\ UNCHANGED outcome
       ELSE outcome' = "unloadable" /\ UNCHANGED <<passport, changed>>
    /\ UNCHANGED <<mrz, icao, saved, birth_assigned, sod, cvars>>

-----------------------------------------------------------------------------
\* SignedObject.to_string writes the signature and the time.
to_string ==
    /\ sod.form = "object"
    /\ sod' = [sod EXCEPT !.form = "string"]
    /\ UNCHANGED <<pvars, cvars>>

\* from_string leaves the algorithm to its default.
Restored(s) == "SHA256withRSA"

from_string ==
    /\ sod.form = "string"
    /\ sod' = [sod EXCEPT !.form = "object", !.algorithm = Restored(sod)]
    /\ UNCHANGED <<pvars, cvars>>

-----------------------------------------------------------------------------
\* CMCCertificate.add_data_group
add_data_group(g) ==
    /\ cmc.model = "CHIP_LDS"
    /\ cmc' = [cmc EXCEPT !.groups = @ \union {g}]
    /\ UNCHANGED <<pvars, sod, verified>>

\* The security model is a field like the others.
AssignModel(m) ==
    /\ cmc' = [cmc EXCEPT !.model = m]
    /\ UNCHANGED <<pvars, sod, verified>>

\* _verify_vds_nc_security: no seal, a mismatch and a match all end in no, the match
\* because there is no trusted issuer key.
SealVerdict(c) == FALSE

\* _verify_chip_security: there is no native validation of the security object.
ChipVerdict(c) == FALSE

verify_certificate ==
    /\ verified' = (verified \/ (/\ cmc.mrz
                                 /\ IF cmc.model = "CHIP_LDS" THEN ChipVerdict(cmc)
                                    ELSE SealVerdict(cmc)))
    /\ UNCHANGED <<pvars, sod, cmc>>

\* Passport.verify_sod_certificate
SodVerdict == FALSE
\* Passport.perform_active_authentication
ActiveVerdict == FALSE

VerifyPassport ==
    /\ verified' = (verified \/ SodVerdict \/ ActiveVerdict)
    /\ UNCHANGED <<pvars, sod, cmc>>

PassportStep ==
    \/ \E y \in Years : AssignExpiry(y) \/ AssignBirth(y) \/ to_icao_format(y)
    \/ \E g \in Groups : AddGroup(g)
    \/ to_mrz_data \/ to_dict \/ from_dict \/ VerifyPassport

CertificateStep ==
    \/ \E g \in Groups : add_data_group(g)
    \/ \E m \in Models : AssignModel(m)
    \/ verify_certificate

Next ==
    /\ UNCHANGED subject
    /\ \/ subject = "passport" /\ PassportStep
       \/ subject = "sod" /\ (to_string \/ from_string)
       \/ subject = "cmc" /\ CertificateStep

Spec == Init /\ [][Next]_vars

-----------------------------------------------------------------------------
(* A passport that was saved can be loaded again, unless its date of birth *)
(* was assigned after construction: that assignment does not run the       *)
(* validator that compares the two dates (models/passport.py, 232-240).    *)
UnloadableNeedsBirth == outcome = "unloadable" => birth_assigned

StaleNeedsChange_Step ==
    icao' # icao /\ icao'.dg1.set =>
       \A d \in Dates \ changed : icao'.dg1[d] = passport[d] % Century

(* The DG1 of an exported passport agrees, in its two-digit years, with    *)
(* every date that was not assigned or reloaded since the MRZ was stored.  *)
StaleNeedsChange == [][StaleNeedsChange_Step]_vars
=============================================================================
