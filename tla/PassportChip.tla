---------------------------- MODULE PassportChip ----------------------------
(***************************************************************************)
(* Reading a passport's chip, the biometrics on it and the readers: three  *)
(* components that share no state, one section each, with its own Init and *)
(* Next.                                                                   *)
(***************************************************************************)
EXTENDS FiniteSets, Integers, SequencesExt

-----------------------------------------------------------------------------
(***************************************************************************)
(* rfid/nfc_protocols.py: the NFCProtocolHandler picks an interface for    *)
(* its platform, scans for passports and reads one. The nfcpy interface    *)
(* holds a contactless frontend, which disconnecting closes for good.      *)
(***************************************************************************)
CONSTANTS
    Passports,      \* passports that can be held to the reader
    MaxCalls        \* calls made in all

VARIABLES
    nfcHost,        \* the platform, chosen by the first call that asks for it
    nfcKind,        \* class of NFCProtocolHandler.interface
    frontend,       \* the nfcpy interface's clf: "none", "open" or "closed"
    field,          \* the passports at the reader
    found,          \* what the last scan returned
    outcome,        \* how the last read_passport_data ended
    scanned,        \* devices some scan has returned
    reads,          \* reads since the last initialize_best_interface
    calls           \* calls so far

nfcVars == <<nfcHost, nfcKind, frontend, field, found, outcome, scanned, reads, calls>>

\* "desktop" has the nfcpy library, "bare" is a desktop without it.
Hosts == {"android", "darwin", "desktop", "bare"}
Devices == Passports \union {"mock_passport"}

NfcTypeOK ==
    /\ nfcHost \in Hosts \union {"unknown"}
    /\ nfcKind \in {"none", "android", "ios", "nfcpy", "mock"}
    /\ frontend \in {"none", "open", "closed"}
    /\ field \subseteq Passports /\ found \subseteq Devices /\ scanned \subseteq Devices
    /\ outcome \in {"none", "selected", "RuntimeError"}
    /\ reads \in 0 .. MaxCalls /\ calls \in 0 .. MaxCalls

NfcInit ==
    /\ nfcHost = "unknown" /\ nfcKind = "none" /\ frontend = "none"
    /\ field = {} /\ found = {} /\ outcome = "none" /\ scanned = {}
    /\ reads = 0 /\ calls = 0

Call == calls < MaxCalls /\ calls' = calls + 1

\* get_available_interface.
get_available_interface(h) ==
    CASE h = "android" -> "android" [] h = "darwin" -> "ios"
      [] h = "desktop" -> "nfcpy" [] h = "bare" -> "mock"

\* initialize_best_interface stores the interface before it is initialised, and keeps it when
\* opening the frontend fails.
initialize_best_interface(h, opens) ==
    /\ Call /\ nfcHost \in {"unknown", h}
    /\ nfcHost' = h /\ nfcKind' = get_available_interface(h)
    /\ frontend' = IF h = "desktop" /\ opens THEN "open" ELSE "none"
    /\ reads' = 0
    /\ UNCHANGED <<field, found, outcome, scanned>>

\* NFCPyInterface.poll_devices: without a frontend, or when sensing raises, nothing is found.
NfcpyPoll(sensed) == IF frontend = "open" THEN sensed ELSE {}

\* poll_devices of the interface; the phones' are not implemented.
Polled(sensed) ==
    CASE nfcKind = "nfcpy" -> NfcpyPoll(sensed)
      [] nfcKind = "mock" -> {"mock_passport"}
      [] OTHER -> {}

\* sensing finds at most one target, and may fail.
scan_for_passports ==
    /\ Call
    /\ \E sensed \in {s \in SUBSET field : Cardinality(s) <= 1} :
          /\ found' = Polled(sensed) /\ scanned' = scanned \union Polled(sensed)
    /\ UNCHANGED <<nfcHost, nfcKind, frontend, field, outcome, reads>>

\* connect_device: the phones' is not implemented.
Connects == nfcKind \in {"nfcpy", "mock"}

\* send_command: nfcpy's answers 90 00 whatever is sent, the mock's to the passport application.
Selects(d) == TRUE

NfcDisconnected_Kept == frontend

\* disconnect, in the finally clause: nfcpy closes its frontend.
NfcDisconnected == IF nfcKind = "nfcpy" /\ frontend = "open" THEN "closed" ELSE frontend

\* read_passport_data of a device some scan has returned.
read_passport_data(d) ==
    /\ Call
    /\ outcome' = IF Connects /\ Selects(d) THEN "selected" ELSE "RuntimeError"
    /\ frontend' = IF Connects THEN NfcDisconnected ELSE frontend
    /\ reads' = reads + 1
    /\ UNCHANGED <<nfcHost, nfcKind, field, found, scanned>>

MovePassports ==
    /\ \E f \in SUBSET Passports : f # field /\ field' = f
    /\ UNCHANGED <<nfcHost, nfcKind, frontend, found, outcome, scanned, reads, calls>>

NfcNext ==
    \/ \E h \in Hosts, opens \in BOOLEAN : initialize_best_interface(h, opens)
    \/ scan_for_passports
    \/ \E d \in scanned : read_passport_data(d)
    \/ MovePassports

NfcSpec == NfcInit /\ [][NfcNext]_nfcVars

ScansEndWithRead_Step ==
    (found' # {} /\ calls' # calls /\ found' # found /\ found' \subseteq Passports)
       => reads = 0

(* One read per initialisation: reading closes the frontend, and from then *)
(* on every scan of a passport at the reader comes back empty, without an  *)
(* error, until the handler is initialised again.                          *)
ScansEndWithRead == [][ScansEndWithRead_Step]_nfcVars

-----------------------------------------------------------------------------
(***************************************************************************)
(* PassportBiometricProcessor (security/enhanced_biometric_processing.py): *)
(* a data group is read record by record, each template is rated and its   *)
(* hash logged, and the group is stored when its last record was read. The *)
(* bytes are abstracted to what the parser reads from them; scores are the *)
(* code's integers.                                                        *)
(***************************************************************************)
CONSTANTS
    Sizes,          \* template lengths in bytes
    MaxRecords,     \* records of a DG3 or DG4
    MaxGroups       \* data groups processed

VARIABLES
    cv2,            \* OpenCV could be imported
    assess,         \* enable_quality_assessment
    validate,       \* security_validation
    group,          \* data group being read, "none" between two
    templates,      \* the templates read from it so far
    stored,         \* processed_templates
    events          \* processing_log: hashes logged, errors logged

faceVars == <<cv2, assess, validate, group, templates, stored, events>>

DataGroups == {"DG2", "DG3", "DG4", "DG5"}
Levels == {"excellent", "good", "fair", "poor", "unusable", "unrated"}
Template == [kind : {"face", "finger", "iris"}, level : Levels, issues : 0 .. 4,
             points : 0 .. 100, size : Sizes]

FaceTypeOK ==
    /\ cv2 \in BOOLEAN /\ assess \in BOOLEAN /\ validate \in BOOLEAN
    /\ group \in DataGroups \union {"none"}
    /\ \A i \in DOMAIN templates : templates[i] \in Template
    /\ \A i \in DOMAIN stored : \A j \in DOMAIN stored[i] : stored[i][j] \in Template
    /\ events \in [hashes : Nat, errors : Nat]

FaceInit ==
    /\ cv2 \in BOOLEAN /\ assess \in BOOLEAN /\ validate \in BOOLEAN
    /\ group = "none" /\ templates = <<>> /\ stored = <<>>
    /\ events = [hashes |-> 0, errors |-> 0]

\* int(np.mean(scores))
Mean(scores) == FoldSeq(LAMBDA x, y : x + y, 0, scores) \div Len(scores)

\* The thresholds are the same for the three kinds.
quality_level(score) ==
    CASE score >= 85 -> "excellent"
      [] score >= 70 -> "good"
      [] score >= 55 -> "fair"
      [] score >= 40 -> "poor"
      [] OTHER -> "unusable"

Distance(x, y) == IF x >= y THEN x - y ELSE y - x

\* max(0, min(100, int((255 - abs(brightness - 128)) / 127 * 100)))
BrightnessScore(b) == Min({100, ((255 - Distance(b, 128)) * 100) \div 127})

\* What the image shows: variance of its Laplacian, mean and deviation of its grey values,
\* pixels and format. A uniform image has no edges, and a black or white one is uniform.
Images ==
    {i \in [variance : {0, 60, 10000}, brightness : {0, 40, 128, 255}, deviation : {0, 15, 50},
            pixels : {100, 320 * 240, 640 * 480}, format : {"jpeg", "png"}] :
        /\ i.deviation = 0 => i.variance = 0
        /\ i.brightness \in {0, 255} => i.deviation = 0}

Rating_Highest(scores, issues) ==
    [level |-> quality_level(Max(Range(scores))), issues |-> Cardinality(issues)]

\* The score a calculate_*_quality method leaves in the template: the level of the mean
\* score, and how many of the measures it found fault with.
Rating(scores, issues) == [level |-> quality_level(Mean(scores)), issues |-> Cardinality(issues)]

\* FaceTemplate.calculate_image_quality. compression_ratio is never set, so a JPEG scores 85.
calculate_image_quality(i) ==
    Rating(<<IF cv2 THEN Min({i.variance \div 100, 100}) ELSE 75,
             BrightnessScore(i.brightness),
             Min({i.deviation * 2, 100}),
             IF i.pixels >= 640 * 480 THEN 100 ELSE IF i.pixels >= 320 * 240 THEN 75 ELSE 50,
             IF i.format = "jpeg" THEN 85 ELSE 100>>,
           {m \in {"blurry", "dark or bright", "contrast", "resolution"} :
               \/ m = "blurry" /\ cv2 /\ i.variance < 50
               \/ m = "dark or bright" /\ (i.brightness < 50 \/ i.brightness > 200)
               \/ m = "contrast" /\ i.deviation < 20
               \/ m = "resolution" /\ i.pixels < 320 * 240})

\* Scores of a graded quantity: at least the first bound, the second, less.
Graded(x, high, low) == IF x >= high THEN 100 ELSE IF x >= low THEN 80 ELSE 60

MinutiaeScore(n) == IF n >= 30 THEN 100 ELSE IF n >= 20 THEN 80 ELSE IF n >= 12 THEN 60 ELSE 30

\* _detect_fingerprint_format: anything unknown is taken for ISO.
Formats == {"wsq", "iso", "ansi"}

\* What a finger record holds: the announced count and resolution are read from ISO only.
Fingers == [format : Formats, announced : {0, 12, 65535}, resolution : {0, 500}, size : Sizes]

\* _count_minutiae
count_minutiae(f) ==
    IF f.format = "iso" /\ f.size >= 30 THEN Min({f.announced, 100}) ELSE 0

\* _extract_fingerprint_metadata
ResolutionOf(f) == IF f.format = "iso" /\ f.size >= 20 THEN f.resolution ELSE 500

ExtractIso_Unbounded(f) == IF f.size < 30 THEN 0 ELSE Min({f.announced, 100})

\* _extract_iso_minutiae stops where the bytes end; under 30 bytes it finds none.
ExtractIso(f) == IF f.size < 30 THEN 0 ELSE Min({f.announced, 100, (f.size - 30) \div 6})

\* _extract_wsq_minutiae makes up as many points as were counted, which is none.
ExtractWsq(f) == Min({count_minutiae(f), 50})

extract_minutiae(f) ==
    CASE f.format = "wsq" -> ExtractWsq(f)
      [] f.format = "iso" -> ExtractIso(f)
      [] OTHER -> 0

FormatScore(f) == IF f.format \in {"iso", "wsq"} THEN 100 ELSE 70

\* Each measure finds fault exactly when it gives its lowest score.
Lowest(scores, lowest) == {m \in DOMAIN scores : scores[m] = lowest[m]}

calculate_fingerprint_quality(f) ==
    LET scores == <<MinutiaeScore(count_minutiae(f)), Graded(ResolutionOf(f), 500, 400),
                    Graded(f.size, 1000, 500), FormatScore(f)>>
    IN  Rating(scores, Lowest(scores, <<30, 60, 60, 70>>))

Irises == [diameter : {2, 7, 100, 240}, rotation : {0, 10, 90}, size : Sizes]

\* _extract_iris_metadata: under 16 bytes the defaults stand.
DiameterOf(i) == IF i.size >= 16 THEN i.diameter ELSE 200

\* The radii are invented from the diameter, and so is their ratio (in tenths).
RatioScore(d) ==
    LET radius == d \div 3
        pupil == d \div 8
        Within(low, high) == radius * low <= pupil * 10 /\ pupil * 10 <= radius * high
    IN  IF radius > 0 /\ Within(2, 4) THEN 100
        ELSE IF radius > 0 /\ Within(1, 6) THEN 80 ELSE 50

\* abs(rotation), 0.0 when it is not read
RotationScore(i) ==
    IF i.size < 16 \/ i.rotation <= 5 THEN 100 ELSE IF i.rotation <= 15 THEN 80 ELSE 60

calculate_iris_quality(i) ==
    LET scores == <<Graded(DiameterOf(i), 200, 150), RatioScore(DiameterOf(i)),
                    Graded(i.size, 2000, 1000), RotationScore(i)>>
    IN  Rating(scores, Lowest(scores, <<60, 50, 60, 60>>))

\* quality_score stays None when enable_quality_assessment is off.
Rated(rating) == IF assess THEN rating ELSE [level |-> "unrated", issues |-> 0]

TemplateOf(kind, rating, points, size) ==
    [kind |-> kind, level |-> Rated(rating).level, issues |-> Rated(rating).issues,
     points |-> points, size |-> size]

FaceOf(i, s) == TemplateOf("face", calculate_image_quality(i), 0, s)
FingerOf(f) == TemplateOf("finger", calculate_fingerprint_quality(f), extract_minutiae(f), f.size)
IrisOf(i) == TemplateOf("iris", calculate_iris_quality(i), 0, i.size)

\* The _validate_*_template_security methods log a hash and reject nothing.
Hashed(e) == IF validate THEN [e EXCEPT !.hashes = @ + 1] ELSE e

Store(ts) ==
    /\ stored' = Append(stored, ts)
    /\ group' = "none" /\ templates' = <<>>

Fail_Quiet ==
    /\ group' = "none" /\ templates' = <<>>
    /\ UNCHANGED <<stored, events>>

\* The except clauses: an error is logged and the templates read so far are dropped.
Fail ==
    /\ events' = [events EXCEPT !.errors = @ + 1]
    /\ group' = "none" /\ templates' = <<>>
    /\ UNCHANGED stored

Begin(g) ==
    /\ group = "none"
    /\ Len(stored) + events.errors < MaxGroups
    /\ group' = g
    /\ UNCHANGED <<cv2, assess, validate, templates, stored, events>>

\* process_dg2_face. An unreadable image gets default dimensions and fails only in the rating.
process_dg2_face ==
    /\ group = "DG2"
    /\ \/ Fail                              \* under 20 bytes, or a zero owner or type
       \/ /\ assess /\ Fail                 \* unreadable image
       \/ \E i \in Images, s \in Sizes :
             events' = Hashed(events) /\ Store(<<FaceOf(i, s)>>)
    /\ UNCHANGED <<cv2, assess, validate>>

\* process_dg5_portrait validates neither header nor template.
process_dg5_portrait ==
    /\ group = "DG5"
    /\ \/ assess /\ Fail
       \/ \E i \in Images, s \in Sizes : Store(<<FaceOf(i, s)>>) /\ UNCHANGED events
    /\ UNCHANGED <<cv2, assess, validate>>

Keep(t) ==
    /\ Len(templates) < MaxRecords
    /\ templates' = Append(templates, t)
    /\ events' = Hashed(events)
    /\ UNCHANGED <<group, stored>>

\* The end of the records; one whose length field or bytes are missing is taken for it.
Truncated == Store(templates) /\ UNCHANGED events

\* process_dg3_fingerprint, one record at a time; Fail is an invalid header.
process_dg3_fingerprint ==
    /\ group = "DG3"
    /\ \/ \E f \in Fingers : Keep(FingerOf(f))
       \/ Truncated \/ Fail
    /\ UNCHANGED <<cv2, assess, validate>>

process_dg4_iris ==
    /\ group = "DG4"
    /\ \/ \E i \in Irises : Keep(IrisOf(i))
       \/ Truncated \/ Fail
    /\ UNCHANGED <<cv2, assess, validate>>

FaceNext ==
    \/ \E g \in DataGroups : Begin(g)
    \/ process_dg2_face \/ process_dg3_fingerprint \/ process_dg4_iris \/ process_dg5_portrait

FaceSpec == FaceInit /\ [][FaceNext]_faceVars

Stored == UNION {{stored[i][j] : j \in DOMAIN stored[i]} : i \in DOMAIN stored}
StoredCount == FoldSeq(LAMBDA g, n : Len(g) + n, 0, stored)

(* A fingerprint or an iris with two faults is never rated excellent, but  *)
(* a face may be: no brightness costs it a point.                          *)
FaultsLowerTheLevel ==
    \A t \in Stored : t.level = "excellent" => t.issues <= (IF t.kind = "face" THEN 2 ELSE 1)

(* A template that was validated and is in no stored group was dropped     *)
(* with the rest of its group by an error that was logged, or is still     *)
(* being read: one bad record costs the good ones read before it.          *)
DroppedNeedsError ==
    validate => (events.hashes > StoredCount => events.errors > 0 \/ templates # <<>>)

(* No fingerprint has more points than its bytes can hold, though the      *)
(* count it is rated by is only announced, not read.                       *)
PointsFit == \A t \in Stored : t.points > 0 => 30 + 6 * t.points <= t.size

-----------------------------------------------------------------------------
(***************************************************************************)
(* The card readers of marty_common/hardware: ReaderManager looks readers  *)
(* up by name and keeps them, PCSCReader holds the connection with the     *)
(* card lying on a reader, MockReader stands in for one. Readers and cards *)
(* come and go, the PC/SC service stops, and connecting, disconnecting and *)
(* sending can each fail half way.                                         *)
(***************************************************************************)
CONSTANTS
    Readers         \* names of PC/SC readers

Mock == "Mock Reader"
Names == Readers \union {Mock}

VARIABLES
    cardHost,       \* pyscard: "absent"; or its service "stopped" or "running"
    plugged,        \* readers attached to the host
    card,           \* readers with a card on them
    known,          \* ReaderManager.readers
    held,           \* readers whose card_service is set; the mock's connected flag
    link,           \* readers with an open connection to the card on them
    broken,         \* of those held: the card, reader or service went away, or the
                    \* opening failed
    answer          \* what the last call came to

cardVars == <<cardHost, plugged, card, known, held, link, broken, answer>>

CardTypeOK ==
    /\ cardHost \in {"absent", "stopped", "running"}
    /\ plugged \subseteq Readers /\ card \subseteq plugged
    /\ known \subseteq Names /\ held \subseteq known
    /\ link \subseteq card /\ broken \subseteq held
    /\ answer \in {"-", "True", "False", "None", "listed", "reader", "9000", "6D00", "atr", "raised"}

CardInit ==
    /\ cardHost \in {"absent", "stopped", "running"}
    /\ plugged = {} /\ card = {}
    /\ known = {} /\ held = {} /\ link = {} /\ broken = {}
    /\ answer = "-"

(* ReaderManager                                                           *)

\* Without pyscard there is the mock only; an error of the service is not caught.
discover_readers ==
    /\ answer' = IF cardHost = "stopped" THEN "raised" ELSE "listed"
    /\ UNCHANGED <<cardHost, plugged, card, known, held, link, broken>>

\* PCSCReader.__init__: ImportError without pyscard, ValueError for a name not attached.
PcscReader(n) ==
    CASE cardHost = "absent" -> "ImportError"
      [] cardHost = "running" /\ n \in plugged -> "reader"
      [] OTHER -> "raised"

\* get_reader: what is known is not looked for again; only an ImportError is caught.
Lookup(n) ==
    IF n \in known \union {Mock} THEN "reader"
    ELSE IF PcscReader(n) = "ImportError" THEN "None" ELSE PcscReader(n)

get_reader(n) ==
    /\ answer' = Lookup(n)
    /\ known' = IF Lookup(n) = "reader" THEN known \union {n} ELSE known
    /\ UNCHANGED <<cardHost, plugged, card, held, link, broken>>

Connected_Early(n, opens) ==
    /\ held' = held \union {n}
    /\ link' = IF n \in card /\ cardHost = "running" /\ opens THEN link \union {n} ELSE link \ {n}
    /\ broken' = broken \ {n}
    /\ answer' = IF link' = link \ {n} THEN "False" ELSE "True"

\* PCSCReader.connect: waitforcard gives up without a card and the reader keeps what it
\* held. With one, card_service is set before its connection is opened, which may fail; the
\* connection it replaces is closed with it.
Connected(n, opens) ==
    IF n \in card /\ cardHost = "running"
    THEN /\ held' = held \union {n}
         /\ link' = IF opens THEN link \union {n} ELSE link \ {n}
         /\ broken' = IF opens THEN broken \ {n} ELSE broken \union {n}
         /\ answer' = IF opens THEN "True" ELSE "False"
    ELSE answer' = "False" /\ UNCHANGED <<held, link, broken>>

MockConnect ==
    /\ held' = held \union {Mock}
    /\ answer' = "True"
    /\ UNCHANGED <<link, broken>>

connect_reader(n, opens) ==
    /\ IF Lookup(n) # "reader"
       THEN /\ answer' = IF Lookup(n) = "None" THEN "False" ELSE "raised"
            /\ UNCHANGED <<known, held, link, broken>>
       ELSE /\ known' = known \union {n}
            /\ IF n = Mock THEN MockConnect ELSE Connected(n, opens)
    /\ UNCHANGED <<cardHost, plugged, card>>

\* PCSCReader.disconnect of the readers asked: card_service is forgotten only after its
\* connection was closed, and an error is logged.
CardDisconnected_Forgets(asked, closes) ==
    /\ held' = held \ asked
    /\ link' = link \ closes
    /\ broken' = broken \ asked

CardDisconnected(asked, closes) ==
    /\ held' = held \ closes
    /\ link' = link \ closes
    /\ broken' = broken \ closes

\* The mock does not fail.
disconnect(n, closes) ==
    /\ n \in known
    /\ n \in held => CardDisconnected({n}, IF closes \/ n = Mock THEN {n} ELSE {})
    /\ n \notin held => UNCHANGED <<held, link, broken>>
    /\ answer' = "None"
    /\ UNCHANGED <<cardHost, plugged, card, known>>

disconnect_all(fail) ==
    /\ CardDisconnected(held, held \ (fail \ {Mock}))
    /\ answer' = "None"
    /\ UNCHANGED <<cardHost, plugged, card, known>>

(* Readers                                                                 *)

\* SELECT, READ BINARY within the data and GET CHALLENGE succeed.
MockAnswer(apdu) == IF apdu \in {"select", "read", "challenge"} THEN "9000" ELSE "6D00"

\* A card answers over an open connection, or the transmission fails.
send_apdu(n, apdu, arrives) ==
    /\ n \in known
    /\ answer' = IF n \notin held THEN "raised"
                 ELSE IF n = Mock THEN MockAnswer(apdu)
                 ELSE IF n \in link /\ arrives THEN "9000" ELSE "raised"
    /\ UNCHANGED <<cardHost, plugged, card, known, held, link, broken>>

get_atr(n, arrives) ==
    /\ n \in known
    /\ answer' = IF n \in held /\ (n = Mock \/ (n \in link /\ arrives)) THEN "atr" ELSE "None"
    /\ UNCHANGED <<cardHost, plugged, card, known, held, link, broken>>

(* The host                                                                *)

Lose(gone) == link' = link \ gone /\ broken' = broken \union (gone \intersect held)

Plug(r) ==
    /\ r \notin plugged
    /\ plugged' = plugged \union {r}
    /\ UNCHANGED <<cardHost, card, known, held, link, broken, answer>>

Unplug(r) ==
    /\ r \in plugged
    /\ plugged' = plugged \ {r} /\ card' = card \ {r}
    /\ Lose({r})
    /\ UNCHANGED <<cardHost, known, held, answer>>

PutCard(r) ==
    /\ r \in plugged \ card
    /\ card' = card \union {r}
    /\ UNCHANGED <<cardHost, plugged, known, held, link, broken, answer>>

PullCard(r) ==
    /\ r \in card
    /\ card' = card \ {r}
    /\ Lose({r})
    /\ UNCHANGED <<cardHost, plugged, known, held, answer>>

ServiceChanges ==
    /\ cardHost # "absent"
    /\ cardHost' = IF cardHost = "running" THEN "stopped" ELSE "running"
    /\ IF cardHost = "running" THEN Lose(Readers) ELSE UNCHANGED <<link, broken>>
    /\ UNCHANGED <<plugged, card, known, held, answer>>

CardNext ==
    \/ discover_readers
    \/ \E n \in Names :
          \/ get_reader(n)
          \/ \E ok \in BOOLEAN : connect_reader(n, ok) \/ disconnect(n, ok) \/ get_atr(n, ok)
          \/ \E apdu \in {"select", "other"}, ok \in BOOLEAN : send_apdu(n, apdu, ok)
    \/ \E fail \in SUBSET held : disconnect_all(fail)
    \/ \E r \in Readers : Plug(r) \/ Unplug(r) \/ PutCard(r) \/ PullCard(r)
    \/ ServiceChanges

CardSpec == CardInit /\ [][CardNext]_cardVars

\* A card whose connection is open belongs to a reader the manager knows and believes
\* connected: disconnect_all reaches every card, whatever failed before.
OpenIsReachable == link \subseteq known \intersect held

\* A reader that says it is connected and is not has lost its card, or its opening failed:
\* connect said False and is_connected says True.
HeldNeedsFault == (held \ {Mock}) \ link \subseteq broken
=============================================================================
