------------------------- MODULE SignatureDocuments -------------------------
(***************************************************************************)
(* models/digital_signatures.py: the XMLDSIG and CMS structures, handed on *)
(* as dictionaries (to_dict, from_dict) or as bytes (to_der, from_der,     *)
(* which send the dictionary through JSON). A behaviour follows one object *)
(* of one class over any number of hand-overs. Required attributes pass    *)
(* unchanged and are left out; of the others the model keeps how the code  *)
(* tests them and whether a value is missing, empty or there.              *)
(***************************************************************************)
EXTENDS Naturals

CONSTANT
    MaxHops         \* hand-overs counted

VARIABLES
    class,          \* the class of the object
    first,          \* the object as it was built
    sender,         \* the object before the last hand-over
    doc,            \* the object now
    hops,           \* hand-overs so far
    shared,         \* the sender's x509_data is the dictionary that doc refers to
    certified       \* whether set_x509_certificate has replaced the certificate of: the sender, doc

vars == <<class, first, sender, doc, hops, shared, certified>>

-----------------------------------------------------------------------------
\* How each class writes its attributes: "optional" ones are dropped when empty and read with
\* get, "listed" ones have an empty list by default, "nested" ones are objects (never false),
\* "kept" ones are compared with None.
Reference == [transforms |-> "listed", id |-> "optional", type |-> "optional"]
KeyInfo == [id |-> "optional", x509_data |-> "optional", key_name |-> "optional",
            key_value |-> "optional", retrieval_method |-> "optional"]
SignedInfo == [id |-> "optional"]
XMLDSigSignature == [key_info |-> "nested", id |-> "optional", object_data |-> "optional"]
SignerIdentifier == [issuer_and_serial |-> "nested", subject_key_identifier |-> "optional"]
AlgorithmIdentifier == [parameters |-> "kept"]
SignerInfo == [signed_attrs |-> "optional", unsigned_attrs |-> "optional"]
EncapsulatedContent == [content |-> "content"]
CMSSignedData == [certificates |-> "optional", crls |-> "optional", content |-> "content"]
SignatureValidationResult == [signing_time |-> "nested", signer_certificate |-> "optional",
                              errors |-> "listed", warnings |-> "listed"]

Classes == {Reference, KeyInfo, SignedInfo, XMLDSigSignature, SignerIdentifier,
            AlgorithmIdentifier, SignerInfo, EncapsulatedContent, CMSSignedData,
            SignatureValidationResult}

\* Contents: b0 is no bytes at all; e1, e2 and e3 are the base64 texts of b1, b2 and b3; b2 is itself
\* the ASCII of e1 and b3 that of e2. Of the other texts t0 is empty, "plain" has a length that 4 does not divide,
\* "broken" has such a length and does not decode, "dotted" decodes to b1 once the characters
\* outside the alphabet are discarded, which b64decode does, and "hollow" to no bytes at all.
Bytes == {"b0", "b1", "b2", "b3"}
Texts == {"t0", "plain", "broken", "dotted", "hollow", "e1", "e2", "e3"}

b64encode == [b0 |-> "t0", b1 |-> "e1", b2 |-> "e2", b3 |-> "e3"]
b64decode == [e1 |-> "b1", e2 |-> "b2", e3 |-> "b3", dotted |-> "b1", hollow |-> "b0"]

Values(kind) ==
    CASE kind \in {"optional", "kept"} -> {"none", "empty", "full"}
      [] kind = "nested" -> {"none", "full"}
      [] kind = "listed" -> {"empty", "full"}
      [] kind = "content" -> {"none"} \cup Bytes \cup Texts

Objects(c) == {d \in [DOMAIN c -> UNION {Values(c[a]) : a \in DOMAIN c}] :
                  \A a \in DOMAIN c : d[a] \in Values(c[a])}

TypeOK ==
    /\ class \in Classes
    /\ {first, sender, doc} \subseteq Objects(class)
    /\ hops \in 0 .. MaxHops
    /\ shared \in BOOLEAN /\ certified \in [sender : BOOLEAN, doc : BOOLEAN]

-----------------------------------------------------------------------------
ToContent_Ascii(v) ==
    CASE v = "b2" -> "e1" [] v = "b3" -> "e2" [] v \in Bytes -> b64encode[v]
      [] v \in {"none", "t0"} -> "absent" [] OTHER -> v

\* EncapsulatedContent.to_dict encodes bytes, also when there are none, and drops an empty text.
ToContent(v) ==
    CASE v \in Bytes -> b64encode[v]
      [] v \in {"none", "t0"} -> "absent" [] OTHER -> v

\* EncapsulatedContent.from_dict decodes whatever text can be decoded.
FromContent(v) ==
    CASE v = "absent" -> "none" [] v \in DOMAIN b64decode -> b64decode[v] [] OTHER -> v

Written_Truthy(kind, v) ==
    CASE kind = "content" -> ToContent(v) [] OTHER -> IF v = "full" THEN v ELSE "absent"

\* What to_dict writes for an attribute.
Written(kind, v) ==
    CASE kind = "content" -> ToContent(v)
      [] kind = "kept" -> IF v = "none" THEN "absent" ELSE v
      [] OTHER -> IF v = "full" THEN v ELSE "absent"

\* What from_dict makes of it.
Restored(kind, v) ==
    CASE kind = "content" -> FromContent(v)
      [] kind = "listed" -> IF v = "absent" THEN "empty" ELSE v
      [] OTHER -> IF v = "absent" THEN "none" ELSE v

Received(d) == [a \in DOMAIN class |-> Restored(class[a], Written(class[a], d[a]))]

-----------------------------------------------------------------------------
Init ==
    /\ class \in Classes
    /\ first \in Objects(class) /\ sender = first /\ doc = first
    /\ hops = 0 /\ shared = FALSE /\ certified = [sender |-> FALSE, doc |-> FALSE]

Aliased_Always(json) == ~json /\ class = KeyInfo

\* to_dict puts a non-empty x509_data into the dictionary itself and from_dict takes it from there.
Aliased(json) == ~json /\ "x509_data" \in DOMAIN class /\ doc.x509_data = "full"

HandOver(json) ==
    /\ hops < MaxHops
    /\ hops' = hops + 1
    /\ sender' = doc /\ doc' = Received(doc)
    /\ shared' = Aliased(json)
    /\ certified' = [sender |-> FALSE, doc |-> FALSE]
    /\ UNCHANGED <<class, first>>

dicts == HandOver(FALSE)

der == class = CMSSignedData /\ HandOver(TRUE)

\* An x509_data that is missing or empty is replaced, any other is changed where it is.
set_x509_certificate ==
    /\ class = KeyInfo
    /\ doc' = [doc EXCEPT !.x509_data = "full"]
    /\ certified' = [sender |-> certified.sender \/ shared, doc |-> TRUE]
    /\ UNCHANGED <<class, first, sender, hops, shared>>

Next == dicts \/ der \/ set_x509_certificate

Spec == Init /\ [][Next]_vars

-----------------------------------------------------------------------------
\* Signed bytes survive any number of hand-overs, also bytes that are themselves base64 text: every
\* to_dict of EncapsulatedContent encodes once what the from_dict after it decodes once.
BytesSurvive ==
    "content" \in DOMAIN class /\ first.content \in Bytes \ {"b0"} => doc.content = first.content

\* Three hand-overs reach a form that no further one changes. Fewer are not enough: a text of
\* characters outside the alphabet becomes empty bytes, these an empty text, and that nothing.
SettlesInThree == hops >= 3 => Received(doc) = doc

OnlyEmptinessIsLost_Step ==
    hops' = hops + 1 =>
        \A a \in DOMAIN class :
            class[a] # "content" /\ doc'[a] # doc[a] =>
                class[a] = "optional" /\ doc[a] = "empty" /\ doc'[a] = "none"

\* Apart from contents, a hand-over changes nothing but optional attributes that are empty, which
\* become None: lists stay lists, and parameters that are empty, zero or false are kept.
OnlyEmptinessIsLost == [][OnlyEmptinessIsLost_Step]_vars

\* set_x509_certificate on a received KeyInfo changes the sender's too only if the sender had
\* certificate data: the two then share one dictionary.
SharedNeedsData == certified.sender => sender.x509_data = "full"

=============================================================================
