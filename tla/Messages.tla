------------------------------- MODULE Messages -------------------------------
(***************************************************************************)
(* HTTP messages as fiki reads them, and the signature base built from     *)
(* one: py/src/fiki/base.py.                                               *)
(*                                                                         *)
(* A message is a record.  Text is abstracted to members of small sets:    *)
(* a component value is a string, and Bad is any value with no single      *)
(* serialization (a line break, a control or non-ASCII character, or more  *)
(* than MAX_FIELD_BYTES).  A signature is the pair of the key that made it *)
(* and the base it was made over, so it verifies under exactly that pair:  *)
(* the Ed25519 implementation is external.                                 *)
(***************************************************************************)
EXTENDS Components

Bad == "bad"

\* Text that serializes, and is not a host with an optional port: user information, a list
\* of hosts, a bracket out of place, a port that is no port.
NotAHost == "user@api"

EmptyBody == "empty"

The(opt) == CHOOSE x \in opt : TRUE

MessageFields == {"response", "method", "url", "status", "headers", "body", "request"}

HeaderFields == {"signature", "input", "digest", "host", "field", "length", "te", "twice"}

UrlFields == {"form", "authority", "path", "query"}

\* A body handed over that holds at least one byte.
HasContent(body) == \E b \in body : b # EmptyBody

\* A header a message may or may not carry, by the name a covered list gives it.
FieldOf(name, headers) ==
    CASE name = ContentDigest -> headers.digest
      [] name = "host" -> headers.host
      [] name = "x-field" -> headers.field
      [] OTHER -> {}

\* Two header names equal but for their case are one field given two values.
NotCanonical(headers) == headers.twice

\* A URL that cannot be read is a base that cannot be built when the message
\* was received and the caller's mistake when it is being signed.
Unreadable(received) == IF received THEN "SignatureMismatch" ELSE "ValueError"

\* The authority of an absolute URL is the URL's, and of an origin-form one the Host
\* header's, which passes the same checks once it is known to serialize.
AuthorityRefusal(s, received) ==
    CASE s.url.form = "unreadable" -> Unreadable(received)
      [] s.url.form = "absolute" ->
            IF s.url.authority \in {Bad, NotAHost} THEN Unreadable(received) ELSE None
      [] OTHER ->
            IF s.headers.host = {} THEN "MissingComponent"
            ELSE IF s.headers.host = {Bad} THEN "SignatureMismatch"
            ELSE IF s.headers.host = {NotAHost} THEN Unreadable(received)
            ELSE None

Authority(s) ==
    IF s.url.form = "absolute" THEN s.url.authority ELSE The(s.headers.host)

\* The message a component is read from: a req component's is the answered request.
Subject(item, m) == IF "req" \in item.params THEN The(m.request) ELSE m

IsBad(value) == value = Bad

FieldRefusal(name, headers) ==
    IF FieldOf(name, headers) = {} THEN "MissingComponent"
    ELSE IF name = ContentDigest
    THEN IF The(headers.digest).raw = Bad THEN "SignatureMismatch" ELSE None
    ELSE IF IsBad(The(FieldOf(name, headers))) THEN "SignatureMismatch" ELSE None

\* Why a component of s has no value to put in a base, if it has none.
SubjectRefusal(name, s, received) ==
    CASE name = "@status" ->
            IF s.status \in 100..999 THEN None ELSE "MissingComponent"
      [] name = "@method" -> None
      [] name = "@authority" -> AuthorityRefusal(s, received)
      [] name = "@path" ->
            IF s.url.form = "unreadable" THEN Unreadable(received)
            ELSE IF IsBad(s.url.path) THEN "SignatureMismatch" ELSE None
      [] name = "@query" ->
            IF s.url.form = "unreadable" THEN Unreadable(received)
            ELSE IF IsBad(s.url.query) THEN "SignatureMismatch" ELSE None
      [] OTHER -> FieldRefusal(name, s.headers)

ItemRefusal(item, m, received) ==
    IF "req" \in item.params /\ m.request = {} THEN "MissingComponent"
    ELSE SubjectRefusal(item.name, Subject(item, m), received)

ValueOf(item, m) ==
    LET s == Subject(item, m)
    IN CASE item.name = "@status" -> s.status
         [] item.name = "@method" -> s.method
         [] item.name = "@authority" -> Authority(s)
         [] item.name = "@path" -> s.url.path
         [] item.name = "@query" -> s.url.query
         [] OTHER -> The(FieldOf(item.name, s.headers))

\* The refusal of the first element, in order, that has one.
FirstRefusal(refusals) ==
    IF \A i \in DOMAIN refusals : refusals[i] = None THEN None
    ELSE refusals[CHOOSE i \in DOMAIN refusals :
                    /\ refusals[i] # None
                    /\ \A j \in DOMAIN refusals : j < i => refusals[j] = None]

\* Components are read in the order the covered list names them, and the
\* first that has no value decides.
LinesRefusal(items, m, received) ==
    FirstRefusal([i \in DOMAIN items |-> ItemRefusal(items[i], m, received)])

LinesFor(items, m) == [i \in DOMAIN items |-> <<items[i], ValueOf(items[i], m)>>]

\* The base ends with the parameters: as received by a verifier, as chosen by a signer.
Base(items, m, params) == [lines |-> LinesFor(items, m), params |-> params]

\* External: Ed25519 over the base's bytes.
Sign(key, base) == [by |-> key, over |-> base]

SignatureVerifies(key, signature, base) == signature = Sign(key, base)

\* A length above zero, any transfer coding, or content.  A length that is not
\* a plain decimal is not evidence that there is no body.
RequestHasBody(headers, body) ==
    \/ HasContent(body)
    \/ headers.te
    \/ \E l \in headers.length : l # "zero"

\* A request handed over with its answer whose headers announce a body it does
\* not carry; beside an empty body only a length can contradict it.
AnnouncesLostBody(r) ==
    /\ ~HasContent(r.body)
    /\ RequestHasBody(IF r.body = {} THEN r.headers ELSE [r.headers EXCEPT !.te = FALSE], {})

DigestAlgorithms == {"sha-256", "sha-512"}

Recognized(digest) == {d \in digest.members : d.alg \in DigestAlgorithms}

\* Parse before any comparison.
ReadDigestRefusal(digest) ==
    IF \/ digest.raw = Bad \/ digest.shape # "dict"
       \/ \E d \in Recognized(digest) : ~d.bytes
       \/ Recognized(digest) = {}
    THEN "MalformedDigest" ELSE None

\* Mutant: one algorithm that matches is enough.
CompareAnyDigest(digest, body) ==
    IF body = {} \/ \A d \in Recognized(digest) : {d.of} # body
    THEN "DigestMismatch" ELSE None

\* Every recognized algorithm must match the body received.
CompareDigestRefusal(digest, body) ==
    IF body = {} \/ \E d \in Recognized(digest) : {d.of} # body
    THEN "DigestMismatch" ELSE None

\* The header fiki computes for a body: sha-256 alone.
DigestOf(b) ==
    [raw |-> "ok", shape |-> "dict",
     members |-> {[alg |-> "sha-256", bytes |-> TRUE, of |-> b]}]
===============================================================================
