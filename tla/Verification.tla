----------------------------- MODULE Verification -----------------------------
(***************************************************************************)
(* The checks of verify_request and verify_response, one operator for each *)
(* stage of py/src/fiki/messages.py: a stage returns None, or the refusal  *)
(* it raises.  Verifier runs the stages as steps; Refusal runs them as one *)
(* call, for the modules that need only a call's answer.                   *)
(*                                                                         *)
(* A policy is the record of a call's arguments.  An optional argument is  *)
(* the empty set when it is None.                                          *)
(***************************************************************************)
EXTENDS Messages, Integers

CONSTANTS
    Keys,       \* raw 32-byte values, each an Ed25519 key or no key at all
    SoundKeys,  \* those that are canonical curve points not of small order
    Ids         \* transferable AIDs, whose current key only a resolver knows

ASSUME KeysAssumption == SoundKeys \subseteq Keys /\ Keys \cap Ids = {}

\* The spellings of a keyid: fiki's own 43-character raw key, a well-formed
\* AID (of a key, or a transferable one), text that is neither, or nothing.
RawKeyid(key) == [form |-> "raw", id |-> key]
Aid(id) == [form |-> "aid", id |-> id]
GarbledKeyid == [form |-> "garbled", id |-> "text"]
EmptyKeyid == [form |-> "empty", id |-> "text"]

Keyids ==
    {RawKeyid(k) : k \in Keys} \cup {Aid(i) : i \in Keys \cup Ids}
      \cup {GarbledKeyid, EmptyKeyid}

WellFormedAid(keyid) == keyid.form = "aid"

\* Mutant: the crypto library's own exception escapes.
PublicKeyRaises(key) == IF key \in SoundKeys THEN None ELSE "InvalidKey"

\* public_key: no signature is examined under a key no honest signer holds.
KeyRefusal(key) == IF key \in SoundKeys THEN None ELSE "MalformedKey"

-------------------------------------------------------------------------------
(* The call: what is wrong with the arguments, before the message is read. *)

BadWindow(p) == p.skew <= 0 \/ \E a \in p.maxAge : a <= 0

BadExpectedKeyid(p) == p.expectedKeyid = {EmptyKeyid}

BadAuthorities(p) == p.authorities = {{}}

TwoKeySources(p) == p.expectedAid # {} /\ p.resolving

RequestCallRefusal(m, p) ==
    IF BadWindow(p) \/ BadExpectedKeyid(p) \/ BadAuthorities(p) THEN "ValueError"
    ELSE FlooredRefusal(p.minimum, RequestMinimum)
           ?? IF NotCanonical(m.headers) \/ ~IsToken(m.method) THEN "ValueError"
              ELSE IF TwoKeySources(p) THEN "TypeError" ELSE None

\* An empty Signature is no signature.
Unsigned401(m) ==
    /\ m.status = 401
    /\ \A f \in m.headers.signature : f.shape = "empty"

ResponseCallRefusal(m, p) ==
    IF BadWindow(p) \/ BadExpectedKeyid(p) THEN "ValueError"
    ELSE FlooredRefusal(p.minimum, ResponseMinimum)
           ?? IF \/ NotCanonical(m.headers)
                 \/ \E r \in m.request : NotCanonical(r.headers) \/ AnnouncesLostBody(r)
              THEN "ValueError"
              ELSE IF Unsigned401(m) THEN "Unauthenticated"
              ELSE IF \E r \in m.request : ~IsToken(r.method) THEN "ValueError"
              ELSE IF TwoKeySources(p) THEN "TypeError" ELSE None

CallRefusal(m, p) ==
    IF m.response THEN ResponseCallRefusal(m, p) ELSE RequestCallRefusal(m, p)

-------------------------------------------------------------------------------
(* The headers: one signature and its input, or what is wrong with them.   *)

\* Absent and empty are the same.
Missing(field) == \A f \in field : f.shape = "empty"

SignatureParses(f) ==
    f.shape = "dict" /\ \A i \in DOMAIN f.members : f.members[i].bytes

RequireKeyid(p) == p.expectedAid = {} \/ p.minimum # {}

RequireCreated(p) == p.minimum # {}

\* A covered item named by something other than a lowercase quoted string.
BadlyNamed(item) == item.name = "42" \/ item.name # AsciiLower(item.name)

InputMemberRefusal(member, p) ==
    IF ~member.list \/ \E i \in DOMAIN member.items : BadlyNamed(member.items[i])
    THEN "MalformedSignatureInput"
    ELSE IF RequireKeyid(p) /\ member.params.keyid = {} THEN "MissingKey"
    ELSE IF \/ RequireCreated(p) /\ member.params.created = {}
            \/ member.params.bad
    THEN "MalformedSignatureInput"
    ELSE None

InputsRefusal(f, p) ==
    IF f.shape # "dict" THEN "MalformedSignatureInput"
    ELSE FirstRefusal([i \in DOMAIN f.members |-> InputMemberRefusal(f.members[i], p)])

PairRefusal(sigs, inputs) ==
    IF Len(inputs.members) # 1 \/ Len(sigs.members) # 1 THEN "MalformedSignatureLabel"
    ELSE IF inputs.members[1].label # sigs.members[1].label THEN "MissingSignatureLabel"
    ELSE IF ~sigs.members[1].full THEN "MalformedSignatureValue"
    ELSE None

ReadRefusal(m, p) ==
    IF Missing(m.headers.signature) THEN "MissingSignature"
    ELSE IF Missing(m.headers.input) THEN "MissingSignatureInput"
    ELSE IF ~SignatureParses(The(m.headers.signature)) THEN "MalformedSignature"
    ELSE InputsRefusal(The(m.headers.input), p)
           ?? PairRefusal(The(m.headers.signature), The(m.headers.input))

\* What a message that reads holds: the one inner list and the one signature.
Inner(m) == The(m.headers.input).members[1]
Signature(m) == The(m.headers.signature).members[1].value
ItemsOf(m) == Inner(m).items
ParamsOf(m) == Inner(m).params

-------------------------------------------------------------------------------
(* The covered list.                                                       *)

HasBody(m) == IF m.response THEN HasContent(m.body) ELSE RequestHasBody(m.headers, m.body)

\* Mutant: the request's content is forgotten on both sides.
RequestForgotten(m) == FALSE

RequestHadBody(m) == \E r \in m.request : HasContent(r.body)

CoverageRefusal(m, p) ==
    CheckCovered(ItemsOf(m), m.response)
      ?? IF \/ \E minimum \in p.minimum :
                ~CoversMinimum(ItemsOf(m), minimum, HasBody(m), RequestHadBody(m))
            \/ p.authorities # {} /\ ~CoversMinimum(ItemsOf(m), {Item("@authority")}, FALSE, FALSE)
         THEN "InsufficientCoverage" ELSE None

-------------------------------------------------------------------------------
(* The key.                                                                *)

\* Mutant: under a resolver, any keyid is the resolver's business.
LocalKeyUnread(keyid, p) ==
    IF p.expectedAid # {} THEN KeyRefusal(The(p.expectedAid).id)
    ELSE IF keyid \in {{}, {EmptyKeyid}} THEN "MissingKey"
    ELSE IF p.resolving THEN None
    ELSE IF The(keyid).form = "raw" THEN KeyRefusal(The(keyid).id) ELSE "MalformedKey"

\* What the keyid alone shows; a raw keyid's key is examined here.
LocalKeyRefusal(keyid, p) ==
    IF p.expectedAid # {}
    THEN IF WellFormedAid(The(p.expectedAid)) /\ The(p.expectedAid).id \in Keys
         THEN KeyRefusal(The(p.expectedAid).id) ELSE "MalformedKey"
    ELSE IF keyid \in {{}, {EmptyKeyid}} THEN "MissingKey"
    ELSE IF p.resolving
    THEN IF WellFormedAid(The(keyid)) THEN None ELSE "MalformedKey"
    ELSE IF The(keyid).form = "raw" THEN KeyRefusal(The(keyid).id) ELSE "MalformedKey"

UnexpectedKeyidRefusal(keyid, p) ==
    IF p.expectedKeyid # {} /\ keyid # p.expectedKeyid THEN "UnknownKey" ELSE None

\* A resolver answers with a key, with nothing, or by raising UnsupportedSigner.
ResolvedRefusal(answer) ==
    IF answer = {"UnsupportedSigner"} THEN "UnsupportedSigner"
    ELSE IF answer = {} THEN "UnknownKey"
    ELSE KeyRefusal(The(answer))

\* Mutant: the keyid is believed over the expected AID.
KeyClaimed(keyid, p, answer) ==
    IF p.resolving THEN The(answer)
    ELSE IF keyid = {} THEN The(p.expectedAid).id
    ELSE The(keyid).id

\* The key to verify with, once none of the above refuses.
KeyFor(keyid, p, answer) ==
    IF p.expectedAid # {} THEN The(p.expectedAid).id
    ELSE IF p.resolving THEN The(answer)
    ELSE The(keyid).id

\* The identity that vouched for the key.
VouchedBy(keyid, p) ==
    IF p.expectedAid # {} THEN The(p.expectedAid)
    ELSE IF p.resolving THEN The(keyid)
    ELSE Aid(The(keyid).id)

AlgorithmRefusal(params) ==
    IF params.alg \in {{}, {"ed25519"}} THEN None ELSE "UnsupportedAlgorithm"

-------------------------------------------------------------------------------
(* The base and the signature, then what only a verified base may decide.  *)

\* Mutant: the signature is by the right key, over whatever it is over.
SignedBySomeone(m, key) ==
    LinesRefusal(ItemsOf(m), m, TRUE)
      ?? IF Signature(m).by = key THEN None ELSE "SignatureMismatch"

\* Mutant: the signature is over the right base, by whatever key.
SignedByAnyone(m, key) ==
    LinesRefusal(ItemsOf(m), m, TRUE)
      ?? IF Signature(m).over = Base(ItemsOf(m), m, ParamsOf(m)) THEN None ELSE "SignatureMismatch"

SignatureRefusal(m, key) ==
    LinesRefusal(ItemsOf(m), m, TRUE)
      ?? IF SignatureVerifies(key, Signature(m), Base(ItemsOf(m), m, ParamsOf(m)))
         THEN None ELSE "SignatureMismatch"

\* Mutant: an authority that came in the Host header is not looked at.
AuthorityOfUrlServed(m, p) ==
    IF m.url.form = "absolute" /\ p.authorities # {} /\ Authority(m) \notin The(p.authorities)
    THEN "SignatureMismatch" ELSE None

AuthorityServedRefusal(m, p) ==
    IF \E served \in p.authorities, i \in DOMAIN ItemsOf(m) :
         /\ ItemsOf(m)[i].name = "@authority"
         /\ ValueOf(ItemsOf(m)[i], m) \notin served
    THEN "SignatureMismatch" ELSE None

\* Mutant: a message at the very edge of the window is outside it.
TooOldAtTheEdge(params, p, now) ==
    \E age \in p.maxAge :
      \/ params.created = {}
      \/ \E c \in params.created : now - c >= age + p.skew \/ c - now > p.skew

\* Mutant: the window is a second longer than it was asked to be.
TooOldLate(params, p, now) ==
    \E age \in p.maxAge :
      \/ params.created = {}
      \/ \E c \in params.created : now - c > age + p.skew + 1 \/ c - now > p.skew

\* A signature of no known age is too old for a verifier that limits it.
TooOld(params, p, now) ==
    \E age \in p.maxAge :
      \/ params.created = {}
      \/ \E c \in params.created : now - c > age + p.skew \/ c - now > p.skew

FreshnessRefusal(params, p, now) ==
    IF TooOld(params, p, now) THEN "SignatureTooOld"
    ELSE IF \E e \in params.expires : now > e + p.skew THEN "SignatureExpired"
    ELSE None

\* Mutant: the digest is covered, and the body never hashed.
DigestsUnhashed(m) == {}

\* The digests the signature covers, each with the body it is recomputed over.
DigestsCovered(m) ==
    (IF CoversBody(ItemsOf(m)) THEN {<<The(m.headers.digest), m.body>>} ELSE {})
      \cup (IF BindsRequestDigest(ItemsOf(m))
            THEN {<<The(r.headers.digest), r.body>> : r \in m.request} ELSE {})

\* Mutant: each digest is compared as soon as it is parsed, the request's first.
DigestsInTurn(m) ==
    LET request == IF BindsRequestDigest(ItemsOf(m)) THEN m.request ELSE {}
        each(d) == ReadDigestRefusal(d[1]) ?? CompareDigestRefusal(d[1], d[2])
    IN  IF \E r \in request : r.body = {} THEN "ValueError"
        ELSE (IF request = {} THEN None
              ELSE each(<<The(The(request).headers.digest), The(request).body>>))
               ?? (IF CoversBody(ItemsOf(m)) THEN each(<<The(m.headers.digest), m.body>>) ELSE None)

DigestRefusal(m) ==
    IF BindsRequestDigest(ItemsOf(m)) /\ \E r \in m.request : r.body = {}
    THEN "ValueError"
    ELSE IF \E d \in DigestsCovered(m) : ReadDigestRefusal(d[1]) # None
    THEN "MalformedDigest"
    ELSE IF \E d \in DigestsCovered(m) : CompareDigestRefusal(d[1], d[2]) # None
    THEN "DigestMismatch"
    ELSE None

\* The whole call, the resolver's answer and the clock as it finds them.
KeyStageRefusal(m, p, answer) ==
    LocalKeyRefusal(ParamsOf(m).keyid, p)
      ?? (UnexpectedKeyidRefusal(ParamsOf(m).keyid, p)
      ?? ((IF p.resolving THEN ResolvedRefusal(answer) ELSE None)
      ?? AlgorithmRefusal(ParamsOf(m))))

Refusal(m, p, answer, now) ==
    CallRefusal(m, p) ?? (ReadRefusal(m, p) ?? (CoverageRefusal(m, p)
      ?? (KeyStageRefusal(m, p, answer)
      ?? (SignatureRefusal(m, KeyFor(ParamsOf(m).keyid, p, answer))
      ?? (AuthorityServedRefusal(m, p)
      ?? (FreshnessRefusal(ParamsOf(m), p, now)
      ?? DigestRefusal(m)))))))

\* Every way a call can end without a verdict.
PolicyRefusals == {"SignatureTooOld", "SignatureExpired", "MalformedDigest", "DigestMismatch"}

Refusals ==
    {"ValueError", "TypeError", "Unauthenticated", "MissingSignature", "MissingSignatureInput",
     "MalformedSignature", "MalformedSignatureInput", "MissingKey", "MalformedSignatureLabel",
     "MissingSignatureLabel", "MalformedSignatureValue", "DuplicateComponent",
     "UnsupportedComponent", "InsufficientCoverage", "MalformedKey", "UnknownKey",
     "UnsupportedSigner", "UnsupportedAlgorithm", "MissingComponent", "SignatureMismatch"}
      \cup PolicyRefusals

\* The profile's code for each class of refusal (the relation that ends section 9).
CodeOf(class) ==
    CASE class = "MissingSignature" -> "missing-signature"
      [] class = "MissingSignatureInput" -> "missing-signature-input"
      [] class = "MalformedSignature" -> "malformed-signature"
      [] class \in {"MalformedSignatureInput", "MissingKey"} -> "malformed-signature-input"
      [] class = "MalformedSignatureLabel" -> "malformed-signature-label"
      [] class = "MissingSignatureLabel" -> "missing-signature-label"
      [] class = "MalformedSignatureValue" -> "malformed-signature-value"
      [] class = "DuplicateComponent" -> "duplicate-component"
      [] class = "UnsupportedComponent" -> "unsupported-component"
      [] class = "InsufficientCoverage" -> "insufficient-coverage"
      [] class = "MalformedKey" -> "malformed-key"
      [] class = "UnknownKey" -> "unknown-key"
      [] class = "UnsupportedSigner" -> "unsupported-signer"
      [] class = "UnsupportedAlgorithm" -> "unsupported-algorithm"
      [] class = "MissingComponent" -> "missing-component"
      [] class = "SignatureMismatch" -> "signature-mismatch"
      [] class = "SignatureTooOld" -> "signature-stale"
      [] class = "SignatureExpired" -> "signature-expired"
      [] class = "MalformedDigest" -> "malformed-digest"
      [] class = "DigestMismatch" -> "digest-mismatch"
      [] class = "Unauthenticated" -> "unauthenticated"
      [] class \in {"ValueError", "TypeError"} -> "mistake"
      [] OTHER -> class

\* The verdict of a call that refuses nothing.
Verdict(m, p) ==
    [aid |-> VouchedBy(ParamsOf(m).keyid, p),
     covered |-> ItemsOf(m),
     keyid |-> ParamsOf(m).keyid]

-------------------------------------------------------------------------------
(* The resolver, which is the caller's.                                    *)

\* What a resolver answers: a key, nothing, or that the signer is unsupported.
Answers == Opt(Keys) \cup {{"UnsupportedSigner"}}

\* The resolver the caller supplied, over the key state it holds.  A
\* non-transferable AID is its own key.
Lookup(state, keyid) ==
    IF keyid.id \in Ids THEN state[keyid.id] ELSE {keyid.id}

\* What a lookup of the call's keyid says now; nothing when there is none to look up.
LookupNow(c, state) ==
    IF ReadRefusal(c.msg, c.policy) = None
    THEN UNION {IF WellFormedAid(k) THEN Lookup(state, k) ELSE {} : k \in ParamsOf(c.msg).keyid}
    ELSE {}
-------------------------------------------------------------------------------
(* The calls there are.                                                    *)

\* One message: a header is there once or not at all, and a parsed Signature-Input holds
\* sequences.
TypedHeaders(headers) ==
    /\ AtMostOne(headers.signature) /\ AtMostOne(headers.input)
    /\ AtMostOne(headers.digest) /\ AtMostOne(headers.length)
    /\ \A f \in headers.input :
         /\ IsSequence(f.members)
         /\ \A i \in DOMAIN f.members :
              /\ IsSequence(f.members[i].items)
              /\ \A j \in DOMAIN f.members[i].items : f.members[i].items[j].params \subseteq {"req", "other"}
              /\ OneOf(f.members[i].params.keyid, Keyids)
              /\ OneOf(f.members[i].params.created, Int)
              /\ OneOf(f.members[i].params.expires, Int)

\* The arguments and the message are of the types the signatures in messages.py give them.
TypedCall(c) ==
    /\ OneOf(c.policy.expectedAid, Keyids)
    /\ OneOf(c.policy.expectedKeyid, Keyids)
    /\ c.policy.resolving \in BOOLEAN
    /\ AtMostOne(c.policy.authorities)
    /\ OneOf(c.policy.maxAge, Int)
    /\ c.policy.skew \in Int
    /\ TypedHeaders(c.msg.headers)
    /\ AtMostOne(c.msg.body) /\ AtMostOne(c.msg.request)
    /\ \A r \in c.msg.request : AtMostOne(r.headers.digest) /\ AtMostOne(r.body)

\* Where section 9 and the code name the same refusal: no component is missing after one
\* that cannot be built, and a keyid that is the key's only source is not the empty string,
\* which the code refuses as a keyid that is absent (MissingKey), and only after the
\* covered list.  The verifier's own minimum parses: one that does not is the caller's
\* mistake, and is refused in the words of a message's unsupported component.
Undisputed(c) ==
    /\ \A spec \in UNION c.policy.minimum : spec.name # Unparsed
    /\ ReadRefusal(c.msg, c.policy) = None =>
         LET refusals == {ItemRefusal(i, c.msg, TRUE) : i \in ElementsOf(ItemsOf(c.msg))}
         IN  /\ ~({"MissingComponent", "SignatureMismatch"} \subseteq refusals)
             /\ c.policy.expectedAid = {} => ParamsOf(c.msg).keyid # {EmptyKeyid}
===============================================================================
