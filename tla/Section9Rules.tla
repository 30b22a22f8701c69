----------------------------- MODULE Section9Rules -----------------------------
(***************************************************************************)
(* The one correct code of a message, as docs/keri-profile.md section 9    *)
(* gives it: a list of rules in the document's order, each with its own    *)
(* condition on the message, and the first rule met.                       *)
(*                                                                         *)
(* Written from the document; nothing in it models code.                   *)
(***************************************************************************)
EXTENDS Verification

\* The rules in section 9's order, each with the code it reports.
Rules ==
    << <<"call", "mistake">>,
       <<"no signature", "missing-signature">>,
       <<"no input", "missing-signature-input">>,
       <<"signature unreadable", "malformed-signature">>,
       <<"input unreadable", "malformed-signature-input">>,
       <<"not one label", "malformed-signature-label">>,
       <<"labels differ", "missing-signature-label">>,
       <<"value short", "malformed-signature-value">>,
       <<"duplicate", "duplicate-component">>,
       <<"unsupported", "unsupported-component">>,
       <<"minimum uncovered", "insufficient-coverage">>,
       <<"keyid malformed", "malformed-key">>,
       <<"keyid unexpected", "unknown-key">>,
       <<"keyid unknown", "unknown-key">>,
       <<"signer unsupported", "unsupported-signer">>,
       <<"resolved key malformed", "malformed-key">>,
       <<"algorithm", "unsupported-algorithm">>,
       <<"component missing", "missing-component">>,
       <<"base or signature", "signature-mismatch">>,
       <<"authority not served", "signature-mismatch">>,
       <<"stale", "signature-stale">>,
       <<"expired", "signature-expired">>,
       <<"request body withheld", "mistake">>,
       <<"digest malformed", "malformed-digest">>,
       <<"digest mismatched", "digest-mismatch">> >>

\* Under a minimum, or without a key of its own, the verifier needs a keyid.
ParameterMissing(params, p) ==
    \/ params.keyid = {} /\ (p.minimum # {} \/ p.expectedAid = {})
    \/ params.created = {} /\ p.minimum # {}

MustCover(m, p) ==
    {Component(c) : c \in UNION p.minimum}
      \cup (IF p.authorities # {} THEN {Item("@authority")} ELSE {})
      \cup (IF p.minimum = {} THEN {} ELSE
             (IF ~m.response /\ (HasContent(m.body) \/ m.headers.te \/ m.headers.length \notin {{}, {"zero"}})
              THEN {Item(ContentDigest)} ELSE {})
             \cup (IF m.response /\ HasContent(m.body) THEN {Item(ContentDigest)} ELSE {})
             \cup {Req(ContentDigest) : r \in {x \in m.request : HasContent(x.body)}})

\* The key an honest verifier would use: its own, the resolver's, or the keyid's.
KeyOf(m, p, answer) ==
    IF p.expectedAid # {} THEN The(p.expectedAid).id
    ELSE IF p.resolving THEN The(answer) ELSE The(ParamsOf(m).keyid).id

\* A keyid, or the key the caller names instead of one, that names no key at all.
KeyidMalformed(m, p) ==
    IF p.expectedAid # {}
    THEN The(p.expectedAid).form # "aid" \/ The(p.expectedAid).id \notin SoundKeys
    ELSE \E k \in ParamsOf(m).keyid :
           IF p.resolving THEN k.form # "aid" ELSE k.form # "raw" \/ k.id \notin SoundKeys

\* A body digest and the content it must be of.
Digests(m) ==
    {<<d, m.body>> : d \in IF Item(ContentDigest) \in ElementsOf(ItemsOf(m)) THEN m.headers.digest ELSE {}}
      \cup UNION {{<<d, r.body>> : d \in r.headers.digest} :
                  r \in IF Req(ContentDigest) \in ElementsOf(ItemsOf(m)) THEN m.request ELSE {}}

Known(digest) == {d \in digest.members : d.alg \in {"sha-256", "sha-512"}}

\* The headers.
Unsigned(m) == \A f \in m.headers.signature : f.shape = "empty"
NoInput(m) == \A f \in m.headers.input : f.shape = "empty"

SignatureUnreadable(m) ==
    \E f \in m.headers.signature : f.shape # "dict" \/ \E s \in ElementsOf(f.members) : ~s.bytes

MemberUnreadable(s, p) ==
    \/ ~s.list \/ s.params.bad \/ ParameterMissing(s.params, p)
    \/ \E i \in ElementsOf(s.items) : i.name \in {"42", "X-Field"}

InputUnreadable(m, p) ==
    \E f \in m.headers.input :
      f.shape # "dict" \/ \E s \in ElementsOf(f.members) : MemberUnreadable(s, p)

NotOneLabel(m) == \E f \in m.headers.signature \cup m.headers.input : Len(f.members) # 1

LabelsDiffer(m) ==
    \E f \in m.headers.signature, g \in m.headers.input : f.members[1].label # g.members[1].label

ValueShort(m) == \E f \in m.headers.signature : ~f.members[1].full

\* The covered list.
CoversTwice(m) == Cardinality(ElementsOf(ItemsOf(m))) < Len(ItemsOf(m))

UnsupportedIn(i, m) ==
    \/ "other" \in i.params
    \/ "req" \in i.params /\ ~m.response
    \/ i.name = "@other"
    \/ i.name = "@status" /\ (~m.response \/ "req" \in i.params)
    \/ i.name \in Derived /\ m.response /\ i.params = {}

CoversUnsupported(m) == \E i \in ElementsOf(ItemsOf(m)) : UnsupportedIn(i, m)

MinimumUncovered(m, p) == ~(MustCover(m, p) \subseteq ElementsOf(ItemsOf(m)))

\* The key.
KeyidUnexpected(m, p) == p.expectedKeyid # {} /\ p.expectedKeyid # ParamsOf(m).keyid

AlgorithmUnsupported(m) == \E a \in ParamsOf(m).alg : a # "ed25519"

\* The base and the signature.
CoversMissing(m) == \E i \in ElementsOf(ItemsOf(m)) : ItemRefusal(i, m, TRUE) = "MissingComponent"

NotSigned(m, p, answer) ==
    \/ \E i \in ElementsOf(ItemsOf(m)) : ItemRefusal(i, m, TRUE) # None
    \/ Signature(m) # [by |-> KeyOf(m, p, answer), over |-> Base(ItemsOf(m), m, ParamsOf(m))]

NotServed(m, p) == p.authorities # {} /\ Authority(m) \notin UNION p.authorities

\* The window.
Stale(m, p, now) ==
    \E a \in p.maxAge : \A c \in ParamsOf(m).created : now \notin (c - p.skew)..(c + a + p.skew)

Expired(m, p, now) == \E e \in ParamsOf(m).expires : now > e + p.skew

\* The digests.
RequestBodyWithheld(m) ==
    Req(ContentDigest) \in ElementsOf(ItemsOf(m)) /\ \E r \in m.request : r.body = {}

DigestMalformed(m) ==
    \E d \in Digests(m) : d[1].raw = Bad \/ d[1].shape # "dict" \/ Known(d[1]) = {}
                          \/ \E x \in Known(d[1]) : ~x.bytes

DigestMismatched(m) == \E d \in Digests(m) : \E x \in Known(d[1]) : {x.of} # d[2]

Met(rule, m, p, answer, now) ==
    CASE rule = "call" -> CallRefusal(m, p) # None
      [] rule = "no signature" -> Unsigned(m)
      [] rule = "no input" -> NoInput(m)
      [] rule = "signature unreadable" -> SignatureUnreadable(m)
      [] rule = "input unreadable" -> InputUnreadable(m, p)
      [] rule = "not one label" -> NotOneLabel(m)
      [] rule = "labels differ" -> LabelsDiffer(m)
      [] rule = "value short" -> ValueShort(m)
      [] rule = "duplicate" -> CoversTwice(m)
      [] rule = "unsupported" -> CoversUnsupported(m)
      [] rule = "minimum uncovered" -> MinimumUncovered(m, p)
      [] rule = "keyid malformed" -> KeyidMalformed(m, p)
      [] rule = "keyid unexpected" -> KeyidUnexpected(m, p)
      [] rule = "keyid unknown" -> p.resolving /\ answer = {}
      [] rule = "signer unsupported" -> p.resolving /\ answer = {"UnsupportedSigner"}
      [] rule = "resolved key malformed" -> p.resolving /\ ~(answer \subseteq SoundKeys)
      [] rule = "algorithm" -> AlgorithmUnsupported(m)
      [] rule = "component missing" -> CoversMissing(m)
      [] rule = "base or signature" -> NotSigned(m, p, answer)
      [] rule = "authority not served" -> NotServed(m, p)
      [] rule = "stale" -> Stale(m, p, now)
      [] rule = "expired" -> Expired(m, p, now)
      [] rule = "request body withheld" -> RequestBodyWithheld(m)
      [] rule = "digest malformed" -> DigestMalformed(m)
      [] rule = "digest mismatched" -> DigestMismatched(m)

\* The code of the first rule met; a later rule is read only once no earlier one is met.
Code(m, p, answer, now) ==
    LET Unauthenticated401 == m.response /\ CallRefusal(m, p) = "Unauthenticated"
        first == CHOOSE i \in 1..(Len(Rules) + 1) :
                   /\ i <= Len(Rules) => Met(Rules[i][1], m, p, answer, now)
                   /\ \A j \in 1..(i - 1) : ~Met(Rules[j][1], m, p, answer, now)
    IN  IF Unauthenticated401 THEN "unauthenticated"
        ELSE IF first > Len(Rules) THEN "accepted"
        ELSE Rules[first][2]
================================================================================
