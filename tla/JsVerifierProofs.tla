--------------------------- MODULE JsVerifierProofs ---------------------------
(***************************************************************************)
(* Proofs about JsVerifier, for any calls, keys, key states and contents:  *)
(* that the call decides what section 9 says, and that a caller who        *)
(* refills its buffers during the call gets the decision of a message with *)
(* contents the buffers held after the signature was found good.           *)
(*                                                                         *)
(* The argument has two parts.  Nothing before the digests can tell one    *)
(* content of a body from another (Alike), and what the buffers hold stays *)
(* alike to what was handed over (Kept).  So the refusal of any stage      *)
(* before the digests is the refusal of every message alike, and the       *)
(* digests choose the contents the decision is about.                      *)
(***************************************************************************)
EXTENDS JsVerifier, VerificationProofs

-------------------------------------------------------------------------------
(* Messages that differ in the contents of their bodies *)

\* Two bodies of which both hold content, or both are empty, or both are absent.
SameKind(a, b) == (a = {} <=> b = {}) /\ (HasContent(a) <=> HasContent(b))

SameHead(m, n) ==
    /\ n.response = m.response /\ n.method = m.method /\ n.url = m.url
    /\ n.status = m.status /\ n.headers = m.headers

Alike(m, n) ==
    /\ SameHead(m, n) /\ SameKind(m.body, n.body)
    /\ n.request = {} <=> m.request = {}
    /\ AtMostOne(m.request) /\ AtMostOne(n.request)
    /\ \A r \in m.request, s \in n.request : SameHead(r, s) /\ SameKind(r.body, s.body)

\* Nothing is missing, unreadable or not covered in one and present in the other.
LEMMA AlikeReads ==
  ASSUME NEW m, NEW n, NEW p, Alike(m, n)
  PROVE  /\ ReadRefusal(n, p) = ReadRefusal(m, p)
         /\ ItemsOf(n) = ItemsOf(m) /\ ParamsOf(n) = ParamsOf(m) /\ Signature(n) = Signature(m)
         /\ CoverageRefusal(n, p) = CoverageRefusal(m, p)
<1>1. n.headers = m.headers /\ n.response = m.response
  BY DEF Alike, SameHead
<1>2. ReadRefusal(n, p) = ReadRefusal(m, p)
  BY <1>1 DEF ReadRefusal
<1>3. ItemsOf(n) = ItemsOf(m) /\ ParamsOf(n) = ParamsOf(m) /\ Signature(n) = Signature(m)
  BY <1>1 DEF ItemsOf, ParamsOf, Signature, Inner
<1>4. HasBody(n) = HasBody(m)
  <2>1. HasContent(n.body) = HasContent(m.body)
    BY DEF Alike, SameKind, HasContent
  <2>2. QED
    BY <1>1, <2>1 DEF HasBody, RequestHasBody
<1>5. RequestHadBody(n) = RequestHadBody(m)
  <2>1. (\E r \in n.request : HasContent(r.body)) <=> (\E r \in m.request : HasContent(r.body))
    BY DEF Alike, SameKind, AtMostOne
  <2>2. QED
    BY <2>1 DEF RequestHadBody
<1>6. CoverageRefusal(n, p) = CoverageRefusal(m, p)
  BY <1>1, <1>3, <1>4, <1>5 DEF CoverageRefusal
<1>7. QED
  BY <1>2, <1>3, <1>6

\* Nor is the call mistaken with one and not with the other.
LEMMA AlikeCalls ==
  ASSUME NEW m, NEW n, NEW p, Alike(m, n)
  PROVE  CallRefusal(n, p) = CallRefusal(m, p)
<1>1. n.headers = m.headers /\ n.response = m.response /\ n.method = m.method /\ n.status = m.status
  BY DEF Alike, SameHead
<1>2. RequestCallRefusal(n, p) = RequestCallRefusal(m, p)
  BY <1>1 DEF RequestCallRefusal
<1>3. \A r \in m.request, s \in n.request : /\ s.headers = r.headers /\ s.method = r.method
                                            /\ AnnouncesLostBody(s) <=> AnnouncesLostBody(r)
  <2> SUFFICES ASSUME NEW r \in m.request, NEW s \in n.request
      PROVE  /\ s.headers = r.headers /\ s.method = r.method
             /\ AnnouncesLostBody(s) <=> AnnouncesLostBody(r)
    OBVIOUS
  <2>1. s.headers = r.headers /\ s.method = r.method /\ SameKind(r.body, s.body)
    BY DEF Alike, SameHead
  <2>2. QED
    BY <2>1 DEF AnnouncesLostBody, SameKind
<1>4. /\ (\E r \in n.request : NotCanonical(r.headers) \/ AnnouncesLostBody(r))
           <=> (\E r \in m.request : NotCanonical(r.headers) \/ AnnouncesLostBody(r))
      /\ (\E r \in n.request : ~IsToken(r.method)) <=> (\E r \in m.request : ~IsToken(r.method))
  <2>1. CASE m.request = {}
    BY <2>1 DEF Alike
  <2>2. CASE m.request # {}
    <3>1. PICK r \in m.request, s \in n.request : TRUE
      BY <2>2 DEF Alike
    <3>2. m.request = {r} /\ n.request = {s}
      BY <3>1 DEF Alike, AtMostOne
    <3>3. QED
      BY <1>3, <3>2
  <2>3. QED
    BY <2>1, <2>2
<1>5. ResponseCallRefusal(n, p) = ResponseCallRefusal(m, p)
  BY <1>1, <1>4 DEF ResponseCallRefusal, Unsigned401
<1>6. QED
  BY <1>1, <1>2, <1>5 DEF CallRefusal

\* A component has a value in both or in neither, and the same value.
LEMMA AlikeItems ==
  ASSUME NEW m, NEW n, Alike(m, n), NEW item
  PROVE  /\ ItemRefusal(item, n, TRUE) = ItemRefusal(item, m, TRUE)
         /\ ItemRefusal(item, m, TRUE) = None => ValueOf(item, n) = ValueOf(item, m)
<1>1. CASE "req" \in item.params /\ m.request = {}
  BY <1>1 DEF Alike, ItemRefusal, None
<1>2. CASE ~("req" \in item.params /\ m.request = {})
  <2> DEFINE s == Subject(item, m)
             t == Subject(item, n)
  <2>1. SameHead(s, t)
    <3>1. CASE "req" \in item.params
      <4>1. m.request # {} /\ n.request # {}
        BY <1>2, <3>1 DEF Alike
      <4>2. The(m.request) \in m.request /\ The(n.request) \in n.request
        BY <4>1 DEF The
      <4>3. QED
        BY <3>1, <4>2 DEF Subject, Alike
    <3>2. CASE "req" \notin item.params
      BY <3>2 DEF Subject, Alike
    <3>3. QED
      BY <3>1, <3>2
  <2>2. ~("req" \in item.params /\ n.request = {})
    BY <1>2 DEF Alike
  <2> HIDE DEF s, t
  <2>3. /\ s.url = t.url /\ s.headers = t.headers /\ s.status = t.status /\ s.method = t.method
    BY <2>1 DEF SameHead
  <2>4. SubjectRefusal(item.name, t, TRUE) = SubjectRefusal(item.name, s, TRUE)
    BY <2>3 DEF SubjectRefusal, AuthorityRefusal
  <2>5. ItemRefusal(item, n, TRUE) = ItemRefusal(item, m, TRUE)
    BY <1>2, <2>2, <2>4 DEF ItemRefusal, s, t
  <2>6. ValueOf(item, n) = ValueOf(item, m)
    BY <2>3 DEF ValueOf, Authority, s, t
  <2>7. QED
    BY <2>5, <2>6
<1>3. QED
  BY <1>1, <1>2

\* The same signature verifies over both, for the same authority.
LEMMA AlikeSigned ==
  ASSUME NEW m, NEW n, Alike(m, n), DOMAIN ItemsOf(m) \subseteq Nat, NEW p, NEW key
  PROVE  /\ LinesRefusal(ItemsOf(m), n, TRUE) = LinesRefusal(ItemsOf(m), m, TRUE)
         /\ SignatureRefusal(n, key) = SignatureRefusal(m, key)
         /\ LinesRefusal(ItemsOf(m), m, TRUE) = None
              => AuthorityServedRefusal(n, p) = AuthorityServedRefusal(m, p)
<1> DEFINE items == ItemsOf(m)
           f == [i \in DOMAIN items |-> ItemRefusal(items[i], m, TRUE)]
<1>1. ItemsOf(n) = items /\ ParamsOf(n) = ParamsOf(m) /\ Signature(n) = Signature(m)
  BY AlikeReads
<1>2. LinesRefusal(items, n, TRUE) = LinesRefusal(items, m, TRUE)
  <2>1. [i \in DOMAIN items |-> ItemRefusal(items[i], n, TRUE)] = f
    BY AlikeItems
  <2>2. QED
    BY <2>1 DEF LinesRefusal
<1>3. ASSUME LinesRefusal(items, m, TRUE) = None
      PROVE  \A i \in DOMAIN items : ValueOf(items[i], n) = ValueOf(items[i], m)
  <2>1. FirstRefusal(f) = None /\ DOMAIN f \subseteq Nat
    BY <1>3 DEF LinesRefusal
  <2> HIDE DEF f
  <2>2. \A i \in DOMAIN f : f[i] = None
    BY <2>1, FirstRefusalCases
  <2>3. QED
    BY <2>2, AlikeItems DEF f
<1>4. SignatureRefusal(n, key) = SignatureRefusal(m, key)
  <2>1. CASE LinesRefusal(items, m, TRUE) = None
    <3>1. LinesFor(items, n) = LinesFor(items, m)
      BY <1>3, <2>1 DEF LinesFor
    <3>2. QED
      BY <1>1, <1>2, <3>1 DEF SignatureRefusal, Base
  <2>2. CASE LinesRefusal(items, m, TRUE) # None
    BY <1>1, <1>2, <2>2 DEF SignatureRefusal, ??
  <2>3. QED
    BY <2>1, <2>2
<1>5. LinesRefusal(items, m, TRUE) = None => AuthorityServedRefusal(n, p) = AuthorityServedRefusal(m, p)
  BY <1>1, <1>3 DEF AuthorityServedRefusal
<1>6. QED
  BY <1>2, <1>4, <1>5

\* What the call says of a message before it looks at what the bodies hold.
BeforeDigests(m, p, said, now) ==
    CallRefusal(m, p) ?? (ReadRefusal(m, p) ?? (CoverageRefusal(m, p)
      ?? (KeyStageRefusal(m, p, said)
      ?? (SignatureRefusal(m, KeyFor(ParamsOf(m).keyid, p, said))
      ?? (AuthorityServedRefusal(m, p)
      ?? FreshnessRefusal(ParamsOf(m), p, now))))))

\* A message alike is refused by the same stage, until its digests are compared.
LEMMA AlikeRefusal ==
  ASSUME NEW c, TypedCall(c), NEW n, Alike(c.msg, n), NEW said, NEW now
  PROVE  Refusal(n, c.policy, said, now) = BeforeDigests(c.msg, c.policy, said, now) ?? DigestRefusal(n)
<1> DEFINE m == c.msg
           p == c.policy
           a == CallRefusal(m, p)
           b == ReadRefusal(m, p)
           d == CoverageRefusal(m, p)
           e == KeyStageRefusal(m, p, said)
           key == KeyFor(ParamsOf(m).keyid, p, said)
           f == SignatureRefusal(m, key)
           g == AuthorityServedRefusal(m, p)
           h == FreshnessRefusal(ParamsOf(m), p, now)
           g2 == AuthorityServedRefusal(n, p)
           f2 == SignatureRefusal(n, key)
           last == DigestRefusal(n)
<1>1. /\ ReadRefusal(n, p) = b /\ CoverageRefusal(n, p) = d /\ CallRefusal(n, p) = a
      /\ ParamsOf(n) = ParamsOf(m)
  BY AlikeReads, AlikeCalls
<1>2. KeyStageRefusal(n, p, said) = e
  BY <1>1 DEF KeyStageRefusal
<1>3. b = None => f2 = f /\ (f = None => g2 = g)
  <2> SUFFICES ASSUME b = None PROVE f2 = f /\ (f = None => g2 = g)
    OBVIOUS
  <2>1. DOMAIN ItemsOf(m) \subseteq Nat
    BY ReadGives
  <2>2. f = None => LinesRefusal(ItemsOf(m), m, TRUE) = None
    BY DEF SignatureRefusal, ??, None
  <2>3. QED
    BY <2>1, <2>2, AlikeSigned
<1>4. Refusal(n, p, said, now) = a ?? (b ?? (d ?? (e ?? (f2 ?? (g2 ?? (h ?? last))))))
  BY <1>1, <1>2 DEF Refusal
<1>5. BeforeDigests(m, p, said, now) = a ?? (b ?? (d ?? (e ?? (f ?? (g ?? h)))))
  BY DEF BeforeDigests
<1> HIDE DEF a, b, d, e, f, g, h, f2, g2, last
<1>6. Refusal(n, p, said, now) = BeforeDigests(m, p, said, now) ?? last
  BY <1>3, <1>4, <1>5 DEF ??
<1>7. QED
  BY <1>6 DEF last

\* A message alike has the code of the stages before the digests, or of its own digests.
LEMMA AlikeCode ==
  ASSUME NEW c, TypedCall(c), Undisputed(c), NEW n, Alike(c.msg, n),
         AtMostOne(n.body), \A r \in n.request : AtMostOne(r.body),
         NEW said \in Answers, NEW now \in Int,
         NEW refusal, refusal = BeforeDigests(c.msg, c.policy, said, now) ?? DigestRefusal(n)
  PROVE  Code(n, c.policy, said, now) = IF refusal = None THEN "accepted" ELSE CodeOf(refusal)
<1> DEFINE m == c.msg
           c2 == [msg |-> n, policy |-> c.policy]
<1>1. TypedCall(c2)
  <2>1. n.headers = m.headers /\ AtMostOne(n.request)
    BY DEF Alike, SameHead
  <2>2. \A r \in n.request : AtMostOne(r.headers.digest)
    <3>1. \A r \in m.request, s \in n.request : s.headers = r.headers
      BY DEF Alike, SameHead
    <3>2. m.request = {} <=> n.request = {}
      BY DEF Alike
    <3>3. QED
      BY <3>1, <3>2 DEF TypedCall
  <2>3. QED
    BY <2>1, <2>2 DEF TypedCall
<1>2. Undisputed(c2)
  <2>1. ReadRefusal(n, c.policy) = ReadRefusal(m, c.policy) /\ ItemsOf(n) = ItemsOf(m) /\ ParamsOf(n) = ParamsOf(m)
    BY AlikeReads
  <2>2. {ItemRefusal(i, n, TRUE) : i \in ElementsOf(ItemsOf(m))}
          = {ItemRefusal(i, m, TRUE) : i \in ElementsOf(ItemsOf(m))}
    BY AlikeItems
  <2>3. QED
    BY <2>1, <2>2 DEF Undisputed
<1>3. Refusal(n, c.policy, said, now) = refusal
  BY AlikeRefusal
<1>4. Code(c2.msg, c2.policy, said, now)
        = IF Refusal(c2.msg, c2.policy, said, now) = None THEN "accepted"
          ELSE CodeOf(Refusal(c2.msg, c2.policy, said, now))
  BY <1>1, <1>2, OneCorrectCode
<1>5. QED
  BY <1>3, <1>4

-------------------------------------------------------------------------------
(* The digests *)

\* A message with contents of its own in its body, and in its request's.
Copy(m, n, own, asked) ==
    Alike(m, n) /\ n.body = own /\ \A r \in n.request : r.body = asked

Content(b, own, asked) == IF b = "own" THEN own ELSE asked

\* The digests of a copy are the message's, each beside the content of its buffer ...
LEMMA CopyDigests ==
  ASSUME NEW m, NEW n, NEW own, NEW asked, Copy(m, n, own, asked)
  PROVE  DigestsCovered(n) = {<<DigestFor(b, m), Content(b, own, asked)>> : b \in Covered(m)}
<1>1. ItemsOf(n) = ItemsOf(m) /\ n.headers = m.headers /\ n.body = own
  BY AlikeReads DEF Copy, Alike, SameHead
<1> DEFINE first == IF CoversBody(ItemsOf(m)) THEN {<<The(m.headers.digest), own>>} ELSE {}
           second == IF BindsRequestDigest(ItemsOf(m)) /\ m.request # {}
                     THEN {<<The(The(m.request).headers.digest), asked>>} ELSE {}
<1>2. DigestsCovered(n) = first \cup second
  <2>1. (IF BindsRequestDigest(ItemsOf(m))
         THEN {<<The(r.headers.digest), r.body>> : r \in n.request} ELSE {}) = second
    <3>1. CASE m.request = {}
      BY <3>1 DEF Copy, Alike
    <3>2. CASE m.request # {}
      <4>1. m.request = {The(m.request)} /\ n.request = {The(n.request)}
        BY <3>2, TheOne DEF Copy, Alike
      <4>2. The(n.request).headers = The(m.request).headers /\ The(n.request).body = asked
        BY <4>1 DEF Copy, Alike, SameHead
      <4>3. {<<The(r.headers.digest), r.body>> : r \in n.request}
              = {<<The(The(m.request).headers.digest), asked>>}
        BY <4>1, <4>2
      <4>4. QED
        BY <3>2, <4>3
    <3>3. QED
      BY <3>1, <3>2
  <2>2. QED
    BY <1>1, <2>1 DEF DigestsCovered
<1>3. {<<DigestFor(b, m), Content(b, own, asked)>> : b \in Covered(m)} = first \cup second
  <2>1. /\ DigestFor("own", m) = The(m.headers.digest)
        /\ DigestFor("asked", m) = The(The(m.request).headers.digest)
        /\ Content("own", own, asked) = own /\ Content("asked", own, asked) = asked
    BY DEF DigestFor, Content
  <2>2. "own" \in Covered(m) <=> CoversBody(ItemsOf(m))
    BY DEF Covered
  <2>3. "asked" \in Covered(m) <=> BindsRequestDigest(ItemsOf(m)) /\ m.request # {}
    BY DEF Covered
  <2>4. Covered(m) \subseteq {"own", "asked"}
    BY DEF Covered
  <2> DEFINE pair(b) == <<DigestFor(b, m), Content(b, own, asked)>>
  <2>5. first = (IF "own" \in Covered(m) THEN {pair("own")} ELSE {})
    BY <2>1, <2>2
  <2>6. second = (IF "asked" \in Covered(m) THEN {pair("asked")} ELSE {})
    BY <2>1, <2>3
  <2> HIDE DEF pair, first, second
  <2>7. {pair(b) : b \in Covered(m)} = first \cup second
    BY <2>4, <2>5, <2>6
  <2>8. QED
    BY <2>7 DEF pair
<1>4. QED
  BY <1>2, <1>3

\* ... so they are unreadable when the message's are, and differ when a content does.
LEMMA CopyDigestRefusal ==
  ASSUME NEW m, NEW n, NEW own, NEW asked, Copy(m, n, own, asked)
  PROVE  DigestRefusal(n) =
           IF UnreadDigests(m) = "TypeError" THEN "ValueError"
           ELSE UnreadDigests(m)
                  ?? IF \E b \in Covered(m) : CompareDigestRefusal(DigestFor(b, m), Content(b, own, asked)) # None
                     THEN "DigestMismatch" ELSE None
<1>1. ItemsOf(n) = ItemsOf(m)
  BY AlikeReads DEF Copy
<1>2. (\E r \in n.request : r.body = {}) <=> (\E r \in m.request : r.body = {})
  BY DEF Copy, Alike, SameKind
<1> DEFINE pair(b) == <<DigestFor(b, m), Content(b, own, asked)>>
<1>3. DigestsCovered(n) = {pair(b) : b \in Covered(m)}
  BY CopyDigests
<1>4. \A b : pair(b)[1] = DigestFor(b, m) /\ pair(b)[2] = Content(b, own, asked)
  OBVIOUS
<1> HIDE DEF pair
<1>5. (\E d \in DigestsCovered(n) : ReadDigestRefusal(d[1]) # None)
        <=> \E b \in Covered(m) : ReadDigestRefusal(DigestFor(b, m)) # None
  <2>1. (\E d \in DigestsCovered(n) : ReadDigestRefusal(d[1]) # None)
          <=> \E b \in Covered(m) : ReadDigestRefusal(pair(b)[1]) # None
    BY <1>3
  <2>2. QED
    BY <1>4, <2>1
<1>6. (\E d \in DigestsCovered(n) : CompareDigestRefusal(d[1], d[2]) # None)
        <=> \E b \in Covered(m) : CompareDigestRefusal(DigestFor(b, m), Content(b, own, asked)) # None
  <2>1. (\E d \in DigestsCovered(n) : CompareDigestRefusal(d[1], d[2]) # None)
          <=> \E b \in Covered(m) : CompareDigestRefusal(pair(b)[1], pair(b)[2]) # None
    BY <1>3
  <2>2. QED
    BY <1>4, <2>1
<1>7. QED
  BY <1>1, <1>2, <1>5, <1>6 DEF DigestRefusal, UnreadDigests, ??, None

-------------------------------------------------------------------------------
(* The invariant *)

CallFixed == call \in Calls

\* The stages a call can be at once it has passed a check.
AfterSignature == {"hashing", "accepted"}
AfterBase == {"verifying"} \cup AfterSignature
AfterKey == {"keyed"} \cup AfterBase
AfterCall == {"resolving"} \cup AfterKey

Past ==
    /\ pc \in AfterCall => BeforeTheKey(M, P) = None
    /\ pc = "resolving" => P.resolving
    /\ pc \in AfterKey /\ P.resolving => ResolvedRefusal(answer) = None
    /\ pc \in AfterBase => /\ AlgorithmRefusal(ParamsOf(M)) = None
                           /\ LinesRefusal(ItemsOf(M), M, TRUE) = None
    /\ pc \in AfterSignature =>
         /\ SignatureRefusal(M, KeyFor(ParamsOf(M).keyid, P, answer)) = None
         /\ AuthorityServedRefusal(M, P) = None
         /\ UnreadDigests(M) = None

\* What the caller handed over in a buffer.
Given(b) == IF b = "own" THEN M.body ELSE UNION {r.body : r \in M.request}

\* A buffer never holds content where it held none or none where it held some, and
\* holds what was handed over if the caller leaves it alone.
Kept ==
    /\ DOMAIN bodies = Buffers /\ DOMAIN seen = Buffers
    /\ \A b \in Buffers :
         /\ SameKind(Given(b), bodies[b]) /\ AtMostOne(bodies[b])
         /\ \A x \in seen[b] : SameKind(Given(b), {x})
         /\ ~call.shared => bodies[b] = Given(b) /\ seen[b] \subseteq Given(b)
         /\ pc \notin AfterSignature \cup {"refused"} => seen[b] = {}
         /\ pc = "hashing" => bodies[b] \subseteq seen[b]

\* The digests left to compare; and every other but the one under way named a content
\* its buffer held.
Compared(left, now) ==
    \A other \in ToCompare(M) \ (left \cup now) : other[2].of \in seen[other[1]]

Hashing ==
    pc = "hashing" =>
      /\ todo \subseteq ToCompare(M)
      /\ \E q \in ToCompare(M) : \E x \in seen[q[1]] :
           hashing = {[named |-> q[2].of, hashed |-> x]} /\ Compared(todo, {q})

HeldTyped == \A h \in held : h.answer \in Answers /\ h.at \in 0..clock

Inv == CallFixed /\ TypeOK /\ HeldTyped /\ Past /\ Kept /\ Hashing

\* What the assumptions on the constants say of a call and of a key state.
LEMMA CallTyped ==
  ASSUME CallFixed
  PROVE  /\ TypedCall(call) /\ AtMostOne(M.body) /\ AtMostOne(M.request)
         /\ \A r \in M.request : AtMostOne(r.body)
         /\ \A m \in {M} \cup M.request : MessageFields \subseteq DOMAIN m
         /\ call.shared \in BOOLEAN /\ call.states \subseteq [Ids -> Answers]
         /\ call.until \in 0..MaxClock /\ call.starts \subseteq 0..call.until
BY CallsAssumption, JsVerifierAssumption DEF CallFixed, TypedCall, M

\* Bodies handed over are one or none.
LEMMA GivenOne == CallFixed => \A b \in Buffers : AtMostOne(Given(b))
<1> SUFFICES ASSUME CallFixed PROVE \A b \in Buffers : AtMostOne(Given(b))
  OBVIOUS
<1>1. AtMostOne(UNION {r.body : r \in M.request})
  BY CallTyped DEF AtMostOne
<1>2. QED
  BY <1>1, CallTyped DEF Given

\* Only the arguments and a withheld body are the caller's mistakes; every other check
\* before the signature is verified names a fault of the message.
LEMMA NoMistake ==
  ASSUME CallFixed
  PROVE  /\ ReadRefusal(M, P) # "ValueError" /\ CoverageRefusal(M, P) # "ValueError"
         /\ LocalKeyRefusal(ParamsOf(M).keyid, P) # "ValueError"
         /\ UnexpectedKeyidRefusal(ParamsOf(M).keyid, P) # "ValueError"
         /\ \A said : ResolvedRefusal(said) # "ValueError"
         /\ AlgorithmRefusal(ParamsOf(M)) # "ValueError"
         /\ AuthorityServedRefusal(M, P) # "ValueError"
         /\ FreshnessRefusal(ParamsOf(M), P, clock) # "ValueError"
<1>1. ReadRefusal(M, P) # "ValueError"
  <2> DEFINE f == The(M.headers.input)
  <2>1. CASE Missing(M.headers.input)
    BY <2>1 DEF ReadRefusal
  <2>2. CASE ~Missing(M.headers.input)
    <3>1. f \in M.headers.input
      BY <2>2 DEF Missing, The
    <3>2. DOMAIN f.members \subseteq Nat
      BY <3>1, CallTyped DEF IsSequence, TypedCall, TypedHeaders, M
    <3>3. InputsRefusal(f, P) # "ValueError"
      BY <3>2, UnreadableInput DEF None
    <3>4. \A sigs : PairRefusal(sigs, f) # "ValueError"
      BY DEF PairRefusal, None
    <3>5. QED
      BY <3>3, <3>4 DEF ReadRefusal, ??
  <2>3. QED
    BY <2>1, <2>2
<1>2. CoverageRefusal(M, P) # "ValueError"
  BY DEF CoverageRefusal, CheckCovered, ??, None
<1>3. /\ LocalKeyRefusal(ParamsOf(M).keyid, P) # "ValueError"
      /\ UnexpectedKeyidRefusal(ParamsOf(M).keyid, P) # "ValueError"
      /\ \A said : ResolvedRefusal(said) # "ValueError"
      /\ AlgorithmRefusal(ParamsOf(M)) # "ValueError"
  BY DEF LocalKeyRefusal, UnexpectedKeyidRefusal, ResolvedRefusal, AlgorithmRefusal, KeyRefusal, None
<1>4. AuthorityServedRefusal(M, P) # "ValueError" /\ FreshnessRefusal(ParamsOf(M), P, clock) # "ValueError"
  BY DEF AuthorityServedRefusal, FreshnessRefusal, None
<1>5. QED
  BY <1>1, <1>2, <1>3, <1>4

\* A call has not looked at anything when it begins.
LEMMA InitInv == Init => Inv
<1> SUFFICES ASSUME Init PROVE Inv
  OBVIOUS
<1>1. CallFixed
  BY DEF Init, CallFixed
<1>2. clock \in 0..MaxClock /\ clock \in Int /\ keyState \in KeyStates /\ keyState \in [Ids -> Answers]
  BY <1>1, CallTyped, JsVerifierAssumption DEF Init, CallFixed
<1>3. HeldTyped
  BY <1>1, <1>2, LookupNowAnswers, CallTyped DEF Init, HeldTyped
<1>4. TypeOK
  BY <1>1, <1>2 DEF Init, TypeOK, Ended, Answers, Opt, Refusals, None
<1>5. Past /\ Hashing
  BY DEF Init, Past, Hashing, AfterCall, AfterKey, AfterBase, AfterSignature
<1>6. Kept
  <2>1. \A b \in Buffers : bodies[b] = Given(b) /\ seen[b] = {}
    <3>1. bodies.own = M.body /\ bodies.asked = UNION {r.body : r \in M.request}
      BY DEF Init
    <3>2. seen = [b \in Buffers |-> {}]
      BY DEF Init
    <3>3. QED
      BY <3>1, <3>2 DEF Given, Buffers
  <2>2. DOMAIN bodies = Buffers /\ DOMAIN seen = Buffers
    BY DEF Init, Buffers
  <2>3. QED
    BY <1>1, <2>1, <2>2, GivenOne DEF Init, Kept, SameKind
<1>7. QED
  BY <1>1, <1>3, <1>4, <1>5, <1>6 DEF Inv

\* A check up to the signature moves the call on or ends it, and touches no buffer.
LEMMA SettleTypes ==
  ASSUME Inv, NEW refusal \in Refusals \cup {None}, refusal # "ValueError",
         NEW at \in {"resolving", "keyed", "verifying"}, Settle(refusal, at),
         pc \in {"called", "resolving", "keyed"}, answer' \in Answers,
         UNCHANGED <<call, bodies, digesting, clock, keyState, held>>
  PROVE  CallFixed' /\ TypeOK' /\ HeldTyped' /\ Kept' /\ Hashing'
<1>1. TypeOK /\ Kept
  BY DEF Inv
<1>2. outcome = None
  BY <1>1 DEF TypeOK, Ended
<1>3. pc' \in {at, "refused"} /\ outcome' = refusal /\ (pc' = "refused" <=> refusal # None)
  BY <1>2 DEF Settle
<1>4. bodies' = bodies /\ seen' = seen /\ call' = call
  BY DEF digesting
<1>5. CallFixed' /\ HeldTyped'
  BY DEF Inv, CallFixed, HeldTyped
<1>6. TypeOK'
  BY <1>1, <1>3 DEF TypeOK, Ended, None
<1>7. Kept'
  BY <1>1, <1>3, <1>4 DEF Kept, Given, M, AfterSignature
<1>8. Hashing'
  BY <1>3 DEF Hashing
<1>9. QED
  BY <1>5, <1>6, <1>7, <1>8

\* What is refused before the digests is a class of its own, and never ValueError.
LEMMA RefusalsHere ==
  ASSUME Inv
  PROVE  /\ BeforeTheKey(M, P) \in (Refusals \cup {None}) \ {"ValueError"}
         /\ \A said : ResolvedRefusal(said) \in (Refusals \cup {None}) \ {"ValueError"}
         /\ pc = "keyed" =>
              AlgorithmRefusal(ParamsOf(M)) ?? LinesRefusal(ItemsOf(M), M, TRUE)
                \in (Refusals \cup {None}) \ {"ValueError"}
         /\ AfterTheSignature \in (Refusals \cup {None}) \ {"ValueError"}
<1> DEFINE Here == (Refusals \cup {None}) \ {"ValueError"}
<1>1. CallFixed /\ Past /\ Early \subseteq Refusals \cup {None}
  BY DEF Inv, Early, Refusals
<1>2. \A r \in Here, s \in Here : r ?? s \in Here
  BY DEF ??
<1>3. ArgumentRefusal(M, P) \in Here
  BY <1>1, CallRange DEF ArgumentRefusal, Mistake, Refusals, None
<1>4. HeaderRefusal(M, P) \in Here
  <2>1. ReadRefusal(M, P) \in Here
    BY <1>1, ReadRange, NoMistake, CallTyped DEF M, P
  <2>2. CoverageRefusal(M, P) \in Here
    BY <1>1, CoverageRange, NoMistake
  <2>3. QED
    BY <1>2, <2>1, <2>2 DEF HeaderRefusal
<1>5. KeyidRefusal(M, P) \in Here
  <2>1. LocalKeyRefusal(ParamsOf(M).keyid, P) \in Here /\ UnexpectedKeyidRefusal(ParamsOf(M).keyid, P) \in Here
    BY <1>1, KeyRange, NoMistake
  <2>2. QED
    BY <1>2, <2>1 DEF KeyidRefusal
<1>6. BeforeTheKey(M, P) \in Here
  BY <1>2, <1>3, <1>4, <1>5 DEF BeforeTheKey
<1>7. \A said : ResolvedRefusal(said) \in Here
  BY <1>1, KeyRange, NoMistake
<1>8. ASSUME pc = "keyed"
      PROVE  AlgorithmRefusal(ParamsOf(M)) ?? LinesRefusal(ItemsOf(M), M, TRUE) \in Here
  <2>1. ReadRefusal(M, P) = None
    BY <1>1, <1>8 DEF Past, AfterCall, AfterKey, BeforeTheKey, HeaderRefusal, ??
  <2>2. DOMAIN ItemsOf(M) \subseteq Nat
    BY <1>1, <2>1, ReadGives, CallTyped DEF M, P
  <2>3. LinesRefusal(ItemsOf(M), M, TRUE) \in {None, "MissingComponent", "SignatureMismatch"}
    BY <2>2, LinesSay
  <2>4. LinesRefusal(ItemsOf(M), M, TRUE) \in Here
    BY <2>3 DEF Refusals, None
  <2>5. AlgorithmRefusal(ParamsOf(M)) \in Here
    BY <1>1, KeyRange, NoMistake
  <2>6. QED
    BY <1>2, <2>4, <2>5
<1>9. AfterTheSignature \in Here
  <2>1. AuthorityServedRefusal(M, P) \in Here
    BY <1>1, ServedRange, NoMistake
  <2>2. FreshnessRefusal(ParamsOf(M), P, clock) \in Here
    BY <1>1, PolicyRange, NoMistake
  <2>3. UnreadDigests(M) \in Here /\ None \in Here /\ "SignatureMismatch" \in Here
    BY DEF UnreadDigests, Refusals, PolicyRefusals, None
  <2>4. QED
    BY <1>2, <2>1, <2>2, <2>3 DEF AfterTheSignature
<1>10. QED
  BY <1>6, <1>7, <1>8, <1>9

\* The digests to compare are those the covered headers name, each by its buffer.
LEMMA Comparing ==
  ASSUME NEW q, NEW m
  PROVE  /\ q \in ToCompare(m) <=> \E b \in Covered(m) : \E d \in Recognized(DigestFor(b, m)) : q = <<b, d>>
         /\ q \in ToCompare(m) => q[1] \in Covered(m) /\ q[1] \in Buffers
                                  /\ q[2] \in Recognized(DigestFor(q[1], m))
<1>1. q \in ToCompare(m) <=> \E b \in Covered(m) : q \in {b} \X Recognized(DigestFor(b, m))
  BY DEF ToCompare
<1>2. Covered(m) \subseteq Buffers
  BY DEF Covered, Buffers
<1>3. QED
  BY <1>1, <1>2

\* What a buffer holds is what was handed over, but for the content.
LEMMA HeldKinds ==
  ASSUME Kept, NEW b \in Buffers, NEW x \in bodies[b]
  PROVE  SameKind(Given(b), {x})
<1>1. bodies[b] = {x} /\ SameKind(Given(b), bodies[b])
  BY DEF Kept, AtMostOne
<1>2. QED
  BY <1>1

\* A step that leaves the buffers alone may begin to note what they hold.
LEMMA StillKept ==
  ASSUME Kept, UNCHANGED <<call, bodies>>, DOMAIN seen' = Buffers,
         \A b \in Buffers : seen'[b] \in {seen[b], bodies[b]} /\ bodies[b] \subseteq seen'[b],
         pc' \in AfterSignature \cup {"refused"}
  PROVE  Kept'
<1>1. \A b \in Buffers : \A x \in bodies[b] : SameKind(Given(b), {x})
  BY HeldKinds
<1>2. M' = M
  BY DEF M
<1>3. \A b \in Buffers :
        /\ SameKind(Given(b), bodies[b]) /\ AtMostOne(bodies[b])
        /\ \A x \in seen'[b] : SameKind(Given(b), {x})
        /\ ~call.shared => bodies[b] = Given(b) /\ seen'[b] \subseteq Given(b)
  BY <1>1 DEF Kept
<1>4. QED
  BY <1>2, <1>3 DEF Kept, Given

\* The next digest is under way, of what its buffer holds, or the call is over.
LEMMA HashNextTypes ==
  ASSUME CallFixed, TypeOK, HeldTyped, Kept, outcome = None,
         UNCHANGED <<call, answer, bodies, clock, keyState, held>>,
         DOMAIN seen' = Buffers,
         \A b \in Buffers : seen'[b] \in {seen[b], bodies[b]} /\ bodies[b] \subseteq seen'[b],
         NEW left \in SUBSET ToCompare(M), HashNext(left),
         \A other \in ToCompare(M) \ left : other[2].of \in seen'[other[1]]
  PROVE  /\ CallFixed' /\ TypeOK' /\ HeldTyped' /\ Kept' /\ Hashing'
         /\ pc' \in {"hashing", "accepted", "refused"}
<1>1. CallFixed' /\ HeldTyped' /\ M' = M
  BY DEF CallFixed, HeldTyped, M
<1>2. pc' \in {"hashing", "accepted", "refused"}
  BY DEF HashNext
<1>3. Kept'
  BY <1>2, StillKept DEF AfterSignature
<1>4. CASE left = {}
  BY <1>1, <1>2, <1>3, <1>4 DEF HashNext, TypeOK, Ended, Hashing, None
<1>5. CASE left # {}
  <2>1. PICK next \in left :
          /\ todo' = left \ {next}
          /\ IF bodies[next[1]] = {}
             THEN pc' = "refused" /\ outcome' = "DigestMismatch" /\ hashing' = {}
             ELSE /\ pc' = "hashing" /\ UNCHANGED outcome
                  /\ hashing' = {[named |-> next[2].of, hashed |-> The(bodies[next[1]])]}
    BY <1>5 DEF HashNext
  <2>2. next \in ToCompare(M) /\ next[1] \in Buffers
    BY Comparing
  <2>3. CASE bodies[next[1]] = {}
    BY <1>1, <1>2, <1>3, <2>1, <2>3 DEF TypeOK, Ended, Hashing, None, Refusals, PolicyRefusals
  <2>4. CASE bodies[next[1]] # {}
    <3> DEFINE x == The(bodies[next[1]])
    <3>1. x \in seen'[next[1]]
      BY <2>2, <2>4 DEF The
    <3>2. /\ pc' = "hashing" /\ outcome' = None /\ todo' = left \ {next}
          /\ hashing' = {[named |-> next[2].of, hashed |-> x]}
      BY <2>1, <2>4
    <3> HIDE DEF x
    <3>3. Hashing'
      <4>1. Compared(left \ {next}, {next})'
        BY <1>1 DEF Compared, ToCompare
      <4>2. QED
        BY <1>1, <2>2, <3>1, <3>2, <4>1 DEF Hashing, Compared
    <3>4. \E h \in hashing' : h.hashed \in UNION {seen'[b] : b \in Buffers}
      BY <2>2, <3>1, <3>2
    <3>5. TypeOK'
      BY <3>2, <3>4 DEF TypeOK, Ended, None
    <3>6. QED
      BY <1>1, <1>2, <1>3, <3>3, <3>5
  <2>5. QED
    BY <2>3, <2>4
<1>6. QED
  BY <1>4, <1>5

\* What runs between two awaits keeps the invariant, and so does what the program does
\* meanwhile: a refill puts content only where content was.
LEMMA NextInv == Inv /\ [Next]_vars => Inv'
<1> SUFFICES ASSUME Inv, [Next]_vars PROVE Inv'
  OBVIOUS
<1>0. CallFixed /\ TypeOK /\ HeldTyped /\ Past /\ Kept /\ Hashing
  BY DEF Inv
<1>1. pc \notin Ended => outcome = None
  BY <1>0 DEF TypeOK
<1>2. CASE Call
  <2> DEFINE at == IF P.resolving THEN "resolving" ELSE "keyed"
  <2>1. /\ pc = "called" /\ Settle(BeforeTheKey(M, P), at) /\ at \in {"resolving", "keyed", "verifying"}
        /\ UNCHANGED <<call, answer, bodies, digesting, clock, keyState, held>>
    BY <1>2 DEF Call
  <2>2. answer' \in Answers
    BY <1>0, <2>1 DEF TypeOK
  <2>3. CallFixed' /\ TypeOK' /\ HeldTyped' /\ Kept' /\ Hashing'
    BY <2>1, <2>2, RefusalsHere, SettleTypes
  <2>4. Past'
    BY <2>1 DEF Settle, Past, M, P, AfterCall, AfterKey, AfterBase, AfterSignature
  <2>5. QED
    BY <2>3, <2>4 DEF Inv
<1>3. CASE ResolverSettles
  <2> DEFINE said == Lookup(keyState, The(ParamsOf(M).keyid))
  <2>1. /\ pc = "resolving" /\ Settle(ResolvedRefusal(said), "keyed") /\ answer' = said
        /\ UNCHANGED <<call, bodies, digesting, clock, keyState, held>>
    BY <1>3 DEF ResolverSettles
  <2>2. BeforeTheKey(M, P) = None /\ P.resolving
    BY <1>0, <2>1 DEF Past, AfterCall
  <2>3. said \in Answers
    <3>1. CallRefusal(M, P) = None /\ ReadRefusal(M, P) = None /\ LocalKeyRefusal(ParamsOf(M).keyid, P) = None
      BY <2>2 DEF BeforeTheKey, ArgumentRefusal, HeaderRefusal, KeyidRefusal, Mistake, ??, None
    <3>2. The(ParamsOf(M).keyid) \in Keyids /\ WellFormedAid(The(ParamsOf(M).keyid))
      BY <1>0, <2>2, <3>1, AskedKeyid, CallTyped DEF M, P
    <3>3. keyState \in [Ids -> Answers]
      BY <1>0, JsVerifierAssumption DEF TypeOK
    <3>4. QED
      BY <3>2, <3>3, LookupAnswers
  <2>4. CallFixed' /\ TypeOK' /\ HeldTyped' /\ Kept' /\ Hashing'
    BY <2>1, <2>3, RefusalsHere, SettleTypes
  <2> HIDE DEF said
  <2>5. Past'
    BY <2>1, <2>2 DEF Settle, Past, M, P, AfterCall, AfterKey, AfterBase, AfterSignature
  <2>6. QED
    BY <2>4, <2>5 DEF Inv
<1>4. CASE BuildBase
  <2> DEFINE refusal == AlgorithmRefusal(ParamsOf(M)) ?? LinesRefusal(ItemsOf(M), M, TRUE)
  <2>1. /\ pc = "keyed" /\ Settle(refusal, "verifying")
        /\ UNCHANGED <<call, answer, bodies, digesting, clock, keyState, held>>
    BY <1>4 DEF BuildBase
  <2>2. answer' \in Answers
    BY <1>0, <2>1 DEF TypeOK
  <2>3. CallFixed' /\ TypeOK' /\ HeldTyped' /\ Kept' /\ Hashing'
    BY <2>1, <2>2, RefusalsHere, SettleTypes
  <2>4. refusal = None => AlgorithmRefusal(ParamsOf(M)) = None /\ LinesRefusal(ItemsOf(M), M, TRUE) = None
    BY DEF ??
  <2> HIDE DEF refusal
  <2>5. Past'
    BY <1>0, <2>1, <2>4 DEF Settle, Past, M, P, AfterCall, AfterKey, AfterBase, AfterSignature
  <2>6. QED
    BY <2>3, <2>5 DEF Inv
<1>5. CASE SignatureVerified
  <2>1. /\ pc = "verifying" /\ seen' = bodies /\ outcome = None
        /\ UNCHANGED <<call, answer, bodies, clock, keyState, held>>
    BY <1>1, <1>5 DEF SignatureVerified, Ended
  <2>2. Past /\ M' = M /\ P' = P /\ answer' = answer
    BY <1>0, <2>1 DEF M, P
  <2>3. CASE AfterTheSignature # None
    <3>1. pc' = "refused" /\ outcome' = AfterTheSignature /\ outcome' # None
      BY <1>5, <2>3 DEF SignatureVerified
    <3>2. CallFixed' /\ HeldTyped' /\ Hashing'
      BY <1>0, <2>1, <3>1 DEF CallFixed, HeldTyped, Hashing
    <3>3. TypeOK'
      BY <1>0, <2>1, <3>1, RefusalsHere DEF TypeOK, Ended
    <3>4. Kept'
      <4>1. DOMAIN seen' = Buffers /\ \A b \in Buffers : bodies[b] \subseteq seen'[b]
        BY <1>0, <2>1 DEF Kept
      <4>2. QED
        BY <1>0, <2>1, <3>1, <4>1, StillKept
    <3>5. Past'
      BY <3>1 DEF Past, AfterCall, AfterKey, AfterBase, AfterSignature
    <3>6. QED
      BY <3>2, <3>3, <3>4, <3>5 DEF Inv
  <2>4. CASE AfterTheSignature = None
    <3>1. HashNext(ToCompare(M))
      BY <1>5, <2>4 DEF SignatureVerified
    <3>2. /\ CallFixed' /\ TypeOK' /\ HeldTyped' /\ Kept' /\ Hashing'
          /\ pc' \in {"hashing", "accepted", "refused"}
      <4>1. /\ DOMAIN seen' = Buffers
            /\ \A b \in Buffers : seen'[b] \in {seen[b], bodies[b]} /\ bodies[b] \subseteq seen'[b]
        BY <1>0, <2>1 DEF Kept
      <4>2. QED
        BY <1>0, <2>1, <3>1, <4>1, HashNextTypes
    <3>3. SignatureVerifies(KeyFor(ParamsOf(M).keyid, P, answer), Signature(M), Base(ItemsOf(M), M, ParamsOf(M)))
            /\ AuthorityServedRefusal(M, P) = None /\ UnreadDigests(M) = None
      BY <2>4 DEF AfterTheSignature, ??, None
    <3>4. SignatureRefusal(M, KeyFor(ParamsOf(M).keyid, P, answer)) = None
      BY <1>0, <2>1, <3>3 DEF SignatureRefusal, Past, AfterBase, ??
    <3>5. Past'
      BY <2>1, <2>2, <3>2, <3>3, <3>4 DEF Past, AfterCall, AfterKey, AfterBase, AfterSignature
    <3>6. QED
      BY <3>2, <3>5 DEF Inv
  <2>5. QED
    BY <2>3, <2>4
<1>6. CASE Hashed
  <2>1. /\ pc = "hashing" /\ outcome = None
        /\ UNCHANGED <<call, answer, bodies, clock, keyState, held, seen>>
    BY <1>1, <1>6 DEF Hashed, Ended
  <2>2. PICK q \in ToCompare(M) : \E x \in seen[q[1]] :
           hashing = {[named |-> q[2].of, hashed |-> x]} /\ Compared(todo, {q})
    BY <1>0, <2>1 DEF Hashing
  <2>3. PICK x \in seen[q[1]] : hashing = {[named |-> q[2].of, hashed |-> x]} /\ Compared(todo, {q})
    BY <2>2
  <2>4. IF x # q[2].of
        THEN pc' = "refused" /\ outcome' = "DigestMismatch"
        ELSE HashNext(todo)
    BY <1>6, <2>3 DEF Hashed
  <2>5. M' = M /\ P' = P
    BY <2>1 DEF M, P
  <2>6. CASE x # q[2].of
    <3>1. CallFixed' /\ HeldTyped' /\ Hashing' /\ Past'
      BY <1>0, <2>1, <2>4, <2>6
         DEF CallFixed, HeldTyped, Hashing, Past, AfterCall, AfterKey, AfterBase, AfterSignature
    <3>2. TypeOK'
      BY <1>0, <2>1, <2>4, <2>6 DEF TypeOK, Ended, Refusals, PolicyRefusals, None
    <3>3. Kept'
      BY <1>0, <2>1, <2>4, <2>5, <2>6 DEF Kept, Given, AfterSignature
    <3>4. QED
      BY <3>1, <3>2, <3>3 DEF Inv
  <2>7. CASE x = q[2].of
    <3>1. /\ CallFixed' /\ TypeOK' /\ HeldTyped' /\ Kept' /\ Hashing'
          /\ pc' \in {"hashing", "accepted", "refused"}
      <4>1. HashNext(todo) /\ todo \in SUBSET ToCompare(M)
        BY <1>0, <2>1, <2>4, <2>7 DEF Hashing
      <4>2. \A other \in ToCompare(M) \ todo : other[2].of \in seen'[other[1]]
        BY <2>1, <2>3, <2>7 DEF Compared
      <4>3. /\ DOMAIN seen' = Buffers
            /\ \A b \in Buffers : seen'[b] \in {seen[b], bodies[b]} /\ bodies[b] \subseteq seen'[b]
        BY <1>0, <2>1 DEF Kept
      <4>4. QED
        BY <1>0, <2>1, <4>1, <4>2, <4>3, HashNextTypes
    <3>2. Past'
      BY <1>0, <2>1, <2>5, <3>1 DEF Past, AfterCall, AfterKey, AfterBase, AfterSignature
    <3>3. QED
      BY <3>1, <3>2 DEF Inv
  <2>8. QED
    BY <2>6, <2>7
<1>7. CASE Refill
  <2>1. /\ call.shared /\ pc \notin Ended
        /\ UNCHANGED <<call, pc, outcome, answer, todo, hashing, clock, keyState, held>>
    BY <1>7 DEF Refill
  <2>2. PICK b \in Buffers, content \in Contents :
          /\ HasContent(bodies[b])
          /\ bodies' = [bodies EXCEPT ![b] = {content}]
          /\ seen' = IF pc = "hashing" THEN [seen EXCEPT ![b] = @ \cup {content}] ELSE seen
    BY <1>7 DEF Refill
  <2>3. content # EmptyBody /\ DOMAIN bodies = Buffers /\ DOMAIN seen = Buffers
    BY <1>0, JsVerifierAssumption DEF Kept
  <2>4. DOMAIN bodies' = Buffers /\ DOMAIN seen' = Buffers
    BY <2>2, <2>3
  <2>5. /\ bodies'[b] = {content}
        /\ \A o \in Buffers : o # b => bodies'[o] = bodies[o]
    BY <2>2, <2>3
  <2>6. \A o \in Buffers : seen[o] \subseteq seen'[o]
          /\ seen'[o] = IF pc = "hashing" /\ o = b THEN seen[o] \cup {content} ELSE seen[o]
    BY <2>2, <2>3
  <2>7. M' = M /\ P' = P
    BY <2>1 DEF M, P
  <2>8. SameKind(Given(b), {content})
    BY <1>0, <2>2, <2>3 DEF Kept, SameKind, HasContent
  <2>9. Kept'
    <3>1. \A o \in Buffers : /\ SameKind(Given(o), bodies'[o]) /\ AtMostOne(bodies'[o])
                             /\ \A x \in seen'[o] : SameKind(Given(o), {x})
                             /\ pc = "hashing" => bodies'[o] \subseteq seen'[o]
                             /\ pc \notin AfterSignature \cup {"refused"} => seen'[o] = {}
      <4> SUFFICES ASSUME NEW o \in Buffers
          PROVE  /\ SameKind(Given(o), bodies'[o]) /\ AtMostOne(bodies'[o])
                 /\ \A x \in seen'[o] : SameKind(Given(o), {x})
                 /\ pc = "hashing" => bodies'[o] \subseteq seen'[o]
                 /\ pc \notin AfterSignature \cup {"refused"} => seen'[o] = {}
        OBVIOUS
      <4>1. CASE o = b
        BY <1>0, <2>5, <2>6, <2>8, <4>1 DEF Kept, AtMostOne, AfterSignature
      <4>2. CASE o # b
        BY <1>0, <2>5, <2>6, <4>2 DEF Kept, AfterSignature
      <4>3. QED
        BY <4>1, <4>2
    <3>2. QED
      BY <2>1, <2>4, <2>7, <3>1 DEF Kept, Given
  <2>10. Hashing'
    <3>1. ToCompare(M)' = ToCompare(M)
      BY <2>7
    <3>2. \A q \in ToCompare(M) : q[1] \in Buffers
      BY Comparing
    <3>3. ASSUME pc = "hashing"
          PROVE  \E q \in ToCompare(M) : \E x \in seen'[q[1]] :
                   /\ hashing = {[named |-> q[2].of, hashed |-> x]}
                   /\ \A other \in ToCompare(M) \ (todo \cup {q}) : other[2].of \in seen'[other[1]]
      <4>1. PICK q \in ToCompare(M) : \E x \in seen[q[1]] :
               hashing = {[named |-> q[2].of, hashed |-> x]} /\ Compared(todo, {q})
        BY <1>0, <3>3 DEF Hashing
      <4>2. PICK x \in seen[q[1]] : hashing = {[named |-> q[2].of, hashed |-> x]} /\ Compared(todo, {q})
        BY <4>1
      <4>3. x \in seen'[q[1]]
        BY <2>6, <3>2, <4>2
      <4>4. \A other \in ToCompare(M) \ (todo \cup {q}) : other[2].of \in seen'[other[1]]
        BY <2>6, <3>2, <4>2 DEF Compared
      <4>5. QED
        BY <4>2, <4>3, <4>4
    <3>4. pc = "hashing" => todo \subseteq ToCompare(M)
      BY <1>0 DEF Hashing
    <3>5. QED
      BY <2>1, <3>1, <3>3, <3>4 DEF Hashing, Compared
  <2>11. TypeOK'
    BY <1>0, <2>1, <2>6 DEF TypeOK
  <2>12. CallFixed' /\ HeldTyped' /\ Past'
    BY <1>0, <2>1, <2>7 DEF CallFixed, HeldTyped, Past
  <2>13. QED
    BY <2>9, <2>10, <2>11, <2>12 DEF Inv
<1>8. CASE Tick
  <2>1. /\ clock' = clock + 1 /\ clock < call.until
        /\ UNCHANGED <<call, pc, outcome, answer, bodies, todo, hashing, seen, keyState, held>>
    BY <1>8 DEF Tick, digesting
  <2>2. call.until \in 0..MaxClock /\ MaxClock \in Nat
    BY <1>0, CallTyped, JsVerifierAssumption
  <2>3. TypeOK'
    BY <1>0, <2>1, <2>2 DEF TypeOK
  <2>4. HeldTyped'
    BY <1>0, <2>1 DEF HeldTyped, TypeOK
  <2>5. CallFixed' /\ Past' /\ Kept' /\ Hashing'
    BY <1>0, <2>1 DEF CallFixed, Past, Kept, Given, Hashing, Compared, M, P
  <2>6. QED
    BY <2>3, <2>4, <2>5 DEF Inv
<1>9. CASE Rotate
  <2> DEFINE said == LookupNow(call, keyState')
             new == [answer |-> said, at |-> clock]
  <2>1. /\ keyState' \in call.states
        /\ UNCHANGED <<call, pc, outcome, answer, bodies, todo, hashing, seen, clock>>
        /\ held' \in {held, held \cup {new}}
    BY <1>9 DEF Rotate, digesting
  <2>2. keyState' \in KeyStates /\ keyState' \in [Ids -> Answers]
    BY <1>0, <2>1, JsVerifierAssumption DEF CallFixed
  <2>3. new.answer \in Answers /\ new.at \in 0..clock
    BY <1>0, <2>2, LookupNowAnswers, CallTyped DEF TypeOK
  <2> HIDE DEF new
  <2>4. HeldTyped'
    BY <1>0, <2>1, <2>3 DEF HeldTyped
  <2>5. TypeOK'
    BY <1>0, <2>1, <2>2 DEF TypeOK
  <2>6. CallFixed' /\ Past' /\ Kept' /\ Hashing'
    BY <1>0, <2>1 DEF CallFixed, Past, Kept, Given, Hashing, Compared, M, P
  <2>7. QED
    BY <2>4, <2>5, <2>6 DEF Inv
<1>10. CASE UNCHANGED vars
  <2>1. /\ UNCHANGED <<call, pc, outcome, answer, bodies, todo, hashing, seen, clock, keyState, held>>
        /\ M' = M /\ P' = P
    BY <1>10 DEF vars, digesting, M, P
  <2>2. CallFixed' /\ TypeOK' /\ HeldTyped'
    BY <1>0, <2>1 DEF CallFixed, TypeOK, HeldTyped
  <2>3. Past' /\ Kept' /\ Hashing'
    BY <1>0, <2>1 DEF Past, Kept, Given, Hashing, Compared
  <2>4. QED
    BY <2>2, <2>3 DEF Inv
<1>11. QED
  BY <1>2, <1>3, <1>4, <1>5, <1>6, <1>7, <1>8, <1>9, <1>10 DEF Next, Resumes

\* The type invariant, for any calls, key states, contents and clock.
THEOREM TypeCorrect == Spec => []TypeOK
<1>1. Inv => TypeOK
  BY DEF Inv
<1>2. QED
  BY InitInv, NextInv, <1>1, PTL DEF Spec

-------------------------------------------------------------------------------
(* The moment the call is decided at *)

\* What the resolver would say now is something it said in the call ...
Current == pc \notin Ended => \E h \in held : h.answer = LookupNow(call, keyState)

\* ... and there is a moment whose key state gives the answer the call was given, and no later
\* than a clock at which the message was fresh.
Moment ==
    \E h \in held :
      /\ P.resolving /\ pc \in AfterKey => h.answer = answer
      /\ pc \in AfterSignature => \E now \in h.at..clock : FreshnessRefusal(ParamsOf(M), P, now) = None

HeldInv == Current /\ Moment

LEMMA InitHeld == Init => HeldInv
BY DEF Init, HeldInv, Current, Moment, AfterKey, AfterBase, AfterSignature

\* Moves of the call that leave the answer and the clock alone stay at the same moment.
LEMMA QuietHeld ==
  ASSUME HeldInv, UNCHANGED <<call, answer, clock, keyState, held>>,
         P.resolving /\ pc' \in AfterKey => pc \in AfterKey,
         pc' \in AfterSignature => pc \in AfterSignature, pc' \notin Ended => pc \notin Ended
  PROVE  HeldInv'
<1>1. Current'
  BY DEF HeldInv, Current
<1>2. PICK h \in held :
        /\ P.resolving /\ pc \in AfterKey => h.answer = answer
        /\ pc \in AfterSignature => \E now \in h.at..clock : FreshnessRefusal(ParamsOf(M), P, now) = None
  BY DEF HeldInv, Moment
<1>3. h \in held' /\ P' = P /\ M' = M /\ answer' = answer /\ clock' = clock
  BY DEF P, M
<1>4. Moment'
  BY <1>2, <1>3 DEF Moment
<1>5. QED
  BY <1>1, <1>4 DEF HeldInv

\* A resolver that settles says what a lookup of the keyid says now.
LEMMA SettlesNow ==
  ASSUME Inv, pc = "resolving"
  PROVE  /\ BeforeTheKey(M, P) = None /\ P.resolving
         /\ CallRefusal(M, P) = None /\ ReadRefusal(M, P) = None /\ CoverageRefusal(M, P) = None
         /\ LocalKeyRefusal(ParamsOf(M).keyid, P) = None
         /\ UnexpectedKeyidRefusal(ParamsOf(M).keyid, P) = None
         /\ LookupNow(call, keyState) = Lookup(keyState, The(ParamsOf(M).keyid))
<1>1. CallFixed /\ Past
  BY DEF Inv
<1>2. BeforeTheKey(M, P) = None /\ P.resolving
  BY <1>1 DEF Past, AfterCall
<1>3. /\ CallRefusal(M, P) = None /\ ReadRefusal(M, P) = None /\ CoverageRefusal(M, P) = None
      /\ LocalKeyRefusal(ParamsOf(M).keyid, P) = None
      /\ UnexpectedKeyidRefusal(ParamsOf(M).keyid, P) = None
  BY <1>2 DEF BeforeTheKey, ArgumentRefusal, HeaderRefusal, KeyidRefusal, Mistake, ??, None
<1>4. LookupNow(call, keyState) = Lookup(keyState, The(ParamsOf(M).keyid))
  BY <1>1, <1>2, <1>3, AskedKeyid, CallTyped DEF M, P
<1>5. QED
  BY <1>2, <1>3, <1>4

\* The moment moves with the call: it is chosen again when the resolver settles, and the
\* clock of the freshness check is one of its clocks.
LEMMA NextHeld == Inv /\ HeldInv /\ [Next]_vars => HeldInv'
<1> SUFFICES ASSUME Inv, HeldInv, [Next]_vars PROVE HeldInv'
  OBVIOUS
<1>0. TypeOK /\ Past /\ CallFixed /\ HeldTyped
  BY DEF Inv
<1>1. PICK h \in held :
        /\ P.resolving /\ pc \in AfterKey => h.answer = answer
        /\ pc \in AfterSignature => \E now \in h.at..clock : FreshnessRefusal(ParamsOf(M), P, now) = None
  BY DEF HeldInv, Moment
<1>2. CASE Call
  <2>1. UNCHANGED <<call, answer, clock, keyState, held>> /\ pc = "called"
    BY <1>2 DEF Call
  <2>2. pc' \in {"resolving", "keyed", "refused"} /\ (P.resolving => pc' # "keyed")
    BY <1>2 DEF Call, Settle
  <2>3. QED
    BY <2>1, <2>2, QuietHeld DEF Ended, AfterKey, AfterBase, AfterSignature
<1>3. CASE ResolverSettles
  <2> DEFINE said == Lookup(keyState, The(ParamsOf(M).keyid))
  <2>1. /\ pc = "resolving" /\ pc' \in {"keyed", "refused"} /\ answer' = said
        /\ UNCHANGED <<call, clock, keyState, held>>
    BY <1>3 DEF ResolverSettles, Settle
  <2>2. LookupNow(call, keyState) = said
    BY <2>1, SettlesNow
  <2>3. PICK g \in held : g.answer = said
    BY <2>1, <2>2 DEF HeldInv, Current, Ended
  <2>4. Moment'
    BY <2>1, <2>3 DEF Moment, M, P, AfterSignature
  <2>5. Current'
    BY <2>1 DEF HeldInv, Current, Ended
  <2>6. QED
    BY <2>4, <2>5 DEF HeldInv
<1>4. CASE BuildBase
  <2>1. /\ UNCHANGED <<call, answer, clock, keyState, held>> /\ pc = "keyed"
        /\ pc' \in {"verifying", "refused"}
    BY <1>4 DEF BuildBase, Settle
  <2>2. QED
    BY <2>1, QuietHeld DEF Ended, AfterKey, AfterBase, AfterSignature
<1>5. CASE SignatureVerified
  <2>1. UNCHANGED <<call, answer, clock, keyState, held>> /\ pc = "verifying"
    BY <1>5 DEF SignatureVerified
  <2>2. Current'
    BY <2>1 DEF HeldInv, Current, Ended
  <2>3. P.resolving => h.answer = answer
    BY <1>1, <2>1 DEF AfterKey, AfterBase
  <2>4. pc' \in AfterSignature => FreshnessRefusal(ParamsOf(M), P, clock) = None
    BY <1>5 DEF SignatureVerified, AfterSignature, AfterTheSignature, ??, None
  <2>5. clock \in h.at..clock
    BY <1>0, <1>1 DEF HeldTyped, TypeOK
  <2>6. Moment'
    BY <2>1, <2>3, <2>4, <2>5 DEF Moment, M, P
  <2>7. QED
    BY <2>2, <2>6 DEF HeldInv
<1>6. CASE Hashed
  <2>1. UNCHANGED <<call, answer, clock, keyState, held>> /\ pc = "hashing"
    BY <1>6 DEF Hashed
  <2>2. QED
    BY <2>1, QuietHeld DEF Ended, AfterKey, AfterBase, AfterSignature
<1>7. CASE Refill
  <2>1. UNCHANGED <<call, pc, answer, clock, keyState, held>>
    BY <1>7 DEF Refill
  <2>2. QED
    BY <2>1, QuietHeld
<1>8. CASE Tick
  <2>1. UNCHANGED <<call, pc, answer, keyState, held>> /\ clock' = clock + 1
    BY <1>8 DEF Tick
  <2>2. h.at..clock \subseteq h.at..clock'
    BY <1>0, <1>1, <2>1 DEF TypeOK, HeldTyped
  <2>3. Moment'
    BY <1>1, <2>1, <2>2 DEF Moment, M, P
  <2>4. Current'
    BY <2>1 DEF HeldInv, Current
  <2>5. QED
    BY <2>3, <2>4 DEF HeldInv
<1>9. CASE Rotate
  <2> DEFINE said == LookupNow(call, keyState')
  <2>1. UNCHANGED <<call, pc, answer, clock>>
    BY <1>9 DEF Rotate
  <2>2. held' = IF pc \in Ended \/ \E g \in held : g.answer = said THEN held
                ELSE held \cup {[answer |-> said, at |-> clock]}
    BY <1>9 DEF Rotate
  <2>3. held \subseteq held' /\ (pc \notin Ended => \E g \in held' : g.answer = said)
    <3>1. CASE pc \in Ended \/ \E g \in held : g.answer = said
      BY <2>2, <3>1
    <3>2. CASE ~(pc \in Ended \/ \E g \in held : g.answer = said)
      <4> DEFINE new == [answer |-> said, at |-> clock]
      <4>1. held' = held \cup {new} /\ new.answer = said
        BY <2>2, <3>2
      <4> HIDE DEF new
      <4>2. QED
        BY <4>1
    <3>3. QED
      BY <3>1, <3>2
  <2>4. Moment'
    BY <1>1, <2>1, <2>3 DEF Moment, M, P
  <2>5. Current'
    BY <2>1, <2>3 DEF Current
  <2>6. QED
    BY <2>4, <2>5 DEF HeldInv
<1>10. CASE UNCHANGED vars
  BY <1>10, QuietHeld DEF vars
<1>11. QED
  BY <1>2, <1>3, <1>4, <1>5, <1>6, <1>7, <1>8, <1>9, <1>10 DEF Next, Resumes

-------------------------------------------------------------------------------
(* The contents the call is decided on *)

\* A content that does not match a digest of its buffer, or none that could.
Differs(own, asked) ==
    \E b \in Covered(M) : CompareDigestRefusal(DigestFor(b, M), Content(b, own, asked)) # None

\* What the digests say of these contents.
Told(own, asked) ==
    UnreadDigests(M) ?? IF Differs(own, asked) THEN "DigestMismatch" ELSE None

\* A whole call, made at a moment of this one on these contents, would end with this
\* refusal, or with none.
DecidedOn(refusal, own, asked) ==
    \E h \in held : \E now \in h.at..clock :
      Mistake(BeforeDigests(M, P, h.answer, now)) ?? Told(own, asked) = refusal

\* Whatever the contents, a check before the digests refuses as the whole call would at
\* some moment of this one, and once they are compared only they are left to decide.
LEMMA StagesDecide ==
  ASSUME Inv, HeldInv, NEW own, NEW asked
  PROVE  /\ pc = "called" /\ BeforeTheKey(M, P) # None => DecidedOn(BeforeTheKey(M, P), own, asked)
         /\ pc = "keyed" /\ AlgorithmRefusal(ParamsOf(M)) ?? LinesRefusal(ItemsOf(M), M, TRUE) # None
              => DecidedOn(AlgorithmRefusal(ParamsOf(M)) ?? LinesRefusal(ItemsOf(M), M, TRUE), own, asked)
         /\ pc = "verifying" /\ AfterTheSignature # None => DecidedOn(AfterTheSignature, own, asked)
         /\ pc = "verifying" /\ AfterTheSignature = None => DecidedOn(Told(own, asked), own, asked)
         /\ pc \in AfterSignature => DecidedOn(Told(own, asked), own, asked)
<1> DEFINE keyid == ParamsOf(M).keyid
           resolved(said) == IF P.resolving THEN ResolvedRefusal(said) ELSE None
           a == CallRefusal(M, P)
           b == ReadRefusal(M, P)
           d == CoverageRefusal(M, P)
           e == LocalKeyRefusal(keyid, P)
           f == UnexpectedKeyidRefusal(keyid, P)
           g == AlgorithmRefusal(ParamsOf(M))
           lines == LinesRefusal(ItemsOf(M), M, TRUE)
           signed(said) == IF SignatureVerifies(KeyFor(keyid, P, said), Signature(M),
                                                Base(ItemsOf(M), M, ParamsOf(M)))
                           THEN None ELSE "SignatureMismatch"
           served == AuthorityServedRefusal(M, P)
           fresh(now) == FreshnessRefusal(ParamsOf(M), P, now)
           unread == UnreadDigests(M)
           differs == IF Differs(own, asked) THEN "DigestMismatch" ELSE None
<1>1. TypeOK /\ Past /\ HeldTyped /\ CallFixed
  BY DEF Inv
<1>2. PICK h \in held :
        /\ P.resolving /\ pc \in AfterKey => h.answer = answer
        /\ pc \in AfterSignature => \E now \in h.at..clock : fresh(now) = None
  BY DEF HeldInv, Moment
<1>3. clock \in h.at..clock
  BY <1>1, <1>2 DEF TypeOK, HeldTyped
<1>4. \A now : BeforeDigests(M, P, h.answer, now) =
        a ?? (b ?? (d ?? ((e ?? (f ?? (resolved(h.answer) ?? g)))
          ?? ((lines ?? signed(h.answer)) ?? (served ?? fresh(now))))))
  BY DEF BeforeDigests, KeyStageRefusal, SignatureRefusal
<1>5. pc \in AfterKey => signed(h.answer) = signed(answer) /\ resolved(h.answer) = None
  BY <1>1, <1>2 DEF KeyFor, Past
<1>6. ASSUME NEW refusal, NEW now \in h.at..clock,
             Mistake(BeforeDigests(M, P, h.answer, now)) ?? (unread ?? differs) = refusal
      PROVE  DecidedOn(refusal, own, asked)
  BY <1>6, <1>2 DEF DecidedOn, Told
<1>7. BeforeTheKey(M, P) = Mistake(a) ?? ((b ?? d) ?? (e ?? f))
  BY DEF BeforeTheKey, ArgumentRefusal, HeaderRefusal, KeyidRefusal
<1>8. AfterTheSignature = signed(answer) ?? (served ?? (fresh(clock) ?? unread))
  BY DEF AfterTheSignature
<1>9. Told(own, asked) = unread ?? differs
  BY DEF Told
<1>10. /\ b # "ValueError" /\ d # "ValueError" /\ e # "ValueError" /\ f # "ValueError"
       /\ g # "ValueError" /\ served # "ValueError" /\ fresh(clock) # "ValueError"
  BY <1>1, NoMistake
<1>11. /\ pc \in AfterCall => a = None /\ b = None /\ d = None /\ e = None /\ f = None
       /\ pc = "keyed" => lines # "ValueError"
       /\ pc \in AfterBase => g = None /\ lines = None
       /\ pc \in AfterSignature => signed(answer) = None /\ served = None /\ unread = None
  <2>1. pc \in AfterCall => a = None /\ b = None /\ d = None /\ e = None /\ f = None
    <3>1. BeforeTheKey(M, P) = None => a = None /\ b = None /\ d = None /\ e = None /\ f = None
      BY <1>7 DEF Mistake, ??, None
    <3>2. QED
      BY <1>1, <3>1 DEF Past
  <2>2. pc = "keyed" => lines # "ValueError"
    <3> SUFFICES ASSUME pc = "keyed" PROVE lines # "ValueError"
      OBVIOUS
    <3>1. b = None
      BY <2>1 DEF AfterCall, AfterKey
    <3>2. DOMAIN ItemsOf(M) \subseteq Nat
      BY <1>1, <3>1, ReadGives, CallTyped DEF M, P
    <3>3. lines \in {None, "MissingComponent", "SignatureMismatch"}
      BY <3>2, LinesSay
    <3>4. QED
      BY <3>3 DEF None
  <2>3. pc \in AfterBase => g = None /\ lines = None
    BY <1>1 DEF Past
  <2>4. pc \in AfterSignature => signed(answer) = None /\ served = None /\ unread = None
    <3>1. SignatureRefusal(M, KeyFor(keyid, P, answer)) = lines ?? signed(answer)
      BY DEF SignatureRefusal
    <3>2. pc \in AfterSignature => pc \in AfterBase
      BY DEF AfterBase
    <3>3. QED
      BY <1>1, <2>3, <3>1, <3>2 DEF Past, ??
  <2>5. QED
    BY <2>1, <2>2, <2>3, <2>4
<1>12. \A x : signed(x) # "ValueError"
  BY DEF None
<1> HIDE DEF a, b, d, e, f, g, lines, signed, served, fresh, unread, differs, resolved
<1>13. ASSUME pc = "called", BeforeTheKey(M, P) # None
       PROVE  DecidedOn(BeforeTheKey(M, P), own, asked)
  <2>1. Mistake(BeforeDigests(M, P, h.answer, clock)) ?? (unread ?? differs) = BeforeTheKey(M, P)
    BY <1>4, <1>7, <1>10, <1>13 DEF Mistake, ??, None
  <2>2. QED
    BY <1>3, <1>6, <2>1
<1>14. ASSUME pc = "keyed", g ?? lines # None
       PROVE  DecidedOn(g ?? lines, own, asked)
  <2>1. Mistake(BeforeDigests(M, P, h.answer, clock)) ?? (unread ?? differs) = g ?? lines
    BY <1>4, <1>5, <1>10, <1>11, <1>14 DEF Mistake, ??, None, AfterCall, AfterKey
  <2>2. QED
    BY <1>3, <1>6, <2>1
<1>15. ASSUME pc = "verifying", AfterTheSignature # None
       PROVE  DecidedOn(AfterTheSignature, own, asked)
  <2>1. Mistake(BeforeDigests(M, P, h.answer, clock)) ?? (unread ?? differs) = AfterTheSignature
    BY <1>4, <1>5, <1>8, <1>10, <1>11, <1>12, <1>15 DEF Mistake, ??, None, AfterCall, AfterKey, AfterBase
  <2>2. QED
    BY <1>3, <1>6, <2>1
<1>16. ASSUME pc = "verifying", AfterTheSignature = None
       PROVE  DecidedOn(Told(own, asked), own, asked)
  <2>1. Mistake(BeforeDigests(M, P, h.answer, clock)) ?? (unread ?? differs) = Told(own, asked)
    BY <1>4, <1>5, <1>8, <1>9, <1>11, <1>16 DEF Mistake, ??, None, AfterCall, AfterKey, AfterBase
  <2>2. QED
    BY <1>3, <1>6, <2>1
<1>17. ASSUME pc \in AfterSignature
       PROVE  DecidedOn(Told(own, asked), own, asked)
  <2>1. PICK now \in h.at..clock : fresh(now) = None
    BY <1>2, <1>17
  <2>2. Mistake(BeforeDigests(M, P, h.answer, now)) ?? (unread ?? differs) = Told(own, asked)
    BY <1>4, <1>5, <1>9, <1>11, <1>17, <2>1
       DEF Mistake, ??, None, AfterCall, AfterKey, AfterBase
  <2>3. QED
    BY <1>6, <2>2
<1>18. QED
  BY <1>13, <1>14, <1>15, <1>16, <1>17 DEF g, lines

\* What the resolver says is what a lookup says now, so a call it ends is decided now.
LEMMA ResolverDecides ==
  ASSUME Inv, HeldInv, ResolverSettles, NEW own, NEW asked,
         NEW refusal, refusal = ResolvedRefusal(Lookup(keyState, The(ParamsOf(M).keyid))), refusal # None
  PROVE  DecidedOn(refusal, own, asked)
<1> DEFINE said == Lookup(keyState, The(ParamsOf(M).keyid))
<1>1. pc = "resolving" /\ TypeOK /\ HeldTyped /\ CallFixed
  BY DEF ResolverSettles, Inv
<1>2. /\ CallRefusal(M, P) = None /\ ReadRefusal(M, P) = None /\ CoverageRefusal(M, P) = None
      /\ LocalKeyRefusal(ParamsOf(M).keyid, P) = None
      /\ UnexpectedKeyidRefusal(ParamsOf(M).keyid, P) = None
      /\ P.resolving /\ LookupNow(call, keyState) = said
  BY <1>1, SettlesNow
<1>3. PICK h \in held : h.answer = said
  BY <1>1, <1>2 DEF HeldInv, Current, Ended
<1>4. clock \in h.at..clock
  BY <1>1, <1>3 DEF TypeOK, HeldTyped
<1>5. refusal # "ValueError"
  BY <1>1, NoMistake
<1> HIDE DEF said
<1>6. BeforeDigests(M, P, said, clock) = refusal
  BY <1>2 DEF BeforeDigests, KeyStageRefusal, ??, said
<1>7. Mistake(BeforeDigests(M, P, said, clock)) ?? Told(own, asked) = refusal
  BY <1>5, <1>6 DEF Mistake, ??
<1>8. QED
  BY <1>3, <1>4, <1>7 DEF DecidedOn

\* A call that refuses does so on contents it could have read, and one that accepts has
\* seen each content that a digest names.
Settled ==
    /\ pc = "refused" =>
         /\ outcome # "accepted"
         /\ \E own \in Readings("own"), asked \in Readings("asked") : DecidedOn(outcome, own, asked)
    /\ pc = "accepted" => outcome = "accepted" /\ \A q \in ToCompare(M) : q[2].of \in seen[q[1]]

LEMMA InitSettled == Init => Settled
BY DEF Init, Settled

\* A refusal before the digests is on any contents at all.
LEMMA RefusedOnAny ==
  ASSUME UNCHANGED <<call, clock, held>>, pc' = "refused",
         outcome' \in Refusals, \A own, asked : DecidedOn(outcome', own, asked)
  PROVE  Settled'
<1>1. Readings("own")' # {} /\ Readings("asked")' # {}
  BY DEF Readings
<1>2. M' = M /\ P' = P
  BY DEF M, P
<1>3. \A own, asked : DecidedOn(outcome, own, asked)'
  BY <1>2 DEF DecidedOn, Told, Differs
<1>4. outcome' # "accepted"
  BY DEF Refusals, PolicyRefusals
<1>5. QED
  BY <1>1, <1>3, <1>4 DEF Settled

\* A digest that does not match refuses on a content of its buffer ...
LEMMA RefusedOnOne ==
  ASSUME UNCHANGED <<call, clock, held>>, pc' = "refused", outcome' = "DigestMismatch",
         UnreadDigests(M) = None, \A own, asked : DecidedOn(Told(own, asked), own, asked),
         NEW b \in Covered(M), NEW r \in Readings(b)', CompareDigestRefusal(DigestFor(b, M), r) # None
  PROVE  Settled'
<1>1. Readings("own")' # {} /\ Readings("asked")' # {}
  BY DEF Readings
<1>2. b \in Buffers
  BY DEF Covered, Buffers
<1>3. PICK own \in Readings("own")', asked \in Readings("asked")' : Content(b, own, asked) = r
  <2> DEFINE R == Readings("own")'
             S == Readings("asked")'
  <2>1. R # {} /\ S # {} /\ r \in IF b = "own" THEN R ELSE S
    BY <1>1, <1>2 DEF Buffers
  <2> HIDE DEF R, S
  <2>2. CASE b = "own"
    <3>1. PICK asked \in S : TRUE
      BY <2>1
    <3>2. r \in R /\ Content(b, r, asked) = r
      BY <2>1, <2>2 DEF Content
    <3>3. QED
      BY <3>1, <3>2 DEF R, S
  <2>3. CASE b # "own"
    <3>1. PICK own \in R : TRUE
      BY <2>1
    <3>2. r \in S /\ Content(b, own, r) = r
      BY <2>1, <2>3 DEF Content
    <3>3. QED
      BY <3>1, <3>2 DEF R, S
  <2>4. QED
    BY <2>2, <2>3
<1>4. Told(own, asked) = "DigestMismatch"
  BY <1>3 DEF Told, Differs, ??
<1>5. DecidedOn(outcome', own, asked)
  BY <1>4
<1>6. M' = M /\ P' = P
  BY DEF M, P
<1>7. DecidedOn(outcome, own, asked)'
  BY <1>5, <1>6 DEF DecidedOn, Told, Differs
<1>8. QED
  BY <1>3, <1>7 DEF Settled

\* ... also when there is no content to compare, and the last that matches accepts.
LEMMA HashNextSettles ==
  ASSUME Kept, Kept', UNCHANGED <<call, bodies, clock, held>>,
         UnreadDigests(M) = None, \A own, asked : DecidedOn(Told(own, asked), own, asked),
         NEW left \in SUBSET ToCompare(M), HashNext(left),
         \A other \in ToCompare(M) \ left : other[2].of \in seen'[other[1]]
  PROVE  Settled'
<1>1. M' = M
  BY DEF M
<1>2. CASE left = {}
  BY <1>1, <1>2 DEF HashNext, Settled
<1>3. CASE left # {}
  <2>1. PICK next \in left :
          IF bodies[next[1]] = {} THEN pc' = "refused" /\ outcome' = "DigestMismatch" ELSE pc' = "hashing"
    BY <1>3 DEF HashNext
  <2>2. next[1] \in Covered(M) /\ next[1] \in Buffers
    BY Comparing
  <2>3. CASE bodies[next[1]] # {}
    BY <2>1, <2>3 DEF Settled
  <2>4. CASE bodies[next[1]] = {}
    <3> DEFINE b == next[1]
    <3>1. seen'[b] = {}
      <4>1. SameKind(Given(b), bodies[b])
        BY <2>2 DEF Kept
      <4>2. Given(b) = {}
        BY <2>4, <4>1 DEF SameKind
      <4>3. \A x \in seen'[b] : SameKind(Given(b), {x})
        BY <1>1, <2>2 DEF Kept, Given
      <4>4. QED
        BY <4>2, <4>3 DEF SameKind
    <3>2. {} \in Readings(b)'
      BY <2>4, <3>1 DEF Readings
    <3>3. CompareDigestRefusal(DigestFor(b, M), {}) # None
      BY DEF CompareDigestRefusal, None
    <3>4. pc' = "refused" /\ outcome' = "DigestMismatch"
      BY <2>1, <2>4
    <3> HIDE DEF b
    <3>5. QED
      BY <2>2, <3>2, <3>3, <3>4, RefusedOnOne DEF b
  <2>5. QED
    BY <2>3, <2>4
<1>4. QED
  BY <1>2, <1>3

\* Every step that ends the call decides it on contents it could have read, and once it
\* is over only the clock and the key state move.
LEMMA NextSettled == Inv /\ HeldInv /\ Settled /\ Inv' /\ [Next]_vars => Settled'
<1> SUFFICES ASSUME Inv, HeldInv, Settled, Inv', [Next]_vars PROVE Settled'
  OBVIOUS
<1>0. TypeOK /\ Past /\ Kept /\ Hashing /\ HeldTyped /\ Kept'
  BY DEF Inv
<1>1. CASE Call
  <2>1. /\ pc = "called" /\ Settle(BeforeTheKey(M, P), IF P.resolving THEN "resolving" ELSE "keyed")
        /\ UNCHANGED <<call, clock, held>>
    BY <1>1 DEF Call
  <2>2. CASE BeforeTheKey(M, P) = None
    BY <2>1, <2>2 DEF Settle, Settled
  <2>3. CASE BeforeTheKey(M, P) # None
    <3>1. pc' = "refused" /\ outcome' = BeforeTheKey(M, P)
      BY <2>1, <2>3 DEF Settle
    <3>2. \A own, asked : DecidedOn(BeforeTheKey(M, P), own, asked)
      BY <2>1, <2>3, StagesDecide
    <3>3. QED
      BY <2>1, <2>3, <3>1, <3>2, RefusalsHere, RefusedOnAny
  <2>4. QED
    BY <2>2, <2>3
<1>2. CASE ResolverSettles
  <2> DEFINE refusal == ResolvedRefusal(Lookup(keyState, The(ParamsOf(M).keyid)))
  <2>1. pc = "resolving" /\ Settle(refusal, "keyed") /\ UNCHANGED <<call, clock, held>>
    BY <1>2 DEF ResolverSettles
  <2>2. CASE refusal = None
    BY <2>1, <2>2 DEF Settle, Settled
  <2>3. CASE refusal # None
    <3>1. pc' = "refused" /\ outcome' = refusal
      BY <2>1, <2>3 DEF Settle
    <3>2. \A own, asked : DecidedOn(refusal, own, asked)
      BY <1>2, <2>3, ResolverDecides
    <3>3. QED
      BY <2>1, <2>3, <3>1, <3>2, RefusalsHere, RefusedOnAny
  <2>4. QED
    BY <2>2, <2>3
<1>3. CASE BuildBase
  <2> DEFINE refusal == AlgorithmRefusal(ParamsOf(M)) ?? LinesRefusal(ItemsOf(M), M, TRUE)
  <2>1. pc = "keyed" /\ Settle(refusal, "verifying") /\ UNCHANGED <<call, clock, held>>
    BY <1>3 DEF BuildBase
  <2>2. CASE refusal = None
    BY <2>1, <2>2 DEF Settle, Settled
  <2>3. CASE refusal # None
    <3>1. pc' = "refused" /\ outcome' = refusal
      BY <2>1, <2>3 DEF Settle
    <3>2. \A own, asked : DecidedOn(refusal, own, asked)
      BY <2>1, <2>3, StagesDecide
    <3>3. QED
      BY <2>1, <2>3, <3>1, <3>2, RefusalsHere, RefusedOnAny
  <2>4. QED
    BY <2>2, <2>3
<1>4. CASE SignatureVerified
  <2>1. pc = "verifying" /\ UNCHANGED <<call, bodies, clock, held>>
    BY <1>4 DEF SignatureVerified
  <2>2. CASE AfterTheSignature # None
    <3>1. pc' = "refused" /\ outcome' = AfterTheSignature
      BY <1>4, <2>2 DEF SignatureVerified
    <3>2. \A own, asked : DecidedOn(AfterTheSignature, own, asked)
      BY <2>1, <2>2, StagesDecide
    <3>3. QED
      BY <2>1, <2>2, <3>1, <3>2, RefusalsHere, RefusedOnAny
  <2>3. CASE AfterTheSignature = None
    <3>1. HashNext(ToCompare(M))
      BY <1>4, <2>3 DEF SignatureVerified
    <3>2. UnreadDigests(M) = None
      BY <2>3 DEF AfterTheSignature, ??
    <3>3. \A own, asked : DecidedOn(Told(own, asked), own, asked)
      BY <2>1, <2>3, StagesDecide
    <3>4. QED
      BY <1>0, <2>1, <3>1, <3>2, <3>3, HashNextSettles
  <2>4. QED
    BY <2>2, <2>3
<1>5. CASE Hashed
  <2>1. pc = "hashing" /\ UNCHANGED <<call, bodies, clock, held, seen>>
    BY <1>5 DEF Hashed
  <2>2. PICK q \in ToCompare(M) : \E x \in seen[q[1]] :
           hashing = {[named |-> q[2].of, hashed |-> x]} /\ Compared(todo, {q})
    BY <1>0, <2>1 DEF Hashing
  <2>3. PICK x \in seen[q[1]] : hashing = {[named |-> q[2].of, hashed |-> x]} /\ Compared(todo, {q})
    BY <2>2
  <2>4. UnreadDigests(M) = None
    BY <1>0, <2>1 DEF Past, AfterSignature
  <2>5. \A own, asked : DecidedOn(Told(own, asked), own, asked)
    BY <2>1, StagesDecide DEF AfterSignature
  <2>6. CASE x # q[2].of
    <3>1. pc' = "refused" /\ outcome' = "DigestMismatch"
      BY <1>5, <2>3, <2>6 DEF Hashed
    <3>2. q[1] \in Covered(M) /\ q[2] \in Recognized(DigestFor(q[1], M))
      BY <2>2, Comparing
    <3>3. CompareDigestRefusal(DigestFor(q[1], M), {x}) # None
      BY <2>6, <3>2 DEF CompareDigestRefusal, None
    <3>4. {x} \in Readings(q[1])'
      BY <2>1, <2>3 DEF Readings
    <3>5. QED
      BY <2>1, <2>4, <2>5, <3>1, <3>2, <3>3, <3>4, RefusedOnOne
  <2>7. CASE x = q[2].of
    <3>1. HashNext(todo) /\ todo \in SUBSET ToCompare(M)
      BY <1>0, <1>5, <2>1, <2>3, <2>7 DEF Hashing, Hashed
    <3>2. \A other \in ToCompare(M) \ todo : other[2].of \in seen'[other[1]]
      BY <2>1, <2>3, <2>7 DEF Compared
    <3>3. QED
      BY <1>0, <2>1, <2>4, <2>5, <3>1, <3>2, HashNextSettles
  <2>8. QED
    BY <2>6, <2>7
<1>6. CASE Refill
  BY <1>6 DEF Refill, Settled, Ended
<1>7. CASE Tick
  <2>1. clock' = clock + 1 /\ UNCHANGED <<call, pc, outcome, bodies, seen, held>> /\ M' = M /\ P' = P
    BY <1>7 DEF Tick, digesting, M, P
  <2>2. \A h \in held : h.at..clock \subseteq h.at..clock'
    BY <1>0, <2>1 DEF TypeOK, HeldTyped
  <2>3. ASSUME NEW own, NEW asked, DecidedOn(outcome, own, asked)
        PROVE  DecidedOn(outcome, own, asked)'
    BY <2>1, <2>2, <2>3 DEF DecidedOn, Told, Differs
  <2>4. QED
    BY <2>1, <2>3 DEF Settled, Readings
<1>8. CASE Rotate
  <2>1. UNCHANGED <<call, pc, outcome, bodies, seen, clock>> /\ M' = M /\ P' = P
    BY <1>8 DEF Rotate, digesting, M, P
  <2>2. pc = "refused" => held' = held
    BY <1>8 DEF Rotate, Ended
  <2>3. ASSUME pc = "refused", NEW own, NEW asked, DecidedOn(outcome, own, asked)
        PROVE  DecidedOn(outcome, own, asked)'
    BY <2>1, <2>2, <2>3 DEF DecidedOn, Told, Differs
  <2>4. QED
    BY <2>1, <2>3 DEF Settled, Readings
<1>9. CASE UNCHANGED vars
  <2>1. UNCHANGED <<call, pc, outcome, bodies, seen, clock, held>> /\ M' = M /\ P' = P
    BY <1>9 DEF vars, digesting, M, P
  <2>2. ASSUME NEW own, NEW asked, DecidedOn(outcome, own, asked)
        PROVE  DecidedOn(outcome, own, asked)'
    BY <2>1, <2>2 DEF DecidedOn, Told, Differs
  <2>3. QED
    BY <2>1, <2>2 DEF Settled, Readings
<1>10. QED
  BY <1>1, <1>2, <1>3, <1>4, <1>5, <1>6, <1>7, <1>8, <1>9 DEF Next, Resumes

\* The invariant of the two theorems that follow.
LEMMA SettledInvariance == Spec => [](Inv /\ HeldInv /\ Settled)
<1>1. Init => Inv /\ HeldInv /\ Settled
  BY InitInv, InitHeld, InitSettled
<1>2. Inv /\ HeldInv /\ Settled /\ [Next]_vars => (Inv /\ HeldInv /\ Settled)'
  BY NextInv, NextHeld, NextSettled
<1>3. QED
  BY <1>1, <1>2, PTL DEF Spec

\* Where no digest names two contents, or nobody refills a buffer, the one content that
\* the digests of a buffer name is one the call has seen in it.
LEMMA AcceptedOnOne ==
  ASSUME Inv, Settled, pc = "accepted", ~call.shared \/ NotContradictory(M)
  PROVE  \E own \in Readings("own"), asked \in Readings("asked") : ~Differs(own, asked)
<1> DEFINE one(b, r) == b \in Covered(M) => CompareDigestRefusal(DigestFor(b, M), r) = None
<1>1. CallFixed /\ Past /\ Kept /\ \A q \in ToCompare(M) : q[2].of \in seen[q[1]]
  BY DEF Inv, Settled
<1>2. UnreadDigests(M) = None /\ LinesRefusal(ItemsOf(M), M, TRUE) = None /\ ReadRefusal(M, P) = None
  <2>1. BeforeTheKey(M, P) = None
    BY <1>1 DEF Past, AfterCall, AfterKey, AfterBase, AfterSignature
  <2>2. ReadRefusal(M, P) = None
    BY <2>1 DEF BeforeTheKey, HeaderRefusal, ArgumentRefusal, Mistake, ??, None
  <2>3. QED
    BY <1>1, <2>2 DEF Past, AfterBase, AfterSignature
<1>3. \A i \in ElementsOf(ItemsOf(M)) : ItemRefusal(i, M, TRUE) = None
  <2> DEFINE items == ItemsOf(M)
             f == [i \in DOMAIN items |-> ItemRefusal(items[i], M, TRUE)]
  <2>1. DOMAIN items \subseteq Nat
    BY <1>1, <1>2, ReadGives, CallTyped DEF M, P
  <2>2. DOMAIN f \subseteq Nat /\ FirstRefusal(f) = None
    BY <1>2, <2>1 DEF LinesRefusal
  <2> HIDE DEF f
  <2>3. \A i \in DOMAIN f : f[i] = None
    BY <2>2, FirstRefusalCases
  <2>4. QED
    BY <2>3 DEF f, ElementsOf
<1>4. ASSUME NEW b \in Buffers
      PROVE  \E r \in Readings(b) : one(b, r)
  <2>1. CASE b \notin Covered(M)
    BY <2>1 DEF Readings
  <2>2. CASE b \in Covered(M)
    <3> DEFINE D == DigestFor(b, M)
    <3>1. \E m \in {M} \cup M.request : D \in m.headers.digest
      <4>1. CASE b = "own"
        <5>1. M.headers.digest # {}
          BY <1>3, <2>2, <4>1, CoveredIsThere DEF Covered
        <5>2. QED
          BY <4>1, <5>1 DEF DigestFor, The
      <4>2. CASE b = "asked"
        <5>1. M.request # {} /\ The(M.request).headers.digest # {}
          BY <1>3, <2>2, <4>2, CoveredIsThere DEF Covered
        <5>2. The(M.request) \in M.request
          BY <5>1 DEF The
        <5>3. QED
          BY <4>2, <5>1, <5>2 DEF DigestFor, The
      <4>3. QED
        BY <4>1, <4>2 DEF Buffers
    <3>2. Recognized(D) # {}
      BY <1>2, <2>2 DEF UnreadDigests, ReadDigestRefusal, None
    <3> HIDE DEF D
    <3>3. \A d \in Recognized(D) : d.of \in seen[b]
      <4> SUFFICES ASSUME NEW d \in Recognized(D) PROVE d.of \in seen[b]
        OBVIOUS
      <4>1. <<b, d>> \in ToCompare(M)
        BY <2>2, Comparing DEF D
      <4>2. QED
        BY <1>1, <4>1
    <3>4. \A d, e \in Recognized(D) : d.of = e.of
      <4>1. CASE NotContradictory(M)
        BY <3>1, <4>1 DEF NotContradictory
      <4>2. CASE ~call.shared
        <5>1. seen[b] \subseteq Given(b) /\ AtMostOne(Given(b))
          BY <1>1, <4>2, GivenOne DEF Kept
        <5>2. QED
          BY <3>3, <5>1 DEF AtMostOne
      <4>3. QED
        BY <4>1, <4>2
    <3>5. PICK d \in Recognized(D) : TRUE
      BY <3>2
    <3>6. {d.of} \in Readings(b)
      BY <3>3, <3>5 DEF Readings
    <3>7. CompareDigestRefusal(D, {d.of}) = None
      BY <3>4, <3>5 DEF CompareDigestRefusal
    <3>8. QED
      BY <3>6, <3>7 DEF D
  <2>3. QED
    BY <2>1, <2>2
<1>5. PICK own \in Readings("own") : one("own", own)
  BY <1>4 DEF Buffers
<1>6. PICK asked \in Readings("asked") : one("asked", asked)
  BY <1>4 DEF Buffers
<1>7. ~Differs(own, asked)
  BY <1>5, <1>6 DEF Differs, Content, Covered
<1>8. QED
  BY <1>7

\* A call that is over was decided on contents it could have read.
LEMMA EndsDecided ==
  ASSUME Inv, HeldInv, Settled, pc \in Ended, ~call.shared \/ NotContradictory(M)
  PROVE  \E own \in Readings("own"), asked \in Readings("asked") :
           DecidedOn(IF outcome = "accepted" THEN None ELSE outcome, own, asked)
<1>1. CASE pc = "refused"
  BY <1>1 DEF Settled
<1>2. CASE pc = "accepted"
  <2>1. PICK own \in Readings("own"), asked \in Readings("asked") : ~Differs(own, asked)
    BY <1>2, AcceptedOnOne
  <2>2. UnreadDigests(M) = None
    BY <1>2 DEF Inv, Past, AfterSignature
  <2>3. Told(own, asked) = None
    BY <2>1, <2>2 DEF Told, ??
  <2>4. DecidedOn(None, own, asked)
    BY <1>2, <2>3, StagesDecide DEF AfterSignature
  <2>5. outcome = "accepted"
    BY <1>2 DEF Settled
  <2>6. QED
    BY <2>4, <2>5
<1>3. QED
  BY <1>1, <1>2 DEF Ended

\* What the call could have read in a buffer is what was handed over, but for the content.
LEMMA ReadingsKept ==
  ASSUME CallFixed, Kept, NEW b \in Buffers, NEW r \in Readings(b)
  PROVE  SameKind(Given(b), r) /\ AtMostOne(r) /\ (~call.shared => r = Given(b))
<1>1. CASE seen[b] # {}
  <2>1. PICK x \in seen[b] : r = {x}
    BY <1>1 DEF Readings
  <2>2. ~call.shared => Given(b) = {x}
    BY <2>1, GivenOne DEF Kept, AtMostOne
  <2>3. QED
    BY <2>1, <2>2 DEF Kept, AtMostOne
<1>2. CASE seen[b] = {}
  BY <1>2 DEF Readings, Kept
<1>3. QED
  BY <1>1, <1>2

\* Handed over with other contents, the message is a copy ...
LEMMA BodiesCopy ==
  ASSUME CallFixed, NEW own, NEW asked, SameKind(Given("own"), own), SameKind(Given("asked"), asked)
  PROVE  Copy(M, WithBodies(M, own, asked), own, asked)
<1> DEFINE n == WithBodies(M, own, asked)
           with(r) == [r EXCEPT !.body = asked]
<1>1. /\ AtMostOne(M.request)
      /\ \A m \in {M} \cup M.request : MessageFields \subseteq DOMAIN m
  BY CallTyped
<1>2. SameHead(M, n) /\ n.body = own /\ n.request = {with(r) : r \in M.request}
  BY <1>1 DEF WithBodies, SameHead, MessageFields
<1>3. \A r \in M.request : SameHead(r, with(r)) /\ with(r).body = asked /\ Given("asked") = r.body
  <2> SUFFICES ASSUME NEW r \in M.request
      PROVE  SameHead(r, with(r)) /\ with(r).body = asked /\ Given("asked") = r.body
    OBVIOUS
  <2>1. M.request = {r}
    BY <1>1 DEF AtMostOne
  <2>2. Given("asked") = r.body
    BY <2>1 DEF Given
  <2>3. QED
    BY <1>1, <2>2 DEF SameHead, MessageFields
<1>4. Given("own") = M.body
  BY DEF Given
<1> HIDE DEF n, with
<1>5. AtMostOne(n.request)
  BY <1>1, <1>2 DEF AtMostOne
<1>6. \A r \in M.request, s \in n.request : SameHead(r, s) /\ SameKind(r.body, s.body) /\ s.body = asked
  <2> SUFFICES ASSUME NEW r \in M.request, NEW s \in n.request
      PROVE  SameHead(r, s) /\ SameKind(r.body, s.body) /\ s.body = asked
    OBVIOUS
  <2>1. s = with(r)
    BY <1>1, <1>2 DEF AtMostOne
  <2>2. QED
    BY <1>3, <2>1
<1>7. \A s \in n.request : s.body = asked
  BY <1>2, <1>3
<1>8. n.request = {} <=> M.request = {}
  BY <1>2
<1>9. Alike(M, n)
  BY <1>1, <1>2, <1>4, <1>5, <1>6, <1>8 DEF Alike
<1>10. QED
  BY <1>2, <1>7, <1>9 DEF Copy, n

\* ... and with its own contents it is the message.
LEMMA SelfCopy ==
  ASSUME CallFixed
  PROVE  Copy(M, M, Given("own"), Given("asked"))
<1>1. AtMostOne(M.request)
  BY CallTyped
<1>2. \A r \in M.request : r.body = Given("asked")
  <2> SUFFICES ASSUME NEW r \in M.request PROVE r.body = Given("asked")
    OBVIOUS
  <2>1. M.request = {r}
    BY <1>1 DEF AtMostOne
  <2>2. QED
    BY <2>1 DEF Given
<1>3. \A r \in M.request, s \in M.request : SameHead(r, s) /\ SameKind(r.body, s.body)
  BY <1>1 DEF AtMostOne, SameHead, SameKind
<1>4. SameHead(M, M) /\ SameKind(M.body, M.body) /\ M.body = Given("own")
  BY DEF SameHead, SameKind, Given
<1>5. QED
  BY <1>1, <1>2, <1>3, <1>4 DEF Copy, Alike

\* Decided on some contents is decided as section 9 has it, of the message with them.
LEMMA DecidedCode ==
  ASSUME CallFixed, Undisputed(call), TypeOK, HeldTyped, NEW own, NEW asked, AtMostOne(own), AtMostOne(asked),
         NEW n, Copy(M, n, own, asked), NEW refusal, DecidedOn(refusal, own, asked)
  PROVE  \E h \in held : \E now \in h.at..clock :
           Code(n, P, h.answer, now) = IF refusal = None THEN "accepted" ELSE CodeOf(refusal)
<1>1. PICK h \in held : \E now \in h.at..clock :
        Mistake(BeforeDigests(M, P, h.answer, now)) ?? Told(own, asked) = refusal
  BY DEF DecidedOn
<1>2. PICK now \in h.at..clock : Mistake(BeforeDigests(M, P, h.answer, now)) ?? Told(own, asked) = refusal
  BY <1>1
<1>3. h.answer \in Answers /\ now \in Int
  BY <1>1, <1>2 DEF HeldTyped, TypeOK
<1> DEFINE before == BeforeDigests(M, P, h.answer, now)
           digests == DigestRefusal(n)
<1>4. Alike(M, n) /\ AtMostOne(n.body) /\ \A r \in n.request : AtMostOne(r.body)
  BY DEF Copy
<1>5. Told(own, asked) = Mistake(digests)
  <2>1. UnreadDigests(M) \in {None, "TypeError", "MalformedDigest"}
    BY DEF UnreadDigests
  <2>2. digests = IF UnreadDigests(M) = "TypeError" THEN "ValueError"
                  ELSE UnreadDigests(M) ?? IF Differs(own, asked) THEN "DigestMismatch" ELSE None
    BY CopyDigestRefusal DEF Differs
  <2> HIDE DEF digests
  <2>3. QED
    BY <2>1, <2>2 DEF Told, Mistake, ??, None
<1>6. TypedCall(call)
  BY CallTyped
<1>7. Code(n, P, h.answer, now) = IF before ?? digests = None THEN "accepted" ELSE CodeOf(before ?? digests)
  BY <1>3, <1>4, <1>6, AlikeCode DEF M, P
<1> HIDE DEF before, digests
<1>8. Mistake(before ?? digests) = refusal
  BY <1>2, <1>5 DEF Mistake, ??, None, before
<1>9. (before ?? digests = None <=> refusal = None) /\ CodeOf(before ?? digests) = CodeOf(refusal)
  <2>1. CodeOf("ValueError") = CodeOf("TypeError")
    BY DEF CodeOf
  <2>2. QED
    BY <1>8, <2>1 DEF Mistake, None
<1>10. QED
  BY <1>1, <1>2, <1>7, <1>9

\* Whatever the caller puts in its buffers during the call, the call decides what section 9
\* says of the message with contents they held after the signature was found good.
THEOREM ContentsAreHeld ==
  ASSUME \A c \in Calls : Undisputed(c)
  PROVE  Spec => []DecidesOnContentsHeld
<1>1. ASSUME Inv, HeldInv, Settled PROVE DecidesOnContentsHeld
  <2> SUFFICES ASSUME pc \in Ended, NotContradictory(M)
      PROVE  \E own \in Readings("own"), asked \in Readings("asked"), h \in held :
               \E now \in h.at..clock :
                 CodeOf(outcome) = Code(WithBodies(M, own, asked), P, h.answer, now)
    BY DEF DecidesOnContentsHeld
  <2> DEFINE refusal == IF outcome = "accepted" THEN None ELSE outcome
  <2>1. CallFixed /\ TypeOK /\ HeldTyped /\ Kept /\ Undisputed(call)
    BY <1>1 DEF Inv, CallFixed
  <2>2. PICK own \in Readings("own"), asked \in Readings("asked") : DecidedOn(refusal, own, asked)
    BY <1>1, EndsDecided
  <2>3. /\ SameKind(Given("own"), own) /\ AtMostOne(own)
        /\ SameKind(Given("asked"), asked) /\ AtMostOne(asked)
    BY <2>1, <2>2, ReadingsKept DEF Buffers
  <2>4. Copy(M, WithBodies(M, own, asked), own, asked)
    BY <2>1, <2>3, BodiesCopy
  <2>5. CodeOf(outcome) = IF refusal = None THEN "accepted" ELSE CodeOf(refusal)
    BY <2>1, NoCodeYet DEF TypeOK, None
  <2> HIDE DEF refusal
  <2>6. \E h \in held : \E now \in h.at..clock :
          Code(WithBodies(M, own, asked), P, h.answer, now)
            = IF refusal = None THEN "accepted" ELSE CodeOf(refusal)
    BY <2>1, <2>2, <2>3, <2>4, DecidedCode
  <2>7. QED
    BY <2>2, <2>5, <2>6
<1>2. QED
  BY <1>1, SettledInvariance, PTL

\* A call whose buffers are left alone ends with the code of its message.
DecidesTheMessage ==
    pc \in Ended /\ ~call.shared =>
      \E h \in held : \E now \in h.at..clock : CodeOf(outcome) = Code(M, P, h.answer, now)

LEMMA UnsharedCode ==
  ASSUME \A c \in Calls : Undisputed(c)
  PROVE  Inv /\ HeldInv /\ Settled => DecidesTheMessage
<1> SUFFICES ASSUME Inv, HeldInv, Settled, pc \in Ended, ~call.shared
    PROVE  \E h \in held : \E now \in h.at..clock : CodeOf(outcome) = Code(M, P, h.answer, now)
  BY DEF DecidesTheMessage
<1> DEFINE refusal == IF outcome = "accepted" THEN None ELSE outcome
<1>1. CallFixed /\ TypeOK /\ HeldTyped /\ Kept /\ Undisputed(call)
  BY DEF Inv, CallFixed
<1>2. PICK own \in Readings("own"), asked \in Readings("asked") : DecidedOn(refusal, own, asked)
  BY EndsDecided
<1>3. own = Given("own") /\ AtMostOne(own) /\ asked = Given("asked") /\ AtMostOne(asked)
  BY <1>1, <1>2, ReadingsKept DEF Buffers
<1>4. Copy(M, M, own, asked)
  BY <1>1, <1>3, SelfCopy
<1>5. CodeOf(outcome) = IF refusal = None THEN "accepted" ELSE CodeOf(refusal)
  BY <1>1, NoCodeYet DEF TypeOK, None
<1> HIDE DEF refusal
<1>6. \E h \in held : \E now \in h.at..clock :
        Code(M, P, h.answer, now) = IF refusal = None THEN "accepted" ELSE CodeOf(refusal)
  BY <1>1, <1>2, <1>3, <1>4, DecidedCode
<1>7. QED
  BY <1>5, <1>6

\* A step of the call, whose buffers are left alone, is section 9's one step or none of its.
LEMMA StepsDecide ==
  ASSUME Inv, [Next]_vars, Inv', DecidesTheMessage'
  PROVE  [S9!Next \/ call.shared]_<<call, outcome, clock, held>>
<1>1. CASE Tick
  <2>1. S9!Tick
    BY <1>1 DEF Tick, S9!Tick
  <2>2. QED
    BY <2>1 DEF S9!Next
<1>2. CASE Rotate
  <2>1. S9!Rotate
    BY <1>2 DEF Rotate, S9!Rotate
  <2>2. QED
    BY <2>1 DEF S9!Next
<1>3. CASE Refill
  BY <1>3 DEF Refill
<1>4. CASE UNCHANGED vars
  BY <1>4 DEF vars
<1>5. CASE Resumes
  <2>1. UNCHANGED <<call, clock, held>> /\ pc \notin Ended
    BY <1>5 DEF Resumes, Call, ResolverSettles, BuildBase, SignatureVerified, Hashed, Ended
  <2>2. CASE pc' \notin Ended
    <3>1. outcome = None /\ outcome' = None
      BY <2>1, <2>2 DEF Inv, TypeOK
    <3>2. QED
      BY <2>1, <3>1
  <2>3. CASE pc' \in Ended /\ ~call.shared
    <3>1. outcome = None
      BY <2>1 DEF Inv, TypeOK
    <3>2. \E h \in held' : \E now \in h.at..clock' : CodeOf(outcome') = Code(M', P', h.answer, now)
      BY <2>1, <2>3 DEF DecidesTheMessage
    <3>3. S9!Decide
      BY <2>1, <3>1, <3>2, NoCodeYet DEF S9!Decide, M, P
    <3>4. QED
      BY <3>3 DEF S9!Next
  <2>4. QED
    BY <2>2, <2>3
<1>6. QED
  BY <1>1, <1>2, <1>3, <1>4, <1>5 DEF Next

\* However long its awaits and whatever the resolver and the clock do in them, a call whose
\* buffers are left alone decides what section 9 says of its message, once, for a key state
\* and a clock of the call.
THEOREM JsImplementsSection9 ==
  ASSUME \A c \in Calls : Undisputed(c)
  PROVE  Spec => ImplementsSection9
<1>1. Init => S9!Begin
  BY NoCodeYet DEF Init, S9!Begin
<1>2. Inv /\ HeldInv /\ Settled => DecidesTheMessage
  BY UnsharedCode
<1>3. Inv /\ [Next]_vars /\ Inv' /\ DecidesTheMessage'
        => [S9!Next \/ call.shared]_<<call, outcome, clock, held>>
  BY StepsDecide
<1>4. QED
  BY <1>1, <1>2, <1>3, SettledInvariance, PTL DEF Spec, ImplementsSection9

===============================================================================
