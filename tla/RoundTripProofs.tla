---------------------------- MODULE RoundTripProofs ----------------------------
(***************************************************************************)
(* What RoundTrip promises, proved for any set of signing and verifying    *)
(* calls, any answers of a resolver and any bound on the clock.            *)
(*                                                                         *)
(* A message that is received is what the signer returned but for its      *)
(* framing, its URL's form and its Host, so the argument is about the two  *)
(* calls: what each of the signer's checks, having passed, leaves the      *)
(* verifier to object to, stage by stage.                                  *)
(***************************************************************************)
EXTENDS RoundTrip, SignerProofs

-------------------------------------------------------------------------------
(* The inductive invariant: where the message comes from.                  *)

Typed ==
    /\ exchange \in Exchanges
    /\ stage \in {"signing", "sent", "received", "verified", "refused"}
    /\ clock \in 0..MaxClock /\ signedAt \in 0..clock

Made ==
    /\ stage = "signing" => message = D.m
    /\ stage = "refused" => message = D.m /\ outcome = SignRefusal(D) /\ outcome # None
    /\ stage \in {"sent", "received", "verified"} => SignRefusal(D) = None
    /\ stage = "sent" => message = SignedMessage(D, signedAt)
    /\ stage \in {"received", "verified"} => message \in Arrivals(SignedMessage(D, signedAt))
    /\ stage \in {"signing", "sent", "received"} => outcome = None
    /\ stage = "verified" => outcome \in Refusals \cup {None}

Inv == Typed /\ Made

-------------------------------------------------------------------------------
(* What arrives.                                                           *)

\* The exchange's calls are of the types there are.
LEMMA ExchangeTyped ==
  ASSUME exchange \in Exchanges
  PROVE  TypedDraft(D) /\ TypedCall([msg |-> D.m, policy |-> P]) /\ WholeMessage(D.m)
<1>1. TypedDraft(D) /\ TypedCall([msg |-> D.m, policy |-> P])
  BY RoundTripAssumption DEF D, P
<1>2. QED
  BY <1>1 DEF TypedDraft, WholeMessage

\* HTTP may frame a body, turn an absolute URL into a target and a Host, and hand over an
\* empty body for none; it leaves the rest.
AsSent(m, s) ==
    /\ m.response = s.response /\ m.method = s.method /\ m.status = s.status /\ m.request = s.request
    /\ m.headers.digest = s.headers.digest /\ m.headers.field = s.headers.field
    /\ m.headers.twice = s.headers.twice
    /\ m.url.path = s.url.path /\ m.url.query = s.url.query
    /\ \/ m.url = s.url /\ m.headers.host = s.headers.host
       \/ /\ ~s.response /\ s.url.form = "absolute" /\ m.url.form = "origin"
          /\ m.headers.host = IF s.headers.host = {} THEN {s.url.authority} ELSE s.headers.host
    /\ \/ HasContent(s.body) /\ m.body = s.body /\ m.headers.length \in {s.headers.length, {"positive"}}
       \/ /\ ~HasContent(s.body) /\ m.body \in {s.body, {EmptyBody}}
          /\ m.headers.te = s.headers.te /\ m.headers.length = s.headers.length

\* A message whose body is framed is otherwise the same.
LEMMA FramedAsSent ==
  ASSUME NEW s, WholeMessage(s), NEW m \in Framed(s)
  PROVE  /\ AsSent(m, s)
         /\ m.url = s.url /\ m.headers.host = s.headers.host
         /\ m.headers.signature = s.headers.signature /\ m.headers.input = s.headers.input
<1>1. CASE HasContent(s.body)
  <2>1. CASE m = [s EXCEPT !.headers = [s.headers EXCEPT !.length = {"positive"}]]
    BY <1>1, <2>1 DEF AsSent, WholeMessage, IsRecord, MessageFields, HeaderFields
  <2>2. CASE m = [s EXCEPT !.headers = [s.headers EXCEPT !.te = TRUE]]
    BY <1>1, <2>2 DEF AsSent, WholeMessage, IsRecord, MessageFields, HeaderFields
  <2>3. QED
    BY <1>1, <2>1, <2>2 DEF Framed
<1>2. CASE ~HasContent(s.body)
  <2>1. CASE m = s
    BY <1>2, <2>1 DEF AsSent
  <2>2. CASE m = [s EXCEPT !.body = {EmptyBody}]
    BY <1>2, <2>2 DEF AsSent, WholeMessage, IsRecord, MessageFields
  <2>3. QED
    BY <1>2, <2>1, <2>2 DEF Framed
<1>3. QED
  BY <1>1, <1>2

\* So is one whose URL is in origin form.
LEMMA OriginFormAsSent ==
  ASSUME NEW s, WholeMessage(s)
  PROVE  LET o == OriginForm(s)
         IN  /\ WholeMessage(o)
             /\ o.response = s.response /\ o.method = s.method /\ o.status = s.status
             /\ o.request = s.request /\ o.body = s.body
             /\ o.headers.signature = s.headers.signature /\ o.headers.input = s.headers.input
             /\ o.headers.digest = s.headers.digest /\ o.headers.field = s.headers.field
             /\ o.headers.twice = s.headers.twice
             /\ o.headers.te = s.headers.te /\ o.headers.length = s.headers.length
             /\ o.url.path = s.url.path /\ o.url.query = s.url.query
             /\ \/ o.url = s.url /\ o.headers.host = s.headers.host
                \/ /\ ~s.response /\ s.url.form = "absolute" /\ o.url.form = "origin"
                   /\ o.headers.host = IF s.headers.host = {} THEN {s.url.authority} ELSE s.headers.host
<1>1. CASE s.response \/ s.url.form # "absolute"
  BY <1>1 DEF OriginForm
<1>2. CASE ~s.response /\ s.url.form = "absolute"
  <2> DEFINE u == [s.url EXCEPT !.form = "origin", !.authority = "none"]
             host == IF s.headers.host = {} THEN {s.url.authority} ELSE s.headers.host
             h == [s.headers EXCEPT !.host = host]
             o == [s EXCEPT !.url = u, !.headers = h]
  <2>1. o = OriginForm(s)
    BY <1>2 DEF OriginForm
  <2>2. /\ IsRecord(u, UrlFields)
        /\ u.form = "origin" /\ u.path = s.url.path /\ u.query = s.url.query
    BY DEF WholeMessage, IsRecord, UrlFields
  <2> HIDE DEF u, host
  <2>3. /\ IsRecord(h, HeaderFields) /\ h.host = host
        /\ h.signature = s.headers.signature /\ h.input = s.headers.input
        /\ h.digest = s.headers.digest /\ h.field = s.headers.field /\ h.twice = s.headers.twice
        /\ h.te = s.headers.te /\ h.length = s.headers.length
    BY DEF WholeMessage, IsRecord, HeaderFields
  <2> HIDE DEF h
  <2>4. /\ IsRecord(o, MessageFields) /\ o.url = u /\ o.headers = h
        /\ o.response = s.response /\ o.method = s.method /\ o.status = s.status
        /\ o.request = s.request /\ o.body = s.body
    BY DEF WholeMessage, IsRecord, MessageFields
  <2> HIDE DEF o
  <2>5. WholeMessage(o)
    BY <2>2, <2>3, <2>4 DEF WholeMessage
  <2>6. QED
    BY <1>2, <2>1, <2>2, <2>3, <2>4, <2>5 DEF host
<1>3. QED
  BY <1>1, <1>2

\* Either way the message arrives as it was sent.
LEMMA ArrivesAsSent ==
  ASSUME NEW s, WholeMessage(s), NEW m \in Arrivals(s)
  PROVE  /\ AsSent(m, s)
         /\ m.headers.signature = s.headers.signature /\ m.headers.input = s.headers.input
<1>1. CASE m \in Framed(s)
  BY <1>1, FramedAsSent
<1>2. CASE m \in Framed(OriginForm(s))
  <2>1. WholeMessage(OriginForm(s))
    BY OriginFormAsSent
  <2>2. /\ AsSent(m, OriginForm(s)) /\ m.url = OriginForm(s).url
        /\ m.headers.host = OriginForm(s).headers.host
        /\ m.headers.signature = OriginForm(s).headers.signature
        /\ m.headers.input = OriginForm(s).headers.input
    BY <1>2, <2>1, FramedAsSent
  <2>3. QED
    BY <2>2, OriginFormAsSent DEF AsSent
<1>3. QED
  BY <1>1, <1>2 DEF Arrivals

\* The message a signer sends is the one it was given, but for the digest fiki computed.
LEMMA SendingAdds ==
  ASSUME NEW d, TypedDraft(d)
  PROVE  /\ WholeMessage(Sending(d))
         /\ Sending(d).response = d.m.response /\ Sending(d).method = d.m.method
         /\ Sending(d).url = d.m.url /\ Sending(d).status = d.m.status
         /\ Sending(d).body = d.m.body /\ Sending(d).request = d.m.request
         /\ Sending(d).headers.host = d.m.headers.host /\ Sending(d).headers.field = d.m.headers.field
         /\ Sending(d).headers.length = d.m.headers.length /\ Sending(d).headers.te = d.m.headers.te
         /\ Sending(d).headers.twice = d.m.headers.twice
         /\ Sending(d).headers.digest =
              IF d.m.body # {} /\ d.m.headers.digest = {}
              THEN {DigestOf(The(d.m.body))} ELSE d.m.headers.digest
<1>1. WholeMessage(d.m)
  BY DEF TypedDraft, WholeMessage
<1>2. CASE d.m.body # {} /\ d.m.headers.digest = {}
  <2> DEFINE digest == {DigestOf(The(d.m.body))}
             h == [d.m.headers EXCEPT !.digest = digest]
             o == [d.m EXCEPT !.headers = h]
  <2>1. o = Sending(d)
    BY <1>2 DEF Sending
  <2> HIDE DEF digest
  <2>2. /\ IsRecord(h, HeaderFields) /\ h.digest = digest
        /\ h.host = d.m.headers.host /\ h.field = d.m.headers.field
        /\ h.length = d.m.headers.length /\ h.te = d.m.headers.te /\ h.twice = d.m.headers.twice
    BY <1>1 DEF WholeMessage, IsRecord, HeaderFields
  <2> HIDE DEF h
  <2>3. /\ IsRecord(o, MessageFields) /\ o.headers = h
        /\ o.response = d.m.response /\ o.method = d.m.method /\ o.url = d.m.url
        /\ o.status = d.m.status /\ o.request = d.m.request /\ o.body = d.m.body
    BY <1>1 DEF WholeMessage, IsRecord, MessageFields
  <2> HIDE DEF o
  <2>4. WholeMessage(o)
    BY <1>1, <2>2, <2>3 DEF WholeMessage
  <2>5. QED
    BY <1>2, <2>1, <2>2, <2>3, <2>4 DEF digest
<1>3. CASE ~(d.m.body # {} /\ d.m.headers.digest = {})
  BY <1>1, <1>3 DEF Sending
<1>4. QED
  BY <1>2, <1>3

\* What is received carries the signature that was made, and is otherwise as it was sent.
LEMMA ReceivedAsSigned ==
  ASSUME NEW d, TypedDraft(d), NEW at, NEW m \in Arrivals(SignedMessage(d, at))
  PROVE  /\ AsSent(m, Sending(d))
         /\ CarriesSignature(m, ItemsSigned(d), ParamsSigned(d, at),
              Sign(d.key, Base(ItemsSigned(d), Sending(d), ParamsSigned(d, at))))
<1> DEFINE items == ItemsSigned(d)
           params == ParamsSigned(d, at)
           value == Sign(d.key, Base(items, Sending(d), params))
           w == WithSignature(Sending(d), items, params, value)
<1>1. w = SignedMessage(d, at)
  BY DEF SignedMessage
<1> HIDE DEF items, params, value
<1>2. WholeMessage(Sending(d))
  BY SendingAdds
<1>3. WholeMessage(w) /\ CarriesSignature(w, items, params, value) /\ SameMessage(w, Sending(d))
  BY <1>2, SignatureAdded
<1> HIDE DEF w
<1>4. AsSent(m, w) /\ m.headers.signature = w.headers.signature /\ m.headers.input = w.headers.input
  BY <1>1, <1>3, ArrivesAsSent
<1>5. AsSent(m, Sending(d))
  BY <1>3, <1>4 DEF AsSent, SameMessage
<1>6. CarriesSignature(m, items, params, value)
  BY <1>3, <1>4 DEF CarriesSignature
<1>7. QED
  BY <1>5, <1>6 DEF items, params, value

-------------------------------------------------------------------------------
(* What the verifier reads of it.                                          *)

\* A component a signer had a value for has that value for a verifier, wherever it is
\* then read from (value_of), if the Host that is sent is the URL's.
LEMMA LineArrives ==
  ASSUME NEW s, NEW m, AsSent(m, s), ~s.response => s.headers.host \subseteq {Authority(s)},
         NEW item, ItemRefusal(item, s, FALSE) = None
  PROVE  ItemRefusal(item, m, TRUE) = None /\ ValueOf(item, m) = ValueOf(item, s)
<1>1. CASE "req" \in item.params
  <2>1. Subject(item, m) = Subject(item, s) /\ m.request = s.request /\ s.request # {}
    BY <1>1 DEF AsSent, Subject, ItemRefusal, None
  <2>2. SubjectRefusal(item.name, Subject(item, s), TRUE) = None
    BY <1>1, <2>1, EitherSideRefuses DEF ItemRefusal
  <2>3. QED
    BY <1>1, <2>1, <2>2 DEF ItemRefusal, ValueOf
<1>2. CASE "req" \notin item.params
  <2> DEFINE name == item.name
  <2>1. Subject(item, m) = m /\ Subject(item, s) = s
    BY <1>2 DEF Subject
  <2>2. SubjectRefusal(name, s, FALSE) = None /\ SubjectRefusal(name, s, TRUE) = None
    BY <1>2, <2>1, EitherSideRefuses DEF ItemRefusal
  <2>3. SUFFICES SubjectRefusal(name, m, TRUE) = None /\ ValueOf(item, m) = ValueOf(item, s)
    BY <1>2, <2>1 DEF ItemRefusal
  <2>4. Unreadable(TRUE) # None /\ Unreadable(FALSE) # None
    BY DEF Unreadable, None
  <2>5. CASE name = "@status"
    BY <2>1, <2>2, <2>5 DEF SubjectRefusal, ValueOf, AsSent
  <2>6. CASE name = "@method"
    BY <2>1, <2>2, <2>6 DEF SubjectRefusal, ValueOf, AsSent
  <2>7. CASE name = "@path"
    BY <2>1, <2>2, <2>4, <2>7 DEF SubjectRefusal, ValueOf, AsSent
  <2>8. CASE name = "@query"
    BY <2>1, <2>2, <2>4, <2>8 DEF SubjectRefusal, ValueOf, AsSent
  <2>9. CASE name = "@authority"
    <3>1. AuthorityRefusal(s, TRUE) = None
      BY <2>2, <2>9 DEF SubjectRefusal
    <3>2. CASE m.url = s.url /\ m.headers.host = s.headers.host
      <4>1. AuthorityRefusal(m, TRUE) = AuthorityRefusal(s, TRUE) /\ Authority(m) = Authority(s)
        BY <3>2 DEF AuthorityRefusal, Authority
      <4>2. QED
        BY <2>1, <2>9, <3>1, <4>1 DEF SubjectRefusal, ValueOf
    <3>3. CASE ~(m.url = s.url /\ m.headers.host = s.headers.host)
      <4>1. /\ ~s.response /\ s.url.form = "absolute" /\ m.url.form = "origin"
            /\ m.headers.host = IF s.headers.host = {} THEN {s.url.authority} ELSE s.headers.host
        BY <3>3 DEF AsSent
      <4>2. Authority(s) = s.url.authority /\ s.url.authority \notin {Bad, NotAHost}
        BY <2>4, <3>1, <4>1 DEF Authority, AuthorityRefusal
      <4>3. m.headers.host = {s.url.authority}
        BY <4>1, <4>2
      <4>4. The(m.headers.host) = s.url.authority
        BY <4>3 DEF The
      <4>5. AuthorityRefusal(m, TRUE) = None
        BY <4>1, <4>2, <4>3 DEF AuthorityRefusal
      <4>6. Authority(m) = s.url.authority
        BY <4>1, <4>4 DEF Authority
      <4>7. QED
        BY <2>1, <2>9, <4>2, <4>5, <4>6 DEF SubjectRefusal, ValueOf
    <3>4. QED
      BY <3>2, <3>3
  <2>10. CASE name \notin {"@status", "@method", "@authority", "@path", "@query"}
    <3>1. FieldRefusal(name, s.headers) = None
      BY <2>2, <2>10 DEF SubjectRefusal
    <3>2. FieldOf(name, m.headers) = FieldOf(name, s.headers) /\ m.headers.digest = s.headers.digest
      <4>1. CASE name = "host"
        <5>1. s.headers.host # {}
          BY <3>1, <4>1 DEF FieldRefusal, FieldOf, ContentDigest, None
        <5>2. QED
          BY <5>1 DEF AsSent, FieldOf
      <4>2. CASE name # "host"
        BY <4>2 DEF AsSent, FieldOf
      <4>3. QED
        BY <4>1, <4>2
    <3>3. FieldRefusal(name, m.headers) = None
      BY <3>1, <3>2 DEF FieldRefusal
    <3>4. QED
      BY <2>1, <2>10, <3>2, <3>3 DEF SubjectRefusal, ValueOf
  <2>11. QED
    BY <2>5, <2>6, <2>7, <2>8, <2>9, <2>10
<1>3. QED
  BY <1>1, <1>2

-------------------------------------------------------------------------------
(* The verifier, stage by stage, over what a signer returned.              *)

\* What is received, in the terms of the draft.
LEMMA ReceivedParts ==
  ASSUME TypedDraft(D), NEW m \in Arrivals(SignedMessage(D, signedAt))
  PROVE  /\ AsSent(m, Sending(D))
         /\ CarriesSignature(m, ItemsSigned(D), ParamsSigned(D, signedAt),
              Sign(D.key, Base(ItemsSigned(D), Sending(D), ParamsSigned(D, signedAt))))
         /\ m.response = D.m.response /\ m.method = D.m.method /\ m.request = D.m.request
         /\ m.headers.twice = D.m.headers.twice
         /\ m.body = D.m.body \/ (~HasContent(D.m.body) /\ m.body = {EmptyBody})
         /\ ~HasContent(D.m.body) =>
              m.headers.te = D.m.headers.te /\ m.headers.length = D.m.headers.length
<1>1. AsSent(m, Sending(D))
  BY ReceivedAsSigned
<1>2. CarriesSignature(m, ItemsSigned(D), ParamsSigned(D, signedAt),
        Sign(D.key, Base(ItemsSigned(D), Sending(D), ParamsSigned(D, signedAt))))
  BY ReceivedAsSigned
<1>3. /\ Sending(D).response = D.m.response /\ Sending(D).method = D.m.method
      /\ Sending(D).request = D.m.request /\ Sending(D).body = D.m.body
      /\ Sending(D).headers.twice = D.m.headers.twice /\ Sending(D).headers.te = D.m.headers.te
      /\ Sending(D).headers.length = D.m.headers.length
  BY SendingAdds
<1>4. /\ m.response = D.m.response /\ m.method = D.m.method /\ m.request = D.m.request
      /\ m.headers.twice = D.m.headers.twice
  BY <1>1, <1>3 DEF AsSent
<1>5. /\ m.body = D.m.body \/ (~HasContent(D.m.body) /\ m.body = {EmptyBody})
      /\ ~HasContent(D.m.body) =>
           m.headers.te = D.m.headers.te /\ m.headers.length = D.m.headers.length
  BY <1>1, <1>3 DEF AsSent
<1>6. QED
  BY <1>1, <1>2, <1>4, <1>5

\* The call has no mistake: what verify_request and verify_response call one, the signer
\* has called one already.
LEMMA CallAccepts ==
  ASSUME TypedDraft(D), SignRefusal(D) = None, PolicyInOrder,
         NEW m \in Arrivals(SignedMessage(D, signedAt))
  PROVE  CallRefusal(m, P) = None
<1>1. /\ m.response = D.m.response /\ m.method = D.m.method /\ m.request = D.m.request
      /\ m.headers.twice = D.m.headers.twice
  BY ReceivedParts
<1>2. ~Unsigned401(m)
  <2>1. CarriesSignature(m, ItemsSigned(D), ParamsSigned(D, signedAt),
          Sign(D.key, Base(ItemsSigned(D), Sending(D), ParamsSigned(D, signedAt))))
    BY ReceivedParts
  <2>2. QED
    BY <2>1 DEF CarriesSignature, Unsigned401
<1>3. /\ ~NotCanonical(m.headers)
      /\ \A r \in m.request : ~NotCanonical(r.headers) /\ ~AnnouncesLostBody(r)
  BY <1>1, PassedByAll DEF SignCallRefusal, ??, NotCanonical, None
<1>4. (~m.response => IsToken(m.method)) /\ \A r \in m.request : IsToken(r.method)
  BY <1>1, PassedByAll DEF BaseRefusal, None
<1>5. CASE m.response
  <2>1. FlooredRefusal(P.minimum, ResponseMinimum) = None
    BY <1>1, <1>5 DEF PolicyInOrder
  <2>2. ~BadWindow(P) /\ ~BadExpectedKeyid(P) /\ ~TwoKeySources(P)
    BY DEF PolicyInOrder
  <2>3. ResponseCallRefusal(m, P) = None
    BY <1>2, <1>3, <1>4, <2>1, <2>2 DEF ResponseCallRefusal, ??
  <2>4. QED
    BY <1>5, <2>3 DEF CallRefusal
<1>6. CASE ~m.response
  <2>1. FlooredRefusal(P.minimum, RequestMinimum) = None
    BY <1>1, <1>6 DEF PolicyInOrder
  <2>2. ~BadWindow(P) /\ ~BadExpectedKeyid(P) /\ ~BadAuthorities(P) /\ ~TwoKeySources(P)
    BY DEF PolicyInOrder
  <2>3. RequestCallRefusal(m, P) = None
    BY <1>3, <1>4, <1>6, <2>1, <2>2 DEF RequestCallRefusal, ??
  <2>4. QED
    BY <1>6, <2>3 DEF CallRefusal
<1>7. QED
  BY <1>5, <1>6

\* The two fields read, and hold what was signed.
LEMMA ReadAccepts ==
  ASSUME TypedDraft(D), NEW m \in Arrivals(SignedMessage(D, signedAt))
  PROVE  /\ ReadRefusal(m, P) = None
         /\ ItemsOf(m) = ItemsSigned(D) /\ ParamsOf(m) = ParamsSigned(D, signedAt)
         /\ Signature(m) = Sign(D.key, Base(ItemsSigned(D), Sending(D), ParamsSigned(D, signedAt)))
<1> DEFINE items == ItemsSigned(D)
           params == ParamsSigned(D, signedAt)
           value == Sign(D.key, Base(items, Sending(D), params))
<1>1. CarriesSignature(m, items, params, value)
  BY ReceivedAsSigned
<1>2. \A i \in DOMAIN items : ~BadlyNamed(items[i])
  BY NamedWell
<1>3. params.keyid # {} /\ params.created # {} /\ ~params.bad
  BY DEF ParamsSigned
<1> HIDE DEF items, params, value
<1>4. QED
  BY <1>1, <1>2, <1>3, SignatureIsRead, SignatureReads DEF items, params, value

\* What has to be covered is.
LEMMA CoverageAccepts ==
  ASSUME TypedDraft(D), SignRefusal(D) = None, PolicyInOrder, MinimumAgreed, BodiesHandedOver,
         AuthorityAgreed, NEW m \in Arrivals(SignedMessage(D, signedAt))
  PROVE  CoverageRefusal(m, P) = None
<1> DEFINE items == ItemsSigned(D)
<1>1. ItemsOf(m) = items
  BY ReadAccepts
<1>2. m.response = D.m.response /\ m.request = D.m.request
  BY ReceivedParts
<1>3. CheckCovered(items, m.response) = None
  <2>1. BaseRefusal(D) = None
    BY PassedByAll
  <2>2. "ValueError" # None
    BY DEF None
  <2>3. CheckCovered(ItemsSigned(D), D.m.response) = None
    BY <2>1, <2>2 DEF BaseRefusal, ??
  <2>4. QED
    BY <1>2, <2>3
<1>4. ASSUME HasBody(m)
      PROVE  Item(ContentDigest) \in ElementsOf(items)
  <2>1. CASE D.m.body # {}
    BY <2>1, CoversWhatItSends DEF CoversBody
  <2>2. CASE D.m.body = {}
    <3>1. /\ ~HasContent(m.body)
          /\ m.headers.te = D.m.headers.te /\ m.headers.length = D.m.headers.length
      BY <2>2, ReceivedParts DEF HasContent
    <3>2. ~m.response /\ RequestHasBody(m.headers, m.body)
      BY <1>4, <3>1 DEF HasBody
    <3>3. RequestHasBody(D.m.headers, {})
      BY <3>1, <3>2 DEF RequestHasBody
    <3>4. QED
      BY <1>2, <2>2, <3>2, <3>3 DEF BodiesHandedOver
  <2>3. QED
    BY <2>1, <2>2
<1>5. ASSUME NEW minimum \in P.minimum
      PROVE  CoversMinimum(items, minimum, HasBody(m), RequestHadBody(m))
  <2>1. RequestHadBody(m) = RequestHadBody(D.m)
    BY <1>2 DEF RequestHadBody
  <2>2. SUFFICES /\ \A spec \in minimum : Component(spec) \in ElementsOf(items)
                 /\ RequestHadBody(D.m) => Req(ContentDigest) \in ElementsOf(items)
    BY <1>4, <2>1 DEF CoversMinimum, Required
  <2>3. CASE /\ D.covered = {} /\ (D.m.response => D.m.request # {})
             /\ minimum \subseteq IF D.m.response THEN ResponseMinimum ELSE DefaultMinimum
    <3>1. ASSUME NEW spec \in minimum
          PROVE  Component(spec) = spec
      <4>1. spec \in ResponseMinimum \cup DefaultMinimum
        BY <2>3
      <4>2. spec.name # "X-Field" /\ \E name, params : spec = [name |-> name, params |-> params]
        BY <4>1 DEF ResponseMinimum, DefaultMinimum, Item, Req, AsciiLower
      <4>3. QED
        BY <4>2 DEF Component, AsciiLower
    <3>2. QED
      BY <2>3, <3>1, CoversWhatItSends DEF BindsRequestDigest
  <2>4. CASE \E own \in D.minimum : minimum \subseteq own
    <3>1. PICK own \in D.minimum : minimum \subseteq own
      BY <2>4
    <3>2. CoversMinimum(items, own, HasBody(Sending(D)), RequestHadBody(D.m))
      BY PassedByAll DEF SignMinimumRefusal, None
    <3>3. QED
      BY <3>1, <3>2 DEF CoversMinimum, Required
  <2>5. QED
    BY <2>3, <2>4 DEF MinimumAgreed
<1>6. P.authorities # {} => CoversMinimum(items, {Item("@authority")}, FALSE, FALSE)
  <2>1. Component(Item("@authority")) = Item("@authority")
    BY DEF Component, Item, AsciiLower
  <2>2. ASSUME P.authorities # {} PROVE Item("@authority") \in ElementsOf(items)
    <3>1. CASE D.covered = {}
      <4>1. Named(D) = DefaultCovered
        BY <2>2, <3>1 DEF PolicyInOrder, Named, DefaultItems
      <4>2. Item("@authority") \in ElementsOf(Named(D))
        <5>1. 2 \in DOMAIN DefaultCovered /\ DefaultCovered[2] = Item("@authority")
          BY DEF DefaultCovered
        <5>2. QED
          BY <4>1, <5>1 DEF ElementsOf
      <4>3. QED
        BY <4>2, ListSigned
    <3>2. CASE D.covered # {}
      BY <2>2, <3>2, ListSigned DEF AuthorityAgreed
    <3>3. QED
      BY <3>1, <3>2
  <2>3. QED
    BY <2>1, <2>2 DEF CoversMinimum, Required
<1> HIDE DEF items
<1>7. QED
  BY <1>1, <1>3, <1>5, <1>6 DEF CoverageRefusal, ??

\* The key is the signer's, whichever of the three says so.
LEMMA KeyAccepts ==
  ASSUME exchange \in Exchanges, PolicyInOrder, KeyAgreed,
         NEW m \in Arrivals(SignedMessage(D, signedAt))
  PROVE  KeyStageRefusal(m, P, Answer) = None /\ KeyFor(ParamsOf(m).keyid, P, Answer) = D.key
<1> DEFINE keyid == ParamsSigned(D, signedAt).keyid
<1>1. TypedDraft(D) /\ OneOf(P.expectedAid, Keyids) /\ OneOf(P.expectedKeyid, Keyids)
  BY ExchangeTyped DEF TypedCall
<1>2. ParamsOf(m) = ParamsSigned(D, signedAt)
  BY <1>1, ReadAccepts
<1>3. keyid = {The(keyid)} /\ ParamsSigned(D, clock).keyid = keyid
  BY DEF ParamsSigned, The
<1>4. D.key \in SoundKeys /\ D.key \in Keys /\ KeyRefusal(D.key) = None
  BY <1>1, KeysAssumption DEF TypedDraft, KeyRefusal
<1>5. AlgorithmRefusal(ParamsOf(m)) = None
  BY <1>2 DEF AlgorithmRefusal, ParamsSigned
<1>6. P.expectedKeyid \subseteq keyid
  BY DEF KeyAgreed
<1>7. UnexpectedKeyidRefusal(keyid, P) = None
  <2>1. P.expectedKeyid # {} => P.expectedKeyid = keyid
    BY <1>3, <1>6
  <2>2. QED
    BY <2>1 DEF UnexpectedKeyidRefusal
<1> HIDE DEF keyid
<1>8. CASE P.expectedAid # {}
  <2>1. P.expectedAid = {Aid(D.key)} /\ ~P.resolving
    BY <1>8 DEF KeyAgreed, PolicyInOrder, TwoKeySources
  <2>2. The(P.expectedAid) = Aid(D.key)
    BY <2>1 DEF The
  <2>3. WellFormedAid(Aid(D.key)) /\ Aid(D.key).id = D.key
    BY DEF WellFormedAid, Aid
  <2>4. LocalKeyRefusal(keyid, P) = None
    BY <1>4, <1>8, <2>2, <2>3 DEF LocalKeyRefusal
  <2>5. KeyFor(keyid, P, Answer) = D.key
    BY <1>8, <2>2, <2>3 DEF KeyFor
  <2>6. QED
    BY <1>2, <1>5, <1>7, <2>1, <2>4, <2>5 DEF KeyStageRefusal, ??, keyid
<1>9. CASE P.expectedAid = {} /\ P.resolving
  <2>1. Answer = {D.key}
    BY <1>9 DEF KeyAgreed
  <2>2. The(keyid).form = "aid"
    BY <1>3, <2>1 DEF Answer
  <2>3. The(Answer) = D.key /\ Answer # {"UnsupportedSigner"}
    BY <1>4, <2>1, RoundTripAssumption DEF The
  <2>4. ResolvedRefusal(Answer) = None
    BY <1>4, <2>1, <2>3 DEF ResolvedRefusal
  <2>5. keyid \notin {{}, {EmptyKeyid}}
    BY <1>3, <2>2 DEF EmptyKeyid
  <2>6. LocalKeyRefusal(keyid, P) = None
    BY <1>9, <2>2, <2>5 DEF LocalKeyRefusal, WellFormedAid
  <2>7. KeyFor(keyid, P, Answer) = D.key
    BY <1>9, <2>3 DEF KeyFor
  <2>8. QED
    BY <1>2, <1>5, <1>7, <1>9, <2>4, <2>6, <2>7 DEF KeyStageRefusal, ??, keyid
<1>10. CASE P.expectedAid = {} /\ ~P.resolving
  <2>1. keyid = {RawKeyid(D.key)} /\ The(keyid) = RawKeyid(D.key)
    BY <1>10 DEF KeyAgreed, keyid, The
  <2>2. The(keyid).form = "raw" /\ The(keyid).id = D.key /\ keyid \notin {{}, {EmptyKeyid}}
    BY <2>1 DEF RawKeyid, EmptyKeyid
  <2>3. LocalKeyRefusal(keyid, P) = None
    BY <1>4, <1>10, <2>2 DEF LocalKeyRefusal
  <2>4. KeyFor(keyid, P, Answer) = D.key
    BY <1>10, <2>2 DEF KeyFor
  <2>5. QED
    BY <1>2, <1>5, <1>7, <1>10, <2>3, <2>4 DEF KeyStageRefusal, ??, keyid
<1>11. QED
  BY <1>8, <1>9, <1>10

\* The base is rebuilt as it was signed, from wherever its lines are read now.
LEMMA SignatureAccepts ==
  ASSUME TypedDraft(D), SignRefusal(D) = None, AuthorityAgreed,
         NEW m \in Arrivals(SignedMessage(D, signedAt))
  PROVE  /\ SignatureRefusal(m, D.key) = None
         /\ \A i \in DOMAIN ItemsOf(m) : ValueOf(ItemsOf(m)[i], m) = ValueOf(ItemsOf(m)[i], Sending(D))
<1> DEFINE items == ItemsSigned(D)
           params == ParamsSigned(D, signedAt)
           s == Sending(D)
<1>1. /\ ItemsOf(m) = items /\ ParamsOf(m) = params
      /\ Signature(m) = Sign(D.key, Base(items, s, params))
  BY ReadAccepts
<1>2. DOMAIN items \subseteq Nat
  BY ListSigned
<1>3. \A i \in DOMAIN items : ItemRefusal(items[i], s, FALSE) = None
  <2>1. BaseRefusal(D) = None
    BY PassedByAll
  <2>2. "ValueError" # None
    BY DEF None
  <2>3. LinesRefusal(items, s, FALSE) = None
    BY <2>1, <2>2 DEF BaseRefusal, ??
  <2>4. QED
    BY <1>2, <2>3, LinesAllThere
<1>4. AsSent(m, s)
  BY ReceivedParts
<1>5. ~s.response => s.headers.host \subseteq {Authority(s)}
  <2>1. /\ s.response = D.m.response /\ s.url = D.m.url /\ s.headers.host = D.m.headers.host
    BY SendingAdds
  <2>2. Authority(s) = Authority(D.m)
    BY <2>1 DEF Authority
  <2>3. QED
    BY <2>1, <2>2 DEF AuthorityAgreed
<1> HIDE DEF items, params, s
<1>6. \A i \in DOMAIN items :
        ItemRefusal(items[i], m, TRUE) = None /\ ValueOf(items[i], m) = ValueOf(items[i], s)
  BY <1>3, <1>4, <1>5, LineArrives
<1>7. LinesRefusal(items, m, TRUE) = None
  BY <1>2, <1>6, LinesAllThere
<1>8. Base(items, m, params) = Base(items, s, params)
  <2>1. LinesFor(items, m) = LinesFor(items, s)
    BY <1>6 DEF LinesFor
  <2>2. QED
    BY <2>1 DEF Base
<1>9. SignatureRefusal(m, D.key) = None
  BY <1>1, <1>7, <1>8 DEF SignatureRefusal, SignatureVerifies, ??
<1>10. QED
  BY <1>1, <1>6, <1>9 DEF s

\* The authority that was signed is one the verifier serves.
LEMMA ServedAccepts ==
  ASSUME TypedDraft(D), SignRefusal(D) = None, PolicyInOrder, AuthorityAgreed,
         NEW m \in Arrivals(SignedMessage(D, signedAt))
  PROVE  AuthorityServedRefusal(m, P) = None
<1>1. ItemsOf(m) = ItemsSigned(D)
  BY ReadAccepts
<1>2. CheckCovered(ItemsSigned(D), D.m.response) = None
  <2>1. BaseRefusal(D) = None
    BY PassedByAll
  <2>2. "ValueError" # None
    BY DEF None
  <2>3. QED
    BY <2>1, <2>2 DEF BaseRefusal, ??
<1>3. ASSUME NEW served \in P.authorities, NEW i \in DOMAIN ItemsOf(m), ItemsOf(m)[i].name = "@authority"
      PROVE  ValueOf(ItemsOf(m)[i], m) \in served
  <2> DEFINE item == ItemsOf(m)[i]
  <2>1. ~D.m.response
    BY DEF PolicyInOrder
  <2>2. "req" \notin item.params
    BY <1>1, <1>2, <2>1 DEF CheckCovered, Supported, None
  <2>3. ValueOf(item, m) = ValueOf(item, Sending(D))
    BY SignatureAccepts
  <2>4. ValueOf(item, Sending(D)) = Authority(Sending(D))
    BY <1>3, <2>2 DEF ValueOf, Subject
  <2>5. Sending(D).url = D.m.url /\ Sending(D).headers.host = D.m.headers.host
    BY SendingAdds
  <2>6. Authority(Sending(D)) = Authority(D.m)
    BY <2>5 DEF Authority
  <2>7. Authority(D.m) \in served
    BY DEF AuthorityAgreed
  <2>8. QED
    BY <2>3, <2>4, <2>6, <2>7
<1>4. QED
  BY <1>3 DEF AuthorityServedRefusal

\* The time is inside the window.
LEMMA FreshAccepts ==
  ASSUME exchange \in Exchanges, Typed, InsideTheWindow,
         NEW m \in Arrivals(SignedMessage(D, signedAt))
  PROVE  FreshnessRefusal(ParamsOf(m), P, clock) = None
<1> DEFINE params == ParamsSigned(D, signedAt)
           created == The(params.created)
<1>1. TypedDraft(D) /\ OneOf(P.maxAge, Int) /\ P.skew \in Int
  BY ExchangeTyped DEF TypedCall
<1>2. ParamsOf(m) = params /\ params.expires = D.expires
  BY <1>1, ReadAccepts DEF ParamsSigned
<1>3. clock \in Int /\ signedAt \in Int
  BY RoundTripAssumption DEF Typed
<1>4. params.created = {created} /\ created \in Int
  <2>1. D.created # {} => The(D.created) \in Int
    BY <1>1, TheOne DEF TypedDraft, OneOf
  <2>2. params.created = {IF D.created = {} THEN signedAt ELSE The(D.created)}
    BY DEF ParamsSigned
  <2>3. created = IF D.created = {} THEN signedAt ELSE The(D.created)
    BY <2>2 DEF The
  <2>4. QED
    BY <1>3, <2>1, <2>2, <2>3
<1>5. /\ \A age \in P.maxAge : clock \in (created - P.skew)..(created + age + P.skew)
      /\ \A e \in D.expires : clock <= e + P.skew
  BY DEF InsideTheWindow
<1> HIDE DEF created, params
<1>6. ~TooOld(params, P, clock)
  <2>1. ASSUME NEW age \in P.maxAge, NEW c \in params.created
        PROVE  ~(clock - c > age + P.skew) /\ ~(c - clock > P.skew)
    <3>1. c = created /\ age \in Int
      BY <1>1, <1>4 DEF OneOf
    <3>2. created - P.skew <= clock /\ clock <= created + age + P.skew
      BY <1>1, <1>3, <1>4, <1>5, <3>1
    <3>3. QED
      BY <1>1, <1>3, <1>4, <3>1, <3>2
  <2>2. params.created # {}
    BY <1>4
  <2>3. QED
    BY <2>1, <2>2 DEF TooOld
<1>7. \A e \in params.expires : ~(clock > e + P.skew)
  <2>1. \A e \in D.expires : e \in Int
    BY <1>1 DEF TypedDraft, OneOf
  <2>2. QED
    BY <1>1, <1>2, <1>3, <1>5, <2>1
<1>8. QED
  BY <1>2, <1>6, <1>7 DEF FreshnessRefusal

\* Each digest that is covered is of the body it comes with: given by the caller it was
\* compared before it was signed, and computed by fiki it is that body's.
LEMMA DigestAccepts ==
  ASSUME TypedDraft(D), SignRefusal(D) = None, BodiesHandedOver,
         NEW m \in Arrivals(SignedMessage(D, signedAt))
  PROVE  DigestRefusal(m) = None
<1> DEFINE items == ItemsSigned(D)
           Right(digest, body) == ReadDigestRefusal(digest) = None /\ CompareDigestRefusal(digest, body) = None
<1>1. ItemsOf(m) = items
  BY ReadAccepts
<1>2. m.request = D.m.request /\ m.headers.digest = Sending(D).headers.digest
  BY ReceivedParts DEF AsSent
<1>3. m.body = D.m.body \/ (~HasContent(D.m.body) /\ m.body = {EmptyBody})
  BY ReceivedParts
<1>4. ASSUME CoversBody(items)
      PROVE  Right(The(m.headers.digest), m.body)
  <2>1. D.m.body # {} /\ AtMostOne(D.m.body) /\ AtMostOne(D.m.headers.digest)
    BY <1>4 DEF BodiesHandedOver, TypedDraft
  <2>2. m.body = D.m.body
    BY <1>3, <2>1 DEF HasContent, AtMostOne
  <2>3. CASE D.m.headers.digest # {}
    <3>1. The(D.m.headers.digest) \in D.m.headers.digest
      BY <2>3 DEF The
    <3>2. m.headers.digest = D.m.headers.digest
      BY <1>2, <2>3, SendingAdds
    <3>3. CoverBodyRefusal(D) = None /\ "ValueError" # None
      BY PassedByAll DEF None
    <3>4. Right(The(D.m.headers.digest), D.m.body)
      BY <2>1, <3>1, <3>3 DEF CoverBodyRefusal
    <3>5. QED
      BY <2>2, <3>2, <3>4
  <2>4. CASE D.m.headers.digest = {}
    <3> DEFINE b == The(D.m.body)
               one == [alg |-> "sha-256", bytes |-> TRUE, of |-> b]
    <3>1. D.m.body = {b}
      BY <2>1, TheOne
    <3>2. m.headers.digest = {DigestOf(b)}
      BY <1>2, <2>1, <2>4, SendingAdds
    <3> HIDE DEF b
    <3>3. The(m.headers.digest) = DigestOf(b)
      BY <3>2 DEF The
    <3>4. Recognized(DigestOf(b)) = {one}
      BY DEF Recognized, DigestOf, DigestAlgorithms
    <3>5. DigestOf(b).raw # Bad /\ DigestOf(b).shape = "dict"
      BY DEF DigestOf, Bad
    <3>6. ReadDigestRefusal(DigestOf(b)) = None
      <4>1. Recognized(DigestOf(b)) # {} /\ \A d \in Recognized(DigestOf(b)) : d.bytes
        BY <3>4
      <4>2. QED
        BY <3>5, <4>1 DEF ReadDigestRefusal
    <3>7. CompareDigestRefusal(DigestOf(b), {b}) = None
      BY <3>4 DEF CompareDigestRefusal
    <3>8. QED
      BY <2>2, <3>1, <3>3, <3>6, <3>7
  <2>5. QED
    BY <2>3, <2>4
<1>5. ASSUME BindsRequestDigest(items), NEW r \in m.request
      PROVE  r.body # {} /\ Right(The(r.headers.digest), r.body)
  <2>1. r \in D.m.request /\ r = The(D.m.request) /\ r.body # {}
    BY <1>2, <1>5, TheOne DEF TypedDraft, BodiesHandedOver
  <2>2. RequestDigestRefusal(D) = None /\ "AttributeError" # None
    BY PassedByAll DEF None
  <2>3. /\ ReadDigestRefusal(The(The(D.m.request).headers.digest)) = None
        /\ CompareDigestRefusal(The(The(D.m.request).headers.digest), The(D.m.request).body) = None
    BY <1>5, <2>1, <2>2 DEF RequestDigestRefusal, ??
  <2>4. QED
    BY <2>1, <2>3
<1> HIDE DEF items
<1>6. \A pair \in DigestsCovered(m) : Right(pair[1], pair[2])
  <2>1. ASSUME NEW pair \in DigestsCovered(m)
        PROVE  \/ CoversBody(items) /\ pair = <<The(m.headers.digest), m.body>>
               \/ BindsRequestDigest(items) /\ \E r \in m.request : pair = <<The(r.headers.digest), r.body>>
    BY <1>1 DEF DigestsCovered
  <2> HIDE DEF Right
  <2>2. QED
    BY <1>4, <1>5, <2>1
<1>7. ~(BindsRequestDigest(items) /\ \E r \in m.request : r.body = {})
  BY <1>5
<1>8. QED
  BY <1>1, <1>6, <1>7 DEF DigestRefusal

-------------------------------------------------------------------------------
(* Types.                                                                  *)

\* The components of a signed list have the parameters that their specs had.
LEMMA ParametersSigned ==
  ASSUME NEW d, TypedDraft(d)
  PROVE  \A i \in DOMAIN ItemsSigned(d) : ItemsSigned(d)[i].params \subseteq {"req", "other"}
<1>1. ASSUME NEW item \in ElementsOf(DefaultItems(d.m)) \cup {Item(ContentDigest), Req(ContentDigest)}
      PROVE  item.params \subseteq {"req", "other"}
  BY DEF DefaultItems, DefaultCovered, ElementsOf, Item, Req
<1>2. ASSUME NEW item \in ElementsOf(Named(d))
      PROVE  item.params \subseteq {"req", "other"}
  <2>1. CASE d.covered = {}
    BY <1>1, <1>2, <2>1 DEF Named
  <2>2. CASE d.covered # {}
    <3>1. The(d.covered) \in d.covered
      BY <2>2 DEF The
    <3>2. \A i \in DOMAIN The(d.covered) : TypedSpec(The(d.covered)[i])
      BY <3>1 DEF TypedDraft
    <3>3. PICK i \in DOMAIN The(d.covered) : item = Component(The(d.covered)[i])
      BY <1>2, <2>2 DEF Named, ElementsOf
    <3>4. TypedSpec(The(d.covered)[i])
      BY <3>2
    <3>5. item.params = The(d.covered)[i].params
      BY <3>3, <3>4 DEF Component, TypedSpec, IsRecord
    <3>6. QED
      BY <3>4, <3>5 DEF TypedSpec
  <2>3. QED
    BY <2>1, <2>2
<1>3. \A item \in ElementsOf(ItemsSigned(d)) : item.params \subseteq {"req", "other"}
  BY <1>1, <1>2, ListSigned
<1>4. QED
  BY <1>3 DEF ElementsOf

\* What is received is a call of the types there are.
LEMMA ReceivedTyped ==
  ASSUME exchange \in Exchanges, signedAt \in Int, NEW m \in Arrivals(SignedMessage(D, signedAt))
  PROVE  TypedCall([msg |-> m, policy |-> P])
<1> DEFINE items == ItemsSigned(D)
           params == ParamsSigned(D, signedAt)
           value == Sign(D.key, Base(items, Sending(D), params))
           member == [label |-> "sig", list |-> TRUE, items |-> items, params |-> params]
           c == [msg |-> D.m, policy |-> P]
<1>1. TypedDraft(D) /\ TypedCall(c)
  BY ExchangeTyped
<1>2. AsSent(m, Sending(D)) /\ CarriesSignature(m, items, params, value)
  BY <1>1, ReceivedParts
<1>3. /\ m.request = D.m.request
      /\ m.body = D.m.body \/ (~HasContent(D.m.body) /\ m.body = {EmptyBody})
  BY <1>1, ReceivedParts
<1>4. AtMostOne(m.body) /\ AtMostOne(m.request)
      /\ \A r \in m.request : AtMostOne(r.headers.digest) /\ AtMostOne(r.body)
  BY <1>1, <1>3 DEF TypedDraft, AtMostOne
<1>5. AtMostOne(m.headers.digest) /\ AtMostOne(m.headers.length)
  <2>1. /\ Sending(D).headers.length = D.m.headers.length
        /\ Sending(D).headers.digest =
             IF D.m.body # {} /\ D.m.headers.digest = {}
             THEN {DigestOf(The(D.m.body))} ELSE D.m.headers.digest
    BY <1>1, SendingAdds
  <2>2. AtMostOne(D.m.headers.length) /\ AtMostOne(D.m.headers.digest)
    BY <1>1 DEF TypedCall, TypedHeaders
  <2>3. AtMostOne(Sending(D).headers.digest)
    BY <2>1, <2>2 DEF AtMostOne
  <2>4. m.headers.digest = Sending(D).headers.digest
    BY <1>2 DEF AsSent
  <2>5. m.headers.length \in {D.m.headers.length, {"positive"}}
    BY <1>2, <2>1 DEF AsSent
  <2>6. QED
    BY <2>2, <2>3, <2>4, <2>5 DEF AtMostOne
<1>6. AtMostOne(m.headers.signature) /\ AtMostOne(m.headers.input)
  BY <1>2 DEF CarriesSignature, AtMostOne
<1>7. OneOf(params.keyid, Keyids)
  <2>1. D.keyid # {} => The(D.keyid) \in Keyids
    BY <1>1, TheOne DEF TypedDraft, OneOf
  <2>2. RawKeyid(D.key) \in Keyids
    BY <1>1, KeysAssumption DEF TypedDraft, Keyids
  <2>3. QED
    BY <2>1, <2>2 DEF ParamsSigned, OneOf, AtMostOne
<1>8. OneOf(params.created, Int) /\ OneOf(params.expires, Int)
  <2>1. D.created # {} => The(D.created) \in Int
    BY <1>1, TheOne DEF TypedDraft, OneOf
  <2>2. OneOf(D.expires, Int)
    BY <1>1 DEF TypedDraft
  <2>3. QED
    BY <2>1, <2>2 DEF ParamsSigned, OneOf, AtMostOne
<1>9. IsSequence(items) /\ \A j \in DOMAIN items : items[j].params \subseteq {"req", "other"}
  BY <1>1, ListSigned, ParametersSigned
<1> HIDE DEF items, params, value
<1>10. ASSUME NEW f \in m.headers.input
       PROVE  /\ IsSequence(f.members)
              /\ \A i \in DOMAIN f.members :
                   /\ IsSequence(f.members[i].items)
                   /\ \A j \in DOMAIN f.members[i].items : f.members[i].items[j].params \subseteq {"req", "other"}
                   /\ OneOf(f.members[i].params.keyid, Keyids)
                   /\ OneOf(f.members[i].params.created, Int)
                   /\ OneOf(f.members[i].params.expires, Int)
  <2>1. f.members = <<member>>
    BY <1>2, <1>10 DEF CarriesSignature
  <2>2. member.items = items /\ member.params = params
    OBVIOUS
  <2> HIDE DEF member
  <2>3. DOMAIN f.members = {1} /\ f.members[1] = member
    BY <2>1
  <2>4. IsSequence(f.members)
    <3>1. member \in ElementsOf(f.members)
      BY <2>3 DEF ElementsOf
    <3>2. <<member>> \in Seq(ElementsOf(f.members))
      BY <3>1
    <3>3. QED
      BY <2>1, <3>2 DEF IsSequence
  <2>5. QED
    BY <1>7, <1>8, <1>9, <2>2, <2>3, <2>4
<1>11. TypedHeaders(m.headers)
  BY <1>5, <1>6, <1>10 DEF TypedHeaders
<1>12. QED
  BY <1>1, <1>4, <1>11 DEF TypedCall

\* A verification of it ends in one of the refusals there are, or in none.
LEMMA VerifyRange ==
  ASSUME exchange \in Exchanges, signedAt \in Int, NEW m \in Arrivals(SignedMessage(D, signedAt)),
         NEW answer_, NEW now
  PROVE  Refusal(m, P, answer_, now) \in Refusals \cup {None}
<1> DEFINE c == [msg |-> m, policy |-> P]
           R == Refusals \cup {None}
           keyid == ParamsOf(m).keyid
<1>1. TypedCall(c) /\ c.msg = m /\ c.policy = P
  BY ReceivedTyped
<1> HIDE DEF c
<1>2. Early \subseteq R
  BY DEF Early
<1>3. /\ CallRefusal(m, P) \in Early /\ ReadRefusal(m, P) \in Early
      /\ CoverageRefusal(m, P) \in Early /\ AuthorityServedRefusal(m, P) \in Early
  BY <1>1, CallRange, ReadRange, CoverageRange, ServedRange
<1>4. KeyStageRefusal(m, P, answer_) \in Early
  <2>1. /\ LocalKeyRefusal(keyid, P) \in Early /\ UnexpectedKeyidRefusal(keyid, P) \in Early
        /\ ResolvedRefusal(answer_) \in Early /\ AlgorithmRefusal(ParamsOf(m)) \in Early
    BY KeyRange
  <2>2. None \in Early
    BY DEF Early
  <2>3. QED
    BY <2>1, <2>2 DEF KeyStageRefusal, ??
<1>5. ReadRefusal(m, P) = None => SignatureRefusal(m, KeyFor(keyid, P, answer_)) \in Early
  BY <1>1, SignatureRange
<1>6. FreshnessRefusal(ParamsOf(m), P, now) \in R /\ DigestRefusal(m) \in R
  BY PolicyRange
<1> HIDE DEF R, keyid
<1>7. QED
  BY <1>2, <1>3, <1>4, <1>5, <1>6 DEF Refusal, ??, R, keyid

-------------------------------------------------------------------------------
(* The invariant.                                                          *)

LEMMA InitInv == Init => Inv
BY RoundTripAssumption DEF Init, Inv, Typed, Made, D

\* What the signer makes, or refuses.
LEMMA SignMessageInv ==
  ASSUME Inv, SignMessage
  PROVE  Inv'
<1>1. D' = D /\ exchange' = exchange /\ clock' = clock /\ signedAt' = clock
  BY DEF SignMessage, D
<1>2. Typed'
  BY <1>1, RoundTripAssumption DEF Inv, Typed, SignMessage
<1>3. CASE outcome' = None
  <2>1. /\ stage' = "sent" /\ message' = SignedMessage(D, clock)
        /\ SignRefusal(D) = None
    BY <1>3 DEF SignMessage
  <2>2. message' = SignedMessage(D, signedAt)' /\ (SignRefusal(D) = None)'
    BY <1>1, <2>1
  <2>3. Made'
    BY <1>3, <2>1, <2>2 DEF Made
  <2>4. QED
    BY <1>2, <2>3 DEF Inv
<1>4. CASE outcome' # None
  <2>1. /\ stage' = "refused" /\ message' = message /\ outcome' = SignRefusal(D) /\ message = D.m
    BY <1>4 DEF SignMessage, Inv, Made
  <2>2. Made'
    BY <1>1, <1>4, <2>1 DEF Made
  <2>3. QED
    BY <1>2, <2>2 DEF Inv
<1>5. QED
  BY <1>3, <1>4

LEMMA CarryInv ==
  ASSUME Inv, Carry
  PROVE  Inv'
<1>1. D' = D /\ exchange' = exchange /\ clock' = clock /\ signedAt' = signedAt /\ outcome' = outcome
  BY DEF Carry, D
<1>2. /\ stage' = "received" /\ outcome = None /\ SignRefusal(D) = None
      /\ message' \in Arrivals(SignedMessage(D, signedAt))
  BY DEF Carry, Inv, Made
<1>3. Typed'
  BY <1>1, <1>2 DEF Inv, Typed
<1>4. Made'
  <2>1. (SignRefusal(D) = None)' /\ (message \in Arrivals(SignedMessage(D, signedAt)))'
    BY <1>1, <1>2
  <2>2. QED
    BY <1>1, <1>2, <2>1 DEF Made
<1>5. QED
  BY <1>3, <1>4 DEF Inv

LEMMA VerifyInv ==
  ASSUME Inv, Verify
  PROVE  Inv'
<1>1. D' = D /\ exchange' = exchange /\ clock' = clock /\ signedAt' = signedAt /\ message' = message
  BY DEF Verify, D
<1>2. /\ stage' = "verified" /\ SignRefusal(D) = None
      /\ message \in Arrivals(SignedMessage(D, signedAt))
      /\ outcome' = Refusal(message, P, Answer, clock)
  BY DEF Verify, Inv, Made
<1>3. exchange \in Exchanges /\ signedAt \in Int
  BY RoundTripAssumption DEF Inv, Typed
<1>4. outcome' \in Refusals \cup {None}
  BY <1>2, <1>3, VerifyRange
<1>5. Typed'
  BY <1>1, <1>2 DEF Inv, Typed
<1>6. Made'
  <2>1. (SignRefusal(D) = None)' /\ (message \in Arrivals(SignedMessage(D, signedAt)))'
    BY <1>1, <1>2
  <2>2. QED
    BY <1>2, <1>4, <2>1 DEF Made
<1>7. QED
  BY <1>5, <1>6 DEF Inv

LEMMA TickInv ==
  ASSUME Inv, Tick
  PROVE  Inv'
<1>1. /\ D' = D /\ exchange' = exchange /\ clock' = clock + 1 /\ clock < MaxClock
      /\ signedAt' = signedAt /\ message' = message /\ stage' = stage /\ outcome' = outcome
  BY DEF Tick, D
<1>2. Typed'
  BY <1>1, RoundTripAssumption DEF Inv, Typed
<1>3. Made'
  <2>1. /\ SignRefusal(D)' = SignRefusal(D) /\ SignedMessage(D, signedAt)' = SignedMessage(D, signedAt)
        /\ Arrivals(SignedMessage(D, signedAt))' = Arrivals(SignedMessage(D, signedAt))
    BY <1>1
  <2>2. QED
    BY <1>1, <2>1 DEF Inv, Made
<1>4. QED
  BY <1>2, <1>3 DEF Inv

LEMMA NextInv == Inv /\ [Next]_vars => Inv'
<1> SUFFICES ASSUME Inv, [Next]_vars PROVE Inv'
  OBVIOUS
<1>1. CASE UNCHANGED vars
  <2>1. /\ D' = D /\ exchange' = exchange /\ clock' = clock /\ signedAt' = signedAt
        /\ message' = message /\ stage' = stage /\ outcome' = outcome
    BY <1>1 DEF vars, D
  <2>2. /\ SignRefusal(D)' = SignRefusal(D) /\ SignedMessage(D, signedAt)' = SignedMessage(D, signedAt)
        /\ Arrivals(SignedMessage(D, signedAt))' = Arrivals(SignedMessage(D, signedAt))
    BY <2>1
  <2>3. QED
    BY <2>1, <2>2 DEF Inv, Typed, Made
<1>2. QED
  BY <1>1, SignMessageInv, CarryInv, VerifyInv, TickInv DEF Next

-------------------------------------------------------------------------------
(* The theorems.                                                           *)

\* Every call ends in a refusal there is, no message leaves a signer that refused, and no
\* time is signed that has not come (TypeOK).
THEOREM TypeCorrect == Spec => []TypeOK
<1>1. ASSUME Inv PROVE TypeOK
  <2>1. TypedDraft(D)
    BY <1>1, ExchangeTyped DEF Inv, Typed
  <2>2. SignRefusal(D) \in Refusals \cup {None, "UncoveredBody", "AttributeError"}
    BY <2>1, SignRange
  <2>3. outcome \in Refusals \cup {None, "UncoveredBody", "AttributeError"}
    BY <1>1, <2>2 DEF Inv, Typed, Made
  <2>4. QED
    BY <1>1, <2>3 DEF Inv, Typed, Made, TypeOK
<1>2. QED
  BY <1>1, InitInv, NextInv, PTL DEF Spec

\* Whatever a signer signs for a verifier it agrees with about the minimum, the key, the
\* authority and the time, the verifier accepts, for every message, list, policy and key
\* (sign_request and verify_request, sign_response and verify_response).
THEOREM SignersAreAccepted == Spec => []SignedIsAccepted
<1>1. ASSUME Inv PROVE SignedIsAccepted
  <2> SUFFICES ASSUME stage = "received",
                      PolicyInOrder, MinimumAgreed, BodiesHandedOver, KeyAgreed, AuthorityAgreed,
                      InsideTheWindow
               PROVE  Refusal(message, P, Answer, clock) = None
    BY DEF SignedIsAccepted
  <2>1. exchange \in Exchanges /\ Typed
    BY <1>1 DEF Inv, Typed
  <2>2. SignRefusal(D) = None /\ message \in Arrivals(SignedMessage(D, signedAt))
    BY <1>1 DEF Inv, Made
  <2>3. TypedDraft(D)
    BY <2>1, ExchangeTyped
  <2>4. CallRefusal(message, P) = None
    BY <2>2, <2>3, CallAccepts
  <2>5. ReadRefusal(message, P) = None
    BY <2>2, <2>3, ReadAccepts
  <2>6. CoverageRefusal(message, P) = None
    BY <2>2, <2>3, CoverageAccepts
  <2>7. /\ KeyStageRefusal(message, P, Answer) = None
        /\ KeyFor(ParamsOf(message).keyid, P, Answer) = D.key
    BY <2>1, <2>2, KeyAccepts
  <2>8. SignatureRefusal(message, D.key) = None
    BY <2>2, <2>3, SignatureAccepts
  <2>9. AuthorityServedRefusal(message, P) = None
    BY <2>2, <2>3, ServedAccepts
  <2>10. FreshnessRefusal(ParamsOf(message), P, clock) = None
    BY <2>1, <2>2, FreshAccepts
  <2>11. DigestRefusal(message) = None
    BY <2>2, <2>3, DigestAccepts
  <2>12. QED
    BY <2>4, <2>5, <2>6, <2>7, <2>8, <2>9, <2>10, <2>11, AcceptedByAll
<1>2. QED
  BY <1>1, InitInv, NextInv, PTL DEF Spec

-------------------------------------------------------------------------------
(* What a signer refuses, had it been sent.                                *)

\* Two messages that differ in their signatures alone have the same components.
LEMMA SameComponents ==
  ASSUME NEW m, NEW s, SameMessage(m, s), NEW item
  PROVE  ItemRefusal(item, m, TRUE) = None <=> ItemRefusal(item, s, FALSE) = None
<1>1. m.request = s.request
  BY DEF SameMessage
<1>2. CASE "req" \in item.params
  <2>1. Subject(item, m) = Subject(item, s)
    BY <1>1, <1>2 DEF Subject
  <2>2. QED
    BY <1>1, <2>1, EitherSideRefuses DEF ItemRefusal
<1>3. CASE "req" \notin item.params
  <2>1. Subject(item, m) = m /\ Subject(item, s) = s
    BY <1>3 DEF Subject
  <2>2. AuthorityRefusal(m, TRUE) = AuthorityRefusal(s, TRUE)
    BY DEF SameMessage, AuthorityRefusal
  <2>3. FieldRefusal(item.name, m.headers) = FieldRefusal(item.name, s.headers)
    BY DEF SameMessage, FieldRefusal, FieldOf
  <2>4. SubjectRefusal(item.name, m, TRUE) = SubjectRefusal(item.name, s, TRUE)
    <3>1. m.status = s.status /\ m.url = s.url
      BY DEF SameMessage
    <3>2. QED
      BY <2>2, <2>3, <3>1 DEF SubjectRefusal
  <2>5. QED
    BY <1>3, <2>1, <2>4, EitherSideRefuses DEF ItemRefusal
<1>4. QED
  BY <1>2, <1>3

\* The message a signer refuses to sign, as it would have been sent.
LEMMA UnsentParts ==
  ASSUME TypedDraft(D)
  PROVE  /\ ItemsOf(HadItBeenSigned) = ItemsSigned(D)
         /\ SameMessage(HadItBeenSigned, Sending(D))
         /\ HadItBeenSigned.response = D.m.response /\ HadItBeenSigned.request = D.m.request
         /\ HasBody(HadItBeenSigned) = HasBody(Sending(D))
         /\ HasContent(D.m.body) => HasBody(HadItBeenSigned)
<1> DEFINE items == ItemsSigned(D)
           params == ParamsSigned(D, signedAt)
           base == IF LinesRefusal(items, Sending(D), TRUE) = None
                   THEN Base(items, Sending(D), params) ELSE [lines |-> <<>>, params |-> params]
           value == Sign(D.key, base)
           w == WithSignature(Sending(D), items, params, value)
<1>1. w = HadItBeenSigned
  BY DEF HadItBeenSigned
<1> HIDE DEF items, params, value
<1>2. CarriesSignature(w, items, params, value) /\ SameMessage(w, Sending(D))
  BY SendingAdds, SignatureAdded
<1> HIDE DEF w
<1>3. ItemsOf(w) = items
  BY <1>2, SignatureReads
<1>4. w.response = D.m.response /\ w.request = D.m.request /\ w.body = D.m.body
  BY <1>2, SendingAdds DEF SameMessage
<1>5. HasBody(w) = HasBody(Sending(D))
  BY <1>2 DEF SameMessage, HasBody, RequestHasBody
<1>6. HasContent(w.body) => HasBody(w)
  BY DEF HasBody, RequestHasBody
<1>7. QED
  BY <1>1, <1>2, <1>3, <1>4, <1>5, <1>6 DEF items

\* A list that leaves out what the verifier's minimum asks for is refused by it.
LEMMA UncoveredRefused ==
  ASSUME TypedDraft(D), NEW minimum \in P.minimum,
         ~CoversMinimum(ItemsSigned(D), minimum, HasBody(HadItBeenSigned), RequestHadBody(D.m))
  PROVE  CoverageRefusal(HadItBeenSigned, P) # None
<1>1. /\ ItemsOf(HadItBeenSigned) = ItemsSigned(D)
      /\ RequestHadBody(HadItBeenSigned) = RequestHadBody(D.m)
  BY UnsentParts DEF RequestHadBody
<1>2. "InsufficientCoverage" # None
  BY DEF None
<1>3. QED
  BY <1>1, <1>2 DEF CoverageRefusal, ??

\* So is a component without a value, when its line is needed.
LEMMA UnbuiltRefused ==
  ASSUME TypedDraft(D), NEW item \in ElementsOf(ItemsSigned(D)),
         ItemRefusal(item, Sending(D), FALSE) # None,
         NEW key
  PROVE  SignatureRefusal(HadItBeenSigned, key) # None
<1> DEFINE w == HadItBeenSigned
<1>1. ItemsOf(w) = ItemsSigned(D) /\ SameMessage(w, Sending(D)) /\ DOMAIN ItemsSigned(D) \subseteq Nat
  BY UnsentParts, ListSigned
<1>2. ItemRefusal(item, w, TRUE) # None
  BY <1>1, SameComponents
<1> HIDE DEF w
<1>3. PICK i \in DOMAIN ItemsSigned(D) : item = ItemsSigned(D)[i]
  BY DEF ElementsOf
<1>4. LinesRefusal(ItemsOf(w), w, TRUE) # None
  BY <1>1, <1>2, <1>3, LinesAllThere
<1>5. QED
  BY <1>4 DEF SignatureRefusal, ??, w

\* Each check that a signer refuses for, when it blames the message, the verifier has too.
LEMMA UnsentRefused ==
  ASSUME TypedDraft(D), SignCallRefusal(D) = None,
         SignRefusal(D) \notin {None, "ValueError", "AttributeError"},
         D.m.body # {EmptyBody}, P.minimum # {}, P.minimum = D.minimum,
         NEW key
  PROVE  \/ CoverageRefusal(HadItBeenSigned, P) # None
         \/ SignatureRefusal(HadItBeenSigned, key) # None
         \/ DigestRefusal(HadItBeenSigned) # None
<1> DEFINE w == HadItBeenSigned
           items == ItemsSigned(D)
<1>1. SignCallRefusal(D) = None
  OBVIOUS
<1>2. CASE CoverBodyRefusal(D) # None
  <2>1. CoverBodyRefusal(D) = "UncoveredBody"
    BY <1>1, <1>2, FirstOfSign DEF CoverBodyRefusal
  <2>2. D.m.body # {} /\ D.covered # {} /\ ~CoversBody(Named(D))
    BY <2>1 DEF CoverBodyRefusal, None
  <2>3. HasContent(D.m.body)
    BY <2>2 DEF HasContent, TypedDraft, AtMostOne
  <2>4. ~CoversBody(items)
    BY <2>2, ListSigned DEF CoversBody
  <2>5. PICK minimum \in P.minimum : TRUE
    OBVIOUS
  <2>6. ~CoversMinimum(items, minimum, HasBody(w), RequestHadBody(D.m))
    <3>1. HasBody(w)
      BY <2>3, UnsentParts
    <3>2. QED
      BY <2>4, <3>1 DEF CoversMinimum, Required, CoversBody
  <2>7. QED
    BY <2>6, UncoveredRefused
<1>3. CASE CoverBodyRefusal(D) = None /\ BindRequestRefusal(D) # None
  <2>1. PICK r \in D.m.request : r.headers.digest = {}
    BY <1>3 DEF BindRequestRefusal
  <2>2. r = The(D.m.request) /\ Sending(D).request = D.m.request
    <3>1. AtMostOne(D.m.request)
      BY DEF TypedDraft
    <3>2. r = The(D.m.request)
      BY <2>1, <3>1, TheOne
    <3>3. QED
      BY <3>2, SendingAdds
  <2>3. Req(ContentDigest) \in ElementsOf(items)
    BY <1>3, ListSigned DEF BindRequestRefusal
  <2>4. Req(ContentDigest).name = ContentDigest /\ "req" \in Req(ContentDigest).params
    BY DEF Req, AsciiLower, ContentDigest
  <2>5. FieldRefusal(ContentDigest, r.headers) = "MissingComponent"
    BY <2>1 DEF FieldRefusal, FieldOf, ContentDigest
  <2>6. SubjectRefusal(ContentDigest, r, FALSE) = "MissingComponent"
    BY <2>5 DEF SubjectRefusal, ContentDigest
  <2>7. ItemRefusal(Req(ContentDigest), Sending(D), FALSE) # None
    BY <2>1, <2>2, <2>4, <2>6 DEF ItemRefusal, Subject, None
  <2>8. QED
    BY <2>3, <2>7, UnbuiltRefused
<1>4. CASE /\ CoverBodyRefusal(D) = None /\ BindRequestRefusal(D) = None
           /\ SignMinimumRefusal(D) # None
  <2>1. PICK minimum \in D.minimum :
          ~CoversMinimum(items, minimum, HasBody(Sending(D)), RequestHadBody(D.m))
    BY <1>4 DEF SignMinimumRefusal
  <2>2. HasBody(w) = HasBody(Sending(D)) /\ minimum \in P.minimum
    BY UnsentParts
  <2>3. QED
    BY <2>1, <2>2, UncoveredRefused
<1>5. CASE /\ CoverBodyRefusal(D) = None /\ BindRequestRefusal(D) = None
           /\ SignMinimumRefusal(D) = None /\ RequestDigestRefusal(D) # None
  <2>1. SignRefusal(D) = RequestDigestRefusal(D)
    BY <1>1, <1>5, FirstOfSign
  <2>2. PICK r \in D.m.request : r.body # {} /\ BindsRequestDigest(items)
    BY <1>5 DEF RequestDigestRefusal
  <2>3. r = The(D.m.request) /\ w.request = D.m.request /\ ItemsOf(w) = items
    BY <2>2, TheOne, UnsentParts DEF TypedDraft
  <2> DEFINE digest == The(r.headers.digest)
  <2>4. ReadDigestRefusal(digest) # None \/ CompareDigestRefusal(digest, r.body) # None
    BY <1>5, <2>1, <2>2, <2>3 DEF RequestDigestRefusal, ??
  <2> HIDE DEF digest, items, w
  <2>5. <<digest, r.body>> \in DigestsCovered(w)
    BY <2>2, <2>3 DEF DigestsCovered, digest
  <2>6. DigestRefusal(w) # None
    <3>1. \E d \in DigestsCovered(w) : ReadDigestRefusal(d[1]) # None \/ CompareDigestRefusal(d[1], d[2]) # None
      BY <2>4, <2>5
    <3>2. QED
      BY <3>1 DEF DigestRefusal, None
  <2>7. QED
    BY <2>6 DEF w
<1>6. CASE /\ CoverBodyRefusal(D) = None /\ BindRequestRefusal(D) = None
           /\ SignMinimumRefusal(D) = None /\ RequestDigestRefusal(D) = None
  <2>1. SignRefusal(D) = BaseRefusal(D)
    BY <1>1, <1>6, FirstOfSign
  <2>2. \/ CheckCovered(items, D.m.response) # None
        \/ LinesRefusal(items, Sending(D), FALSE) # None
    BY <2>1 DEF BaseRefusal, ??
  <2>3. CASE CheckCovered(items, D.m.response) # None
    BY <2>3, UnsentParts DEF CoverageRefusal, ??
  <2>4. CASE LinesRefusal(items, Sending(D), FALSE) # None
    <3>1. PICK i \in DOMAIN items : ItemRefusal(items[i], Sending(D), FALSE) # None
      BY <2>4, ListSigned, LinesAllThere
    <3>2. items[i] \in ElementsOf(items)
      BY DEF ElementsOf
    <3>3. QED
      BY <3>1, <3>2, UnbuiltRefused
  <2>5. QED
    BY <2>2, <2>3, <2>4
<1>7. QED
  BY <1>2, <1>3, <1>4, <1>5, <1>6

\* A signer is never stricter than the verifier: what it refuses for the message's sake,
\* the verifier would have refused had it been sent, whatever its key, resolver and clock
\* (the checks of sign_request and sign_response beside verify_request's).
THEOREM RefusesLikeAVerifier == Spec => []RefusesOnlyWhatAVerifierWould
<1>1. ASSUME Inv PROVE RefusesOnlyWhatAVerifierWould
  <2> SUFFICES ASSUME stage = "refused", SignCallRefusal(D) = None,
                      outcome \notin {"ValueError", "AttributeError"},
                      D.m.body # {EmptyBody}, P.minimum # {}, P.minimum = D.minimum
               PROVE  Refusal(HadItBeenSigned, P, Answer, signedAt) # None
    BY DEF RefusesOnlyWhatAVerifierWould
  <2>1. SignCallRefusal(D) = None /\ SignRefusal(D) \notin {None, "ValueError", "AttributeError"}
    BY <1>1 DEF Inv, Made
  <2>2. TypedDraft(D)
    BY <1>1, ExchangeTyped DEF Inv, Typed
  <2>3. QED
    BY <2>1, <2>2, UnsentRefused, AcceptedByAll
<1>2. QED
  BY <1>1, InitInv, NextInv, PTL DEF Spec
===============================================================================
