------------------------------ MODULE SignerProofs ------------------------------
(***************************************************************************)
(* Lemmas about the operators of Signer, for every draft: what a signing   *)
(* call covers, what it refuses for, and in which order.  They are what    *)
(* the proofs about the JavaScript signer and about a signer and a         *)
(* verifier together rest on.                                              *)
(***************************************************************************)
EXTENDS Signer, VerificationProofs, SequenceTheorems

\* A field set to what it is is the same record.
LEMMA SameField ==
  ASSUME NEW r, NEW S, IsRecord(r, S), NEW f \in S
  PROVE  [r EXCEPT ![f] = r[f]] = r
BY DEF IsRecord

\* The components of two lists in a row are those of each.
LEMMA ElementsOfBoth ==
  ASSUME NEW S, NEW s \in Seq(S), NEW t \in Seq(S)
  PROVE  /\ s \o t \in Seq(S)
         /\ ElementsOf(s \o t) = ElementsOf(s) \cup ElementsOf(t)
<1>1. /\ s \o t \in Seq(S)
      /\ DOMAIN (s \o t) = 1..(Len(s) + Len(t)) /\ DOMAIN s = 1..Len(s) /\ DOMAIN t = 1..Len(t)
      /\ Len(s) \in Nat /\ Len(t) \in Nat
      /\ \A i \in 1..(Len(s) + Len(t)) : (s \o t)[i] = IF i <= Len(s) THEN s[i] ELSE t[i - Len(s)]
  OBVIOUS
<1>2. ASSUME NEW x \in ElementsOf(s \o t) PROVE x \in ElementsOf(s) \cup ElementsOf(t)
  BY <1>1 DEF ElementsOf
<1>3. ASSUME NEW x \in ElementsOf(s) PROVE x \in ElementsOf(s \o t)
  BY <1>1 DEF ElementsOf
<1>4. ASSUME NEW x \in ElementsOf(t) PROVE x \in ElementsOf(s \o t)
  <2>1. PICK i \in 1..Len(t) : x = t[i]
    BY <1>1, <1>4 DEF ElementsOf
  <2>2. Len(s) + i \in DOMAIN (s \o t) /\ (s \o t)[Len(s) + i] = t[i]
    BY <1>1, <2>1
  <2>3. QED
    BY <2>1, <2>2 DEF ElementsOf
<1>5. QED
  BY <1>1, <1>2, <1>3, <1>4

\* A list written out is a sequence of what it lists.
LEMMA ShortLists ==
  ASSUME NEW a, NEW b, NEW c, NEW e, NEW S
  PROVE  /\ ElementsOf(<<a>>) \subseteq S => <<a>> \in Seq(S)
         /\ ElementsOf(<<a, b, c, e>>) \subseteq S => <<a, b, c, e>> \in Seq(S)
<1>1. 1 \in DOMAIN <<a>> /\ {1, 2, 3, 4} \subseteq DOMAIN <<a, b, c, e>>
  OBVIOUS
<1>2. ASSUME ElementsOf(<<a>>) \subseteq S PROVE <<a>> \in Seq(S)
  <2>1. a \in S
    BY <1>1, <1>2 DEF ElementsOf
  <2>2. QED
    BY <2>1
<1>3. ASSUME ElementsOf(<<a, b, c, e>>) \subseteq S PROVE <<a, b, c, e>> \in Seq(S)
  <2>1. a \in S /\ b \in S /\ c \in S /\ e \in S
    BY <1>1, <1>3 DEF ElementsOf
  <2>2. QED
    BY <2>1
<1>4. QED
  BY <1>2, <1>3

\* The list a signer covers is a sequence of the components it names and of the digests the
\* default list grows by, and covers the body there is, if the caller's own was checked
\* (coverBody).
LEMMA ListSigned ==
  ASSUME NEW d, TypedDraft(d)
  PROVE  /\ DOMAIN ItemsSigned(d) \subseteq Nat /\ IsSequence(ItemsSigned(d))
         /\ ElementsOf(ItemsSigned(d)) =
              (ElementsOf(Named(d))
                \cup (IF d.covered = {} /\ d.m.body # {} THEN {Item(ContentDigest)} ELSE {}))
                \cup (IF d.covered = {} /\ RequestHadBody(d.m) THEN {Req(ContentDigest)} ELSE {})
         /\ d.m.body # {} /\ (d.covered # {} => CoversBody(Named(d))) => CoversBody(ItemsSigned(d))
<1> DEFINE own == IF d.covered = {} /\ d.m.body # {} THEN <<Item(ContentDigest)>> ELSE <<>>
           asked_ == IF d.covered = {} /\ RequestHadBody(d.m) THEN <<Req(ContentDigest)>> ELSE <<>>
           S == ElementsOf(Named(d)) \cup {Item(ContentDigest), Req(ContentDigest)}
<1>1. Named(d) \in Seq(S)
  <2>1. CASE d.covered = {}
    BY <2>1, ShortLists DEF Named, DefaultItems, DefaultCovered
  <2>2. CASE d.covered # {}
    <3>1. The(d.covered) \in Seq(ElementsOf(The(d.covered)))
      BY <2>2, TheOne DEF TypedDraft, IsSequence
    <3>2. DOMAIN The(d.covered) = 1..Len(The(d.covered)) /\ Len(The(d.covered)) \in Nat
      BY <3>1
    <3>3. Named(d) \in [1..Len(The(d.covered)) -> S]
      BY <2>2, <3>2 DEF Named, ElementsOf
    <3>4. QED
      BY <3>2, <3>3
  <2>3. QED
    BY <2>1, <2>2
<1>2. own \in Seq(S) /\ asked_ \in Seq(S)
  <2>1. \A x \in S : <<x>> \in Seq(S) /\ <<>> \in Seq(S)
    <3> HIDE DEF S
    <3>1. QED
      OBVIOUS
  <2>2. QED
    BY <2>1
<1>3. ItemsSigned(d) = (Named(d) \o own) \o asked_
  BY DEF ItemsSigned
<1> HIDE DEF S, own, asked_
<1> DEFINE first == Named(d) \o own
<1>4. /\ ItemsSigned(d) \in Seq(S)
      /\ ElementsOf(ItemsSigned(d)) = (ElementsOf(Named(d)) \cup ElementsOf(own)) \cup ElementsOf(asked_)
  <2>1. /\ first \in Seq(S)
        /\ ElementsOf(first) = ElementsOf(Named(d)) \cup ElementsOf(own)
    BY <1>1, <1>2, ElementsOfBoth
  <2> HIDE DEF first
  <2>2. /\ first \o asked_ \in Seq(S)
        /\ ElementsOf(first \o asked_) = ElementsOf(first) \cup ElementsOf(asked_)
    BY <1>2, <2>1, ElementsOfBoth
  <2>3. QED
    BY <1>3, <2>1, <2>2 DEF first
<1>5. DOMAIN ItemsSigned(d) \subseteq Nat /\ IsSequence(ItemsSigned(d))
  <2>1. DOMAIN ItemsSigned(d) = 1..Len(ItemsSigned(d)) /\ Len(ItemsSigned(d)) \in Nat
    BY <1>4
  <2>2. \A i \in DOMAIN ItemsSigned(d) : ItemsSigned(d)[i] \in ElementsOf(ItemsSigned(d))
    BY DEF ElementsOf
  <2>3. ItemsSigned(d) \in [1..Len(ItemsSigned(d)) -> ElementsOf(ItemsSigned(d))]
    BY <1>4, <2>1, <2>2
  <2>4. QED
    BY <2>1, <2>3 DEF IsSequence
<1>6. /\ \A x : ElementsOf(<<x>>) = {x}
      /\ ElementsOf(<<>>) = {}
  <2>1. \A x : DOMAIN <<x>> = {1} /\ <<x>>[1] = x
    OBVIOUS
  <2>2. DOMAIN <<>> = {}
    OBVIOUS
  <2>3. QED
    BY <2>1, <2>2 DEF ElementsOf
<1>7. /\ ElementsOf(own) = IF d.covered = {} /\ d.m.body # {} THEN {Item(ContentDigest)} ELSE {}
      /\ ElementsOf(asked_) = IF d.covered = {} /\ RequestHadBody(d.m) THEN {Req(ContentDigest)} ELSE {}
  BY <1>6 DEF own, asked_
<1>8. QED
  BY <1>4, <1>5, <1>7 DEF CoversBody

\* What the lines of a message that is being sent are refused for.
LEMMA LinesRefusals ==
  ASSUME NEW items, DOMAIN items \subseteq Nat, NEW m
  PROVE  LinesRefusal(items, m, FALSE) \in {None, "ValueError", "MissingComponent", "SignatureMismatch"}
<1> DEFINE R == {None, "ValueError", "MissingComponent", "SignatureMismatch"}
           f == [i \in DOMAIN items |-> ItemRefusal(items[i], m, FALSE)]
<1>1. \A name, headers : FieldRefusal(name, headers) \in R
  BY DEF FieldRefusal
<1>2. \A s : AuthorityRefusal(s, FALSE) \in R
  BY DEF AuthorityRefusal, Unreadable
<1>3. ASSUME NEW name, NEW s
      PROVE  SubjectRefusal(name, s, FALSE) \in R
  <2>1. CASE name = "@authority"
    BY <1>2, <2>1 DEF SubjectRefusal
  <2>2. CASE name \in {"@status", "@method", "@path", "@query"}
    BY <2>2 DEF SubjectRefusal, Unreadable
  <2>3. CASE name \notin {"@authority", "@status", "@method", "@path", "@query"}
    BY <1>1, <2>3 DEF SubjectRefusal
  <2>4. QED
    BY <2>1, <2>2, <2>3
<1>4. \A item : ItemRefusal(item, m, FALSE) \in R
  BY <1>3 DEF ItemRefusal
<1>5. \A i \in DOMAIN f : f[i] \in R
  BY <1>4
<1>6. LinesRefusal(items, m, FALSE) = FirstRefusal(f) /\ DOMAIN f \subseteq Nat
  BY DEF LinesRefusal
<1> HIDE DEF f
<1>7. QED
  BY <1>5, <1>6, FirstRefusalCases

\* What a covered list is refused for.
LEMMA CoveredRefusals ==
  ASSUME NEW items, NEW response
  PROVE  CheckCovered(items, response) \in {None, "DuplicateComponent", "UnsupportedComponent"}
BY DEF CheckCovered

\* sign_request and sign_response refuse for the first of their checks that fails.
LEMMA FirstOfSign ==
  ASSUME NEW d
  PROVE  LET first == SignCallRefusal(d) = None
             second == first /\ CoverBodyRefusal(d) = None
             third == second /\ BindRequestRefusal(d) = None
             fourth == third /\ SignMinimumRefusal(d) = None
         IN  /\ ~first => SignRefusal(d) = SignCallRefusal(d)
             /\ first /\ CoverBodyRefusal(d) # None => SignRefusal(d) = CoverBodyRefusal(d)
             /\ second /\ BindRequestRefusal(d) # None => SignRefusal(d) = BindRequestRefusal(d)
             /\ third /\ SignMinimumRefusal(d) # None => SignRefusal(d) = SignMinimumRefusal(d)
             /\ fourth /\ RequestDigestRefusal(d) # None => SignRefusal(d) = RequestDigestRefusal(d)
             /\ fourth /\ RequestDigestRefusal(d) = None => SignRefusal(d) = BaseRefusal(d)
             /\ BaseRefusal(d) # None => SignRefusal(d) # None
BY DEF SignRefusal, ??

-------------------------------------------------------------------------------
(* What a signed message carries.                                          *)

\* The two fields of one signature.
CarriesSignature(m, items, params, value) ==
    /\ m.headers.signature =
         {[shape |-> "dict",
           members |-> <<[label |-> "sig", bytes |-> TRUE, full |-> TRUE, value |-> value]>>]}
    /\ m.headers.input =
         {[shape |-> "dict",
           members |-> <<[label |-> "sig", list |-> TRUE, items |-> items, params |-> params]>>]}

\* All the rest of a message.
SameMessage(m, s) ==
    /\ m.response = s.response /\ m.method = s.method /\ m.url = s.url /\ m.status = s.status
    /\ m.body = s.body /\ m.request = s.request
    /\ m.headers.digest = s.headers.digest /\ m.headers.host = s.headers.host
    /\ m.headers.field = s.headers.field /\ m.headers.length = s.headers.length
    /\ m.headers.te = s.headers.te /\ m.headers.twice = s.headers.twice

WholeMessage(m) ==
    IsRecord(m, MessageFields) /\ IsRecord(m.headers, HeaderFields) /\ IsRecord(m.url, UrlFields)

\* A signature is added to a message and changes nothing else of it (_signed).
LEMMA SignatureAdded ==
  ASSUME NEW m, WholeMessage(m), NEW items, NEW params, NEW value
  PROVE  LET w == WithSignature(m, items, params, value)
         IN  WholeMessage(w) /\ CarriesSignature(w, items, params, value) /\ SameMessage(w, m)
<1> DEFINE sig == {[shape |-> "dict",
                    members |-> <<[label |-> "sig", bytes |-> TRUE, full |-> TRUE, value |-> value]>>]}
           inp == {[shape |-> "dict",
                    members |-> <<[label |-> "sig", list |-> TRUE, items |-> items, params |-> params]>>]}
           h == [m.headers EXCEPT !.signature = sig, !.input = inp]
           w == [m EXCEPT !.headers = h]
<1>1. w = WithSignature(m, items, params, value)
  BY DEF WithSignature
<1> HIDE DEF sig, inp
<1>2. /\ DOMAIN m.headers = DOMAIN h /\ HeaderFields \subseteq DOMAIN m.headers
      /\ h = [f \in DOMAIN h |-> h[f]]
      /\ h.signature = sig /\ h.input = inp
      /\ \A f \in DOMAIN h : f \notin {"signature", "input"} => h[f] = m.headers[f]
  BY DEF WholeMessage, IsRecord, HeaderFields
<1> HIDE DEF h
<1>3. /\ DOMAIN w = DOMAIN m /\ MessageFields \subseteq DOMAIN m
      /\ w = [f \in DOMAIN w |-> w[f]]
      /\ w.headers = h
      /\ \A f \in DOMAIN w : f # "headers" => w[f] = m[f]
  BY DEF WholeMessage, IsRecord, MessageFields
<1> HIDE DEF w
<1>4. WholeMessage(w)
  BY <1>2, <1>3 DEF WholeMessage, IsRecord, MessageFields
<1>5. SameMessage(w, m)
  BY <1>2, <1>3 DEF SameMessage, MessageFields, HeaderFields
<1>6. CarriesSignature(w, items, params, value)
  BY <1>2, <1>3 DEF CarriesSignature, sig, inp
<1>7. QED
  BY <1>1, <1>4, <1>5, <1>6

\* What a verifier reads of it: the list, the parameters and the value that were put there.
LEMMA SignatureReads ==
  ASSUME NEW m, NEW items, NEW params, NEW value, CarriesSignature(m, items, params, value)
  PROVE  ItemsOf(m) = items /\ ParamsOf(m) = params /\ Signature(m) = value
<1> DEFINE inputs == [shape |-> "dict",
                      members |-> <<[label |-> "sig", list |-> TRUE, items |-> items, params |-> params]>>]
           sigs == [shape |-> "dict",
                    members |-> <<[label |-> "sig", bytes |-> TRUE, full |-> TRUE, value |-> value]>>]
<1>1. The(m.headers.input) = inputs /\ The(m.headers.signature) = sigs
  BY DEF CarriesSignature, The
<1>2. QED
  BY <1>1 DEF ItemsOf, ParamsOf, Signature, Inner

\* A field that is one record is there, and is that record.
LEMMA SignatureIsRead ==
  ASSUME NEW m, NEW items, NEW params, NEW value, NEW p,
         CarriesSignature(m, items, params, value),
         \A i \in DOMAIN items : ~BadlyNamed(items[i]),
         params.keyid # {}, params.created # {}, ~params.bad
  PROVE  ReadRefusal(m, p) = None
<1> DEFINE member == [label |-> "sig", list |-> TRUE, items |-> items, params |-> params]
           inputs == [shape |-> "dict", members |-> <<member>>]
           single == [label |-> "sig", bytes |-> TRUE, full |-> TRUE, value |-> value]
           sigs == [shape |-> "dict", members |-> <<single>>]
<1>1. The(m.headers.input) = inputs /\ The(m.headers.signature) = sigs
  BY DEF CarriesSignature, The
<1>2. InputMemberRefusal(member, p) = None
  BY DEF InputMemberRefusal
<1>3. InputsRefusal(inputs, p) = None
  <2>1. inputs.shape = "dict" /\ DOMAIN inputs.members = {1} /\ inputs.members[1] = member
    OBVIOUS
  <2>2. \A i \in DOMAIN inputs.members : InputMemberRefusal(inputs.members[i], p) = None
    BY <1>2, <2>1
  <2> HIDE DEF inputs
  <2>3. QED
    BY <2>1, <2>2 DEF InputsRefusal, FirstRefusal
<1>4. PairRefusal(sigs, inputs) = None
  BY DEF PairRefusal
<1>5. SignatureParses(sigs)
  BY DEF SignatureParses
<1>6. ~Missing(m.headers.signature) /\ ~Missing(m.headers.input)
  BY DEF CarriesSignature, Missing
<1>7. QED
  BY <1>1, <1>3, <1>4, <1>5, <1>6 DEF ReadRefusal, ??

-------------------------------------------------------------------------------
(* What the two sides refuse.                                              *)

\* A list has its lines when each of its components has a value (lines_for).
LEMMA LinesAllThere ==
  ASSUME NEW items, DOMAIN items \subseteq Nat, NEW m, NEW received
  PROVE  LinesRefusal(items, m, received) = None <=>
           \A i \in DOMAIN items : ItemRefusal(items[i], m, received) = None
<1> DEFINE f == [i \in DOMAIN items |-> ItemRefusal(items[i], m, received)]
<1>1. LinesRefusal(items, m, received) = FirstRefusal(f) /\ DOMAIN f \subseteq Nat
  BY DEF LinesRefusal
<1>2. \A i \in DOMAIN items : f[i] = ItemRefusal(items[i], m, received)
  OBVIOUS
<1>3. DOMAIN f = DOMAIN items
  OBVIOUS
<1> HIDE DEF f
<1>4. FirstRefusal(f) = None <=> \A i \in DOMAIN f : f[i] = None
  BY <1>1, FirstRefusalCases
<1>5. QED
  BY <1>1, <1>2, <1>3, <1>4

\* What has no value for a signer has none for a verifier, though they name it differently.
LEMMA EitherSideRefuses ==
  ASSUME NEW name, NEW s
  PROVE  SubjectRefusal(name, s, FALSE) = None <=> SubjectRefusal(name, s, TRUE) = None
<1>1. Unreadable(TRUE) # None /\ Unreadable(FALSE) # None
  BY DEF Unreadable, None
<1>2. AuthorityRefusal(s, FALSE) = None <=> AuthorityRefusal(s, TRUE) = None
  BY <1>1 DEF AuthorityRefusal
<1>3. CASE name \in {"@status", "@method"}
  BY <1>3 DEF SubjectRefusal
<1>4. CASE name = "@authority"
  BY <1>2, <1>4 DEF SubjectRefusal
<1>5. CASE name = "@path"
  BY <1>1, <1>5 DEF SubjectRefusal
<1>6. CASE name = "@query"
  BY <1>1, <1>6 DEF SubjectRefusal
<1>7. CASE name \notin {"@status", "@method", "@authority", "@path", "@query"}
  BY <1>7 DEF SubjectRefusal
<1>8. QED
  BY <1>3, <1>4, <1>5, <1>6, <1>7

\* What a signing call refuses before a body is considered.
LEMMA SignCallRange ==
  ASSUME NEW d, TypedDraft(d)
  PROVE  SignCallRefusal(d) \in {None, "ValueError", "UnsupportedComponent"}
<1>1. SpecsRefusal(d) \in {None, "ValueError", "UnsupportedComponent"}
  <2>1. CASE d.covered = {}
    BY <2>1 DEF SpecsRefusal
  <2>2. CASE d.covered # {}
    <3> DEFINE list == The(d.covered)
               f == [i \in DOMAIN list |-> SpecRefusal(list[i])]
    <3>1. IsSequence(list)
      BY <2>2, TheOne DEF TypedDraft
    <3>2. DOMAIN f \subseteq Nat
      BY <3>1 DEF IsSequence
    <3>3. \A i \in DOMAIN f : f[i] \in {None, "ValueError", "UnsupportedComponent"}
      BY DEF SpecRefusal
    <3>4. SpecsRefusal(d) = FirstRefusal(f)
      BY <2>2 DEF SpecsRefusal
    <3> HIDE DEF f
    <3>5. QED
      BY <3>2, <3>3, <3>4, FirstRefusalCases
  <2>3. QED
    BY <2>1, <2>2
<1>2. QED
  BY <1>1, FlooredRange DEF SignCallRefusal, ??

\* Every way a signing call ends.
LEMMA SignRange ==
  ASSUME NEW d, TypedDraft(d)
  PROVE  SignRefusal(d) \in Refusals \cup {None, "UncoveredBody", "AttributeError"}
<1> DEFINE R == Refusals \cup {None, "UncoveredBody", "AttributeError"}
<1>1. SignCallRefusal(d) \in R
  BY SignCallRange DEF Refusals
<1>2. CoverBodyRefusal(d) \in R
  BY DEF CoverBodyRefusal, Refusals
<1>3. BindRequestRefusal(d) \in R
  BY DEF BindRequestRefusal
<1>4. SignMinimumRefusal(d) \in R
  BY DEF SignMinimumRefusal, Refusals
<1>5. RequestDigestRefusal(d) \in R
  BY DEF RequestDigestRefusal, ReadDigestRefusal, CompareDigestRefusal, ??, Refusals, PolicyRefusals
<1>6. BaseRefusal(d) \in R
  <2>1. LinesRefusal(ItemsSigned(d), Sending(d), FALSE) \in R
    BY ListSigned, LinesRefusals DEF Refusals
  <2>2. CheckCovered(ItemsSigned(d), d.m.response) \in R
    BY CoveredRefusals DEF Refusals
  <2>3. QED
    BY <2>1, <2>2 DEF BaseRefusal, ??, Refusals
<1> HIDE DEF R
<1>7. QED
  BY <1>1, <1>2, <1>3, <1>4, <1>5, <1>6 DEF SignRefusal, ??, R

\* A verification that no stage refuses accepts, and one that a stage refuses does not.
LEMMA AcceptedByAll ==
  ASSUME NEW m, NEW p, NEW answer_, NEW now
  PROVE  LET keyid == ParamsOf(m).keyid
         IN  Refusal(m, p, answer_, now) = None <=>
               /\ CallRefusal(m, p) = None /\ ReadRefusal(m, p) = None /\ CoverageRefusal(m, p) = None
               /\ KeyStageRefusal(m, p, answer_) = None
               /\ SignatureRefusal(m, KeyFor(keyid, p, answer_)) = None
               /\ AuthorityServedRefusal(m, p) = None
               /\ FreshnessRefusal(ParamsOf(m), p, now) = None
               /\ DigestRefusal(m) = None
BY DEF Refusal, ??

-------------------------------------------------------------------------------
(* What a call that signs has checked.                                     *)

\* A call that refuses nothing has passed each of its checks.
LEMMA PassedByAll ==
  ASSUME NEW d, SignRefusal(d) = None
  PROVE  /\ SignCallRefusal(d) = None /\ CoverBodyRefusal(d) = None /\ BindRequestRefusal(d) = None
         /\ SignMinimumRefusal(d) = None /\ RequestDigestRefusal(d) = None /\ BaseRefusal(d) = None
BY DEF SignRefusal, ??

\* Every component is named as a verifier takes it: in lower case, and by a string.
LEMMA NamedWell ==
  ASSUME NEW d, TypedDraft(d)
  PROVE  \A i \in DOMAIN ItemsSigned(d) : ~BadlyNamed(ItemsSigned(d)[i])
<1>1. ASSUME NEW item \in ElementsOf(DefaultItems(d.m)) \cup {Item(ContentDigest), Req(ContentDigest)}
      PROVE  ~BadlyNamed(item)
  BY DEF DefaultItems, DefaultCovered, ElementsOf, Item, Req, ContentDigest, BadlyNamed, AsciiLower
<1>2. ASSUME NEW spec, TypedSpec(spec)
      PROVE  ~BadlyNamed(Component(spec))
  <2>1. Component(spec).name = AsciiLower(spec.name) /\ spec.name # "42"
    BY <1>2 DEF Component, TypedSpec, IsRecord
  <2>2. QED
    BY <2>1 DEF BadlyNamed, AsciiLower
<1>3. ASSUME NEW item \in ElementsOf(Named(d))
      PROVE  ~BadlyNamed(item)
  <2>1. CASE d.covered = {}
    BY <1>1, <1>3, <2>1 DEF Named
  <2>2. CASE d.covered # {}
    <3>1. The(d.covered) \in d.covered
      BY <2>2, TheOne DEF TypedDraft
    <3>2. \A i \in DOMAIN The(d.covered) : TypedSpec(The(d.covered)[i])
      BY <3>1 DEF TypedDraft
    <3>3. PICK i \in DOMAIN The(d.covered) : item = Component(The(d.covered)[i])
      BY <1>3, <2>2 DEF Named, ElementsOf
    <3>4. QED
      BY <1>2, <3>2, <3>3
  <2>3. QED
    BY <2>1, <2>2
<1>4. \A item \in ElementsOf(ItemsSigned(d)) : ~BadlyNamed(item)
  BY <1>1, <1>3, ListSigned
<1>5. QED
  BY <1>4 DEF ElementsOf

\* A call that covered the body it was given covers it, and the default lists cover the
\* default minimums.
LEMMA CoversWhatItSends ==
  ASSUME NEW d, TypedDraft(d), SignRefusal(d) = None
  PROVE  /\ d.m.body # {} => CoversBody(ItemsSigned(d))
         /\ d.covered = {} /\ RequestHadBody(d.m) => BindsRequestDigest(ItemsSigned(d))
         /\ d.covered = {} /\ (d.m.response => d.m.request # {}) =>
              (IF d.m.response THEN ResponseMinimum ELSE DefaultMinimum) \subseteq ElementsOf(ItemsSigned(d))
<1>1. d.m.body # {} => CoversBody(ItemsSigned(d))
  BY PassedByAll, ListSigned DEF CoverBodyRefusal, None
<1>2. d.covered = {} /\ RequestHadBody(d.m) => BindsRequestDigest(ItemsSigned(d))
  BY ListSigned DEF BindsRequestDigest
<1>3. ASSUME d.covered = {}, d.m.response => d.m.request # {}
      PROVE  (IF d.m.response THEN ResponseMinimum ELSE DefaultMinimum) \subseteq ElementsOf(ItemsSigned(d))
  <2>1. ElementsOf(DefaultItems(d.m)) \subseteq ElementsOf(ItemsSigned(d))
    BY <1>3, ListSigned DEF Named
  <2>2. \A a, b, c, e : ElementsOf(<<a, b, c, e>>) = {a, b, c, e}
    <3>1. \A a, b, c, e : DOMAIN <<a, b, c, e>> = {1, 2, 3, 4}
      OBVIOUS
    <3>2. QED
      BY <3>1 DEF ElementsOf
  <2>3. (IF d.m.response THEN ResponseMinimum ELSE DefaultMinimum) \subseteq ElementsOf(DefaultItems(d.m))
    <3>1. CASE d.m.response
      BY <1>3, <2>2, <3>1 DEF DefaultItems, ResponseMinimum
    <3>2. CASE ~d.m.response
      BY <1>3, <2>2, <3>2 DEF DefaultItems, DefaultCovered, DefaultMinimum
    <3>3. QED
      BY <3>1, <3>2
  <2>4. QED
    BY <2>1, <2>3
<1>4. QED
  BY <1>1, <1>2, <1>3
===============================================================================
