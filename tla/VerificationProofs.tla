--------------------------- MODULE VerificationProofs ---------------------------
(***************************************************************************)
(* Lemmas about the operators of Verification and Section9Rules, for every *)
(* message, policy, answer and clock: what each stage of a verification    *)
(* can say, what a message that reads holds, and that the stages, run in   *)
(* order, give the one code section 9 gives.                               *)
(***************************************************************************)
EXTENDS Section9Rules, FiniteSetTheorems, WellFoundedInduction, TLAPS

-------------------------------------------------------------------------------
(* What the stages can say *)

\* A nonempty set of naturals has a least element.
LEMMA LeastNatural ==
  ASSUME NEW T, T \subseteq Nat, T # {}
  PROVE  \E x \in T : \A y \in T : ~(y < x)
<1> DEFINE Less == {p \in Nat \X Nat : p[1] < p[2]}
<1>1. IsWellFoundedOn(Less, Nat)
  BY NatLessThanWellFounded, Zenon DEF OpToRel
<1>2. PICK x \in T : \A y \in T : ~ (<<y, x>> \in Less)
  BY <1>1, WFMin, Zenon
<1>3. QED
  BY <1>2

\* FirstRefusal refuses nothing only if no element does, and otherwise returns
\* the refusal of one that does.
LEMMA FirstRefusalCases ==
  ASSUME NEW f, DOMAIN f \subseteq Nat
  PROVE  \/ FirstRefusal(f) = None /\ \A i \in DOMAIN f : f[i] = None
         \/ \E i \in DOMAIN f : FirstRefusal(f) = f[i] /\ f[i] # None
<1>1. CASE \A i \in DOMAIN f : f[i] = None
  BY <1>1 DEF FirstRefusal
<1>2. CASE ~ \A i \in DOMAIN f : f[i] = None
  <2> DEFINE T == {i \in DOMAIN f : f[i] # None}
             c == CHOOSE i \in DOMAIN f :
                    /\ f[i] # None
                    /\ \A j \in DOMAIN f : j < i => f[j] = None
  <2>1. PICK x \in T : \A y \in T : ~(y < x)
    BY <1>2, LeastNatural
  <2>2. x \in DOMAIN f /\ f[x] # None /\ \A j \in DOMAIN f : j < x => f[j] = None
    BY <2>1
  <2>3. c \in DOMAIN f /\ f[c] # None
    BY <2>2
  <2>4. FirstRefusal(f) = f[c]
    BY <1>2 DEF FirstRefusal
  <2>5. QED
    BY <2>3, <2>4
<1>3. QED
  BY <1>1, <1>2

\* What the checks before the signature is verified can say: never that the
\* message is stale, expired or of another body.
Early == (Refusals \ PolicyRefusals) \cup {None}

\* A minimum is refused for what it lacks, or for a spelling in it; a minimum whose
\* spellings all parse is refused as a mistake, if at all (_floored).
LEMMA FlooredRange ==
  ASSUME NEW minimum, NEW floor
  PROVE  /\ FlooredRefusal(minimum, floor) \in {None, "ValueError", "UnsupportedComponent"}
         /\ (\A spec \in UNION minimum : spec.name # Unparsed)
              => FlooredRefusal(minimum, floor) \in {None, "ValueError"}
BY DEF FlooredRefusal, SpecRefusal, None

\* Nothing wrong with the arguments of a call is reported as a fault of the clock or the body.
LEMMA CallRange ==
  ASSUME NEW m, NEW p
  PROVE  CallRefusal(m, p) \in Early
<1>1. RequestCallRefusal(m, p) \in Early
  BY FlooredRange DEF RequestCallRefusal, ??, Early, Refusals, PolicyRefusals, None
<1>2. ResponseCallRefusal(m, p) \in Early
  BY FlooredRange DEF ResponseCallRefusal, ??, Early, Refusals, PolicyRefusals, None
<1>3. QED
  BY <1>1, <1>2 DEF CallRefusal

\* A Signature-Input member is refused with an early code, or not at all.
LEMMA InputMemberRange ==
  ASSUME NEW member, NEW p
  PROVE  InputMemberRefusal(member, p) \in Early
BY DEF InputMemberRefusal, Early, Refusals, PolicyRefusals, None

\* Reading the two headers (_read) ends in an early code, or in none.
LEMMA ReadRange ==
  ASSUME NEW c, TypedCall(c)
  PROVE  ReadRefusal(c.msg, c.policy) \in Early
<1> DEFINE m == c.msg
           p == c.policy
           inputs == The(m.headers.input)
           sigs == The(m.headers.signature)
<1>1. CASE Missing(m.headers.input)
  BY <1>1 DEF ReadRefusal, Early, Refusals, PolicyRefusals, None
<1>2. CASE ~Missing(m.headers.input)
  <2>1. inputs \in m.headers.input
    BY <1>2 DEF Missing, The
  <2>2. DOMAIN inputs.members \subseteq Nat
    BY <2>1, TypedCall(c) DEF IsSequence, TypedCall, TypedHeaders
  <2> DEFINE f == [i \in DOMAIN inputs.members |-> InputMemberRefusal(inputs.members[i], p)]
  <2>3. FirstRefusal(f) \in Early
    <3>1. DOMAIN f \subseteq Nat /\ \A i \in DOMAIN f : f[i] \in Early
      BY <2>2, InputMemberRange
    <3>2. None \in Early
      BY DEF Early
    <3> HIDE DEF f
    <3>3. QED
      BY <3>1, <3>2, FirstRefusalCases
  <2>4. InputsRefusal(inputs, p) \in Early
    BY <2>3 DEF InputsRefusal, Early, Refusals, PolicyRefusals, None
  <2>5. PairRefusal(sigs, inputs) \in Early
    BY DEF PairRefusal, Early, Refusals, PolicyRefusals, None
  <2>6. QED
    BY <2>4, <2>5 DEF ReadRefusal, ??, Early, Refusals, PolicyRefusals, None
<1>3. QED
  BY <1>1, <1>2

\* So does measuring the covered list against the minimum ...
LEMMA CoverageRange ==
  ASSUME NEW m, NEW p
  PROVE  CoverageRefusal(m, p) \in Early
BY DEF CoverageRefusal, CheckCovered, ??, Early, Refusals, PolicyRefusals, None

\* ... settling the key, by any of its four checks ...
LEMMA KeyRange ==
  ASSUME NEW keyid, NEW p, NEW answer_, NEW params
  PROVE  /\ LocalKeyRefusal(keyid, p) \in Early
         /\ UnexpectedKeyidRefusal(keyid, p) \in Early
         /\ ResolvedRefusal(answer_) \in Early
         /\ AlgorithmRefusal(params) \in Early
BY DEF LocalKeyRefusal, UnexpectedKeyidRefusal, ResolvedRefusal, AlgorithmRefusal, KeyRefusal,
       Early, Refusals, PolicyRefusals, None

\* ... reading the value of one component of a received message (value_of) ...
LEMMA ItemRange ==
  ASSUME NEW item, NEW m
  PROVE  ItemRefusal(item, m, TRUE) \in Early
<1>1. \A name, headers : FieldRefusal(name, headers) \in Early
  BY DEF FieldRefusal, Early, Refusals, PolicyRefusals, None
<1>2. \A s : AuthorityRefusal(s, TRUE) \in Early
  BY DEF AuthorityRefusal, Unreadable, Early, Refusals, PolicyRefusals, None
<1>3. ASSUME NEW name, NEW s
      PROVE  SubjectRefusal(name, s, TRUE) \in Early
  <2>1. CASE name \in {"@status", "@method", "@path", "@query"}
    <3>1. CASE name = "@status"
      BY <3>1 DEF SubjectRefusal, Early, Refusals, PolicyRefusals, None
    <3>2. CASE name = "@method"
      BY <3>2 DEF SubjectRefusal, Early, Refusals, PolicyRefusals, None
    <3>3. CASE name = "@path"
      BY <3>3 DEF SubjectRefusal, Unreadable, Early, Refusals, PolicyRefusals, None
    <3>4. CASE name = "@query"
      BY <3>4 DEF SubjectRefusal, Unreadable, Early, Refusals, PolicyRefusals, None
    <3>5. QED
      BY <2>1, <3>1, <3>2, <3>3, <3>4
  <2>2. CASE name = "@authority"
    BY <2>2, <1>2 DEF SubjectRefusal
  <2>3. CASE name \notin {"@status", "@method", "@path", "@query", "@authority"}
    BY <2>3, <1>1 DEF SubjectRefusal
  <2>4. QED
    BY <2>1, <2>2, <2>3
<1>4. QED
  BY <1>3 DEF ItemRefusal, Early, Refusals, PolicyRefusals, None

\* ... and of all of them, in the order the covered list names them (lines_for).
LEMMA LinesRange ==
  ASSUME NEW m, NEW items, DOMAIN items \subseteq Nat
  PROVE  LinesRefusal(items, m, TRUE) \in Early
<1> DEFINE f == [i \in DOMAIN items |-> ItemRefusal(items[i], m, TRUE)]
<1>1. DOMAIN f \subseteq Nat /\ \A i \in DOMAIN f : f[i] \in Early
  BY ItemRange
<1>2. None \in Early
  BY DEF Early
<1>3. LinesRefusal(items, m, TRUE) = FirstRefusal(f)
  BY DEF LinesRefusal
<1> HIDE DEF f
<1>4. QED
  BY <1>1, <1>2, <1>3, FirstRefusalCases

\* What a message that reads holds: one inner list, of a sequence of items, with
\* at most one of each parameter.
LEMMA ReadGives ==
  ASSUME NEW c, TypedCall(c), ReadRefusal(c.msg, c.policy) = None
  PROVE  /\ DOMAIN ItemsOf(c.msg) \subseteq Nat
         /\ IsSequence(ItemsOf(c.msg))
         /\ \A j \in DOMAIN ItemsOf(c.msg) : ItemsOf(c.msg)[j].params \subseteq {"req", "other"}
         /\ OneOf(ParamsOf(c.msg).keyid, Keyids)
         /\ OneOf(ParamsOf(c.msg).created, Int)
         /\ OneOf(ParamsOf(c.msg).expires, Int)
<1> DEFINE m == c.msg
           f == The(m.headers.input)
<1>1. f \in m.headers.input
  BY DEF ReadRefusal, Missing, The, None
<1>2. Len(f.members) = 1
  BY DEF ReadRefusal, ??, PairRefusal, None
<1>3. f.members \in Seq(ElementsOf(f.members))
  BY <1>1, TypedCall(c) DEF IsSequence, TypedCall, TypedHeaders
<1>4. 1 \in DOMAIN f.members
  BY <1>2, <1>3
<1>5. /\ IsSequence(f.members[1].items)
      /\ \A j \in DOMAIN f.members[1].items : f.members[1].items[j].params \subseteq {"req", "other"}
      /\ OneOf(f.members[1].params.keyid, Keyids)
      /\ OneOf(f.members[1].params.created, Int)
      /\ OneOf(f.members[1].params.expires, Int)
  BY <1>1, <1>4 DEF TypedCall, TypedHeaders
<1>6. Inner(m) = f.members[1]
  BY DEF Inner
<1>7. DOMAIN ItemsOf(m) \subseteq Nat
  <2>1. ItemsOf(m) \in Seq(ElementsOf(ItemsOf(m)))
    BY <1>5, <1>6 DEF ItemsOf, IsSequence
  <2>2. DOMAIN ItemsOf(m) = 1..Len(ItemsOf(m)) /\ Len(ItemsOf(m)) \in Nat
    BY <2>1
  <2>3. QED
    BY <2>2
<1>8. QED
  BY <1>5, <1>6, <1>7 DEF ItemsOf, ParamsOf

\* Building the base and verifying the signature, once the headers were read, ends in
\* an early code, or in none ...
LEMMA SignatureRange ==
  ASSUME NEW c, TypedCall(c), ReadRefusal(c.msg, c.policy) = None, NEW key
  PROVE  SignatureRefusal(c.msg, key) \in Early
<1>1. LinesRefusal(ItemsOf(c.msg), c.msg, TRUE) \in Early
  BY ReadGives, LinesRange
<1>2. "SignatureMismatch" \in Early /\ None \in Early
  BY DEF Early, Refusals, PolicyRefusals
<1>3. QED
  BY <1>1, <1>2 DEF SignatureRefusal, ??

\* ... and so does comparing the authorities that were signed with those served.
LEMMA ServedRange ==
  ASSUME NEW m, NEW p
  PROVE  AuthorityServedRefusal(m, p) \in Early
BY DEF AuthorityServedRefusal, Early, Refusals, PolicyRefusals, None

\* The window and the digests may also say that a message is stale, expired or of
\* another body, and nothing outside the codes there are.
LEMMA PolicyRange ==
  ASSUME NEW params, NEW p, NEW now, NEW m
  PROVE  /\ FreshnessRefusal(params, p, now) \in Refusals \cup {None}
         /\ DigestRefusal(m) \in Refusals \cup {None}
BY DEF FreshnessRefusal, DigestRefusal, Refusals, PolicyRefusals, None

\* A lookup answers with one of the answers a resolver may give.
LEMMA LookupAnswers ==
  ASSUME NEW state \in [Ids -> Answers], NEW keyid \in Keyids, WellFormedAid(keyid)
  PROVE  Lookup(state, keyid) \in Answers
<1>1. keyid.id \in Keys \cup Ids
  BY DEF WellFormedAid, Keyids, RawKeyid, Aid, GarbledKeyid, EmptyKeyid
<1>2. CASE keyid.id \in Ids
  BY <1>2 DEF Lookup
<1>3. CASE keyid.id \notin Ids
  BY <1>1, <1>3 DEF Lookup, Answers, Opt
<1>4. QED
  BY <1>2, <1>3

\* What a lookup would say of a call's keyid is an answer too, in any key state and
\* when the call has no keyid to look up.
LEMMA LookupNowAnswers ==
  ASSUME NEW c, TypedCall(c), NEW state \in [Ids -> Answers]
  PROVE  LookupNow(c, state) \in Answers
<1>1. {} \in Answers
  BY DEF Answers, Opt
<1>2. CASE ReadRefusal(c.msg, c.policy) = None
  <2> DEFINE k == ParamsOf(c.msg).keyid
             said(x) == IF WellFormedAid(x) THEN Lookup(state, x) ELSE {}
  <2>1. k = {} \/ \E x \in Keyids : k = {x}
    BY <1>2, ReadGives DEF OneOf, AtMostOne
  <2>2. CASE k = {}
    <3>1. UNION {said(x) : x \in k} = {}
      BY <2>2
    <3>2. QED
      BY <3>1, <1>1, <1>2 DEF LookupNow
  <2>3. ASSUME NEW x \in Keyids, k = {x}
        PROVE  LookupNow(c, state) \in Answers
    <3>1. UNION {said(y) : y \in k} = said(x)
      BY <2>3
    <3>2. said(x) \in Answers
      BY <1>1, LookupAnswers
    <3>3. QED
      BY <3>1, <3>2, <1>2 DEF LookupNow
  <2>4. QED
    BY <2>1, <2>2, <2>3
<1>3. CASE ReadRefusal(c.msg, c.policy) # None
  BY <1>1, <1>3 DEF LookupNow
<1>4. QED
  BY <1>2, <1>3

\* A keyid that passed its local check under a resolver is one well-formed AID, and what
\* the resolver says of it is what a lookup says.
LEMMA AskedKeyid ==
  ASSUME NEW c, TypedCall(c), c.policy.resolving,
         CallRefusal(c.msg, c.policy) = None, ReadRefusal(c.msg, c.policy) = None,
         LocalKeyRefusal(ParamsOf(c.msg).keyid, c.policy) = None
  PROVE  /\ ParamsOf(c.msg).keyid = {The(ParamsOf(c.msg).keyid)}
         /\ The(ParamsOf(c.msg).keyid) \in Keyids
         /\ WellFormedAid(The(ParamsOf(c.msg).keyid))
         /\ \A state : LookupNow(c, state) = Lookup(state, The(ParamsOf(c.msg).keyid))
<1> DEFINE keyid == ParamsOf(c.msg).keyid
           k == The(keyid)
<1>1. c.policy.expectedAid = {}
  BY DEF CallRefusal, RequestCallRefusal, ResponseCallRefusal, ??, TwoKeySources, None
<1>2. OneOf(keyid, Keyids)
  BY ReadGives
<1>3. keyid # {} /\ WellFormedAid(k)
  BY <1>1 DEF LocalKeyRefusal, None
<1>4. PICK x \in Keyids : keyid = {x}
  BY <1>2, <1>3 DEF OneOf, AtMostOne
<1>5. k = x
  BY <1>4 DEF The
<1>6. ASSUME NEW state
      PROVE  LookupNow(c, state) = Lookup(state, k)
  <2> DEFINE said(y) == IF WellFormedAid(y) THEN Lookup(state, y) ELSE {}
  <2>1. LookupNow(c, state) = UNION {said(y) : y \in keyid}
    BY DEF LookupNow
  <2>2. {said(y) : y \in keyid} = {Lookup(state, x)}
    BY <1>3, <1>4, <1>5
  <2>3. QED
    BY <1>5, <2>1, <2>2
<1>7. QED
  BY <1>3, <1>4, <1>5, <1>6

-------------------------------------------------------------------------------
(* The one correct code *)

\* The i-th rule is met by a call, for an answer of its resolver and a clock ...
MetAt(i, c, said, now) == Met(Rules[i][1], c.msg, c.policy, said, now)

\* ... and none of the first n is.
Clear(n, c, said, now) == \A j \in 1..n : ~MetAt(j, c, said, now)

\* A stage that refuses reports the first rule met, and one that does not leaves
\* the first n unmet.
Reports(refusal, n, c, said, now) ==
    IF refusal = None THEN Clear(n, c, said, now)
    ELSE \E i \in 1..n : /\ Clear(i - 1, c, said, now) /\ MetAt(i, c, said, now)
                         /\ CodeOf(refusal) = Rules[i][2]

LEMMA RulesCount == Len(Rules) = 25
BY DEF Rules

\* One more rule is unmet.
LEMMA ClearNext ==
  ASSUME NEW c, NEW said, NEW now, NEW i \in 1..25,
         Clear(i - 1, c, said, now), ~MetAt(i, c, said, now)
  PROVE  Clear(i, c, said, now)
BY DEF Clear

\* A refusal for the first rule met.
LEMMA ReportsFirst ==
  ASSUME NEW c, NEW said, NEW now, NEW n \in 1..25, NEW i \in 1..n, NEW refusal,
         Clear(i - 1, c, said, now), MetAt(i, c, said, now),
         refusal # None, CodeOf(refusal) = Rules[i][2]
  PROVE  Reports(refusal, n, c, said, now)
BY DEF Reports

\* Two stages in order report what one would.
LEMMA ReportsThen ==
  ASSUME NEW c, NEW said, NEW now, NEW n \in 1..25, NEW k \in 1..n, NEW r, NEW s,
         Reports(r, k, c, said, now),
         r = None /\ Clear(k, c, said, now) => Reports(s, n, c, said, now)
  PROVE  Reports(r ?? s, n, c, said, now)
<1>1. CASE r = None
  BY <1>1 DEF Reports, ??
<1>2. CASE r # None
  BY <1>2 DEF Reports, ??
<1>3. QED
  BY <1>1, <1>2

\* The code of the first rule met is the code of the call, unless it is an unsigned 401 ...
LEMMA FirstMet ==
  ASSUME NEW c, NEW said, NEW now, NEW i \in 1..25,
         Clear(i - 1, c, said, now), MetAt(i, c, said, now),
         ~(c.msg.response /\ CallRefusal(c.msg, c.policy) = "Unauthenticated")
  PROVE  Code(c.msg, c.policy, said, now) = Rules[i][2]
<1> DEFINE Q(x) == /\ x <= Len(Rules) => MetAt(x, c, said, now)
                   /\ \A j \in 1..(x - 1) : ~MetAt(j, c, said, now)
           first == CHOOSE x \in 1..(Len(Rules) + 1) : Q(x)
<1>1. Q(i) /\ i \in 1..(Len(Rules) + 1)
  BY RulesCount DEF Clear
<1>2. first \in 1..(Len(Rules) + 1) /\ Q(first)
  BY <1>1
<1>3. ASSUME NEW x \in 1..26, Q(x) PROVE x = i
  BY <1>3, RulesCount DEF Clear
<1>4. first = i
  BY <1>2, <1>3, RulesCount
<1>5. Code(c.msg, c.policy, said, now) = IF first > Len(Rules) THEN "accepted" ELSE Rules[first][2]
  BY DEF Code, MetAt
<1>6. QED
  BY <1>4, <1>5, RulesCount

\* ... and a call that meets no rule is accepted.
LEMMA NoneMet ==
  ASSUME NEW c, NEW said, NEW now, Clear(25, c, said, now),
         ~(c.msg.response /\ CallRefusal(c.msg, c.policy) = "Unauthenticated")
  PROVE  Code(c.msg, c.policy, said, now) = "accepted"
<1> DEFINE Q(x) == /\ x <= Len(Rules) => MetAt(x, c, said, now)
                   /\ \A j \in 1..(x - 1) : ~MetAt(j, c, said, now)
           first == CHOOSE x \in 1..(Len(Rules) + 1) : Q(x)
<1>1. Q(26) /\ 26 \in 1..(Len(Rules) + 1)
  BY RulesCount DEF Clear
<1>2. first \in 1..(Len(Rules) + 1) /\ Q(first)
  BY <1>1
<1>3. ASSUME NEW x \in 1..26, Q(x) PROVE x = 26
  BY <1>3, RulesCount DEF Clear
<1>4. first = 26
  BY <1>2, <1>3, RulesCount
<1>5. Code(c.msg, c.policy, said, now) = IF first > Len(Rules) THEN "accepted" ELSE Rules[first][2]
  BY DEF Code, MetAt
<1>6. QED
  BY <1>4, <1>5, RulesCount

\* What each rule asks, and what it reports.
LEMMA RulesMet ==
  ASSUME NEW c, NEW said, NEW now
  PROVE  /\ (MetAt(1, c, said, now) <=> CallRefusal(c.msg, c.policy) # None) /\ Rules[1][2] = "mistake"
         /\ MetAt(2, c, said, now) = Unsigned(c.msg) /\ Rules[2][2] = "missing-signature"
         /\ MetAt(3, c, said, now) = NoInput(c.msg) /\ Rules[3][2] = "missing-signature-input"
         /\ MetAt(4, c, said, now) = SignatureUnreadable(c.msg) /\ Rules[4][2] = "malformed-signature"
         /\ MetAt(5, c, said, now) = InputUnreadable(c.msg, c.policy)
         /\ Rules[5][2] = "malformed-signature-input"
         /\ MetAt(6, c, said, now) = NotOneLabel(c.msg) /\ Rules[6][2] = "malformed-signature-label"
         /\ MetAt(7, c, said, now) = LabelsDiffer(c.msg) /\ Rules[7][2] = "missing-signature-label"
         /\ MetAt(8, c, said, now) = ValueShort(c.msg) /\ Rules[8][2] = "malformed-signature-value"
         /\ MetAt(9, c, said, now) = CoversTwice(c.msg) /\ Rules[9][2] = "duplicate-component"
         /\ MetAt(10, c, said, now) = CoversUnsupported(c.msg) /\ Rules[10][2] = "unsupported-component"
         /\ MetAt(11, c, said, now) = MinimumUncovered(c.msg, c.policy)
         /\ Rules[11][2] = "insufficient-coverage"
         /\ MetAt(12, c, said, now) = KeyidMalformed(c.msg, c.policy) /\ Rules[12][2] = "malformed-key"
         /\ MetAt(13, c, said, now) = KeyidUnexpected(c.msg, c.policy) /\ Rules[13][2] = "unknown-key"
         /\ MetAt(14, c, said, now) = (c.policy.resolving /\ said = {}) /\ Rules[14][2] = "unknown-key"
         /\ MetAt(15, c, said, now) = (c.policy.resolving /\ said = {"UnsupportedSigner"})
         /\ Rules[15][2] = "unsupported-signer"
         /\ MetAt(16, c, said, now) = (c.policy.resolving /\ ~(said \subseteq SoundKeys))
         /\ Rules[16][2] = "malformed-key"
         /\ MetAt(17, c, said, now) = AlgorithmUnsupported(c.msg) /\ Rules[17][2] = "unsupported-algorithm"
         /\ MetAt(18, c, said, now) = CoversMissing(c.msg) /\ Rules[18][2] = "missing-component"
         /\ MetAt(19, c, said, now) = NotSigned(c.msg, c.policy, said) /\ Rules[19][2] = "signature-mismatch"
         /\ MetAt(20, c, said, now) = NotServed(c.msg, c.policy) /\ Rules[20][2] = "signature-mismatch"
         /\ MetAt(21, c, said, now) = Stale(c.msg, c.policy, now) /\ Rules[21][2] = "signature-stale"
         /\ MetAt(22, c, said, now) = Expired(c.msg, c.policy, now) /\ Rules[22][2] = "signature-expired"
         /\ MetAt(23, c, said, now) = RequestBodyWithheld(c.msg) /\ Rules[23][2] = "mistake"
         /\ MetAt(24, c, said, now) = DigestMalformed(c.msg) /\ Rules[24][2] = "malformed-digest"
         /\ MetAt(25, c, said, now) = DigestMismatched(c.msg) /\ Rules[25][2] = "digest-mismatch"
BY DEF MetAt, Met, Rules

\* The codes of the classes that are not spelled as the code is.
LEMMA Codes ==
    /\ CodeOf("MissingSignature") = "missing-signature"
    /\ CodeOf("MissingSignatureInput") = "missing-signature-input"
    /\ CodeOf("MalformedSignature") = "malformed-signature"
    /\ CodeOf("MalformedSignatureInput") = "malformed-signature-input"
    /\ CodeOf("MissingKey") = "malformed-signature-input"
    /\ CodeOf("MalformedSignatureLabel") = "malformed-signature-label"
    /\ CodeOf("MissingSignatureLabel") = "missing-signature-label"
    /\ CodeOf("MalformedSignatureValue") = "malformed-signature-value"
    /\ CodeOf("DuplicateComponent") = "duplicate-component"
    /\ CodeOf("UnsupportedComponent") = "unsupported-component"
    /\ CodeOf("InsufficientCoverage") = "insufficient-coverage"
    /\ CodeOf("MalformedKey") = "malformed-key"
    /\ CodeOf("UnknownKey") = "unknown-key"
    /\ CodeOf("UnsupportedSigner") = "unsupported-signer"
    /\ CodeOf("UnsupportedAlgorithm") = "unsupported-algorithm"
    /\ CodeOf("MissingComponent") = "missing-component"
    /\ CodeOf("SignatureMismatch") = "signature-mismatch"
    /\ CodeOf("SignatureTooOld") = "signature-stale"
    /\ CodeOf("SignatureExpired") = "signature-expired"
    /\ CodeOf("MalformedDigest") = "malformed-digest"
    /\ CodeOf("DigestMismatch") = "digest-mismatch"
    /\ CodeOf("Unauthenticated") = "unauthenticated"
    /\ CodeOf("ValueError") = "mistake" /\ CodeOf("TypeError") = "mistake"
BY DEF CodeOf

\* A call that has not ended has no code, and one that accepts has its own.
LEMMA NoCodeYet == CodeOf(None) = None /\ CodeOf("accepted") = "accepted"
BY DEF CodeOf, None

\* A check that is made by one rule, once the rules before it are unmet.
LEMMA RuleReports ==
  ASSUME NEW c, NEW said, NEW now, NEW i \in 1..25, NEW refusal,
         Clear(i - 1, c, said, now),
         refusal = None <=> ~MetAt(i, c, said, now),
         refusal # None => CodeOf(refusal) = Rules[i][2]
  PROVE  Reports(refusal, i, c, said, now)
<1>1. CASE refusal = None
  BY <1>1, ClearNext DEF Reports
<1>2. CASE refusal # None
  BY <1>2, ReportsFirst
<1>3. QED
  BY <1>1, <1>2

\* The call.
LEMMA CallReports ==
  ASSUME NEW c, NEW said, NEW now, Undisputed(c), CallRefusal(c.msg, c.policy) # "Unauthenticated"
  PROVE  Reports(CallRefusal(c.msg, c.policy), 1, c, said, now)
<1>1. (MetAt(1, c, said, now) <=> CallRefusal(c.msg, c.policy) # None) /\ Rules[1][2] = "mistake"
  BY RulesMet
<1>2. CallRefusal(c.msg, c.policy) \in {"ValueError", "TypeError", None}
  <2>1. \A floor : FlooredRefusal(c.policy.minimum, floor) \in {None, "ValueError"}
    BY FlooredRange DEF Undisputed
  <2>2. RequestCallRefusal(c.msg, c.policy) \in {"ValueError", "TypeError", None}
    BY <2>1 DEF RequestCallRefusal, ??
  <2>3. ResponseCallRefusal(c.msg, c.policy) \in {"ValueError", "TypeError", "Unauthenticated", None}
    BY <2>1 DEF ResponseCallRefusal, ??
  <2>4. QED
    BY <2>2, <2>3 DEF CallRefusal
<1>3. Clear(1 - 1, c, said, now)
  BY DEF Clear
<1>4. CallRefusal(c.msg, c.policy) # None => CodeOf(CallRefusal(c.msg, c.policy)) = "mistake"
  BY <1>2, Codes
<1>5. QED
  BY <1>1, <1>3, <1>4, RuleReports

\* A member of the parsed Signature-Input that the code refuses, section 9 calls unreadable.
LEMMA UnreadableMember ==
  ASSUME NEW s, NEW p
  PROVE  /\ InputMemberRefusal(s, p) = None <=> ~MemberUnreadable(s, p)
         /\ InputMemberRefusal(s, p) \in {None, "MalformedSignatureInput", "MissingKey"}
<1>1. (\E i \in DOMAIN s.items : BadlyNamed(s.items[i]))
        <=> \E i \in ElementsOf(s.items) : i.name \in {"42", "X-Field"}
  BY DEF BadlyNamed, AsciiLower, ElementsOf
<1>2. ParameterMissing(s.params, p)
        <=> \/ RequireKeyid(p) /\ s.params.keyid = {}
            \/ RequireCreated(p) /\ s.params.created = {}
  BY DEF ParameterMissing, RequireKeyid, RequireCreated
<1>3. QED
  BY <1>1, <1>2 DEF InputMemberRefusal, MemberUnreadable, None

\* The whole Signature-Input.
LEMMA UnreadableInput ==
  ASSUME NEW f, NEW p, DOMAIN f.members \subseteq Nat
  PROVE  /\ InputsRefusal(f, p) = None
               <=> ~(f.shape # "dict" \/ \E s \in ElementsOf(f.members) : MemberUnreadable(s, p))
         /\ InputsRefusal(f, p) \in {None, "MalformedSignatureInput", "MissingKey"}
<1> DEFINE g == [i \in DOMAIN f.members |-> InputMemberRefusal(f.members[i], p)]
<1>1. /\ DOMAIN g \subseteq Nat
      /\ \A i \in DOMAIN g : g[i] \in {None, "MalformedSignatureInput", "MissingKey"}
  BY UnreadableMember
<1>2. (\E s \in ElementsOf(f.members) : MemberUnreadable(s, p)) <=> \E i \in DOMAIN g : g[i] # None
  BY UnreadableMember DEF ElementsOf
<1>3. InputsRefusal(f, p) = IF f.shape # "dict" THEN "MalformedSignatureInput" ELSE FirstRefusal(g)
  BY DEF InputsRefusal
<1> HIDE DEF g
<1>4. /\ FirstRefusal(g) = None <=> ~ \E i \in DOMAIN g : g[i] # None
      /\ FirstRefusal(g) \in {None, "MalformedSignatureInput", "MissingKey"}
  BY <1>1, FirstRefusalCases
<1>5. QED
  BY <1>2, <1>3, <1>4 DEF None

\* The two headers.
LEMMA ReadReports ==
  ASSUME NEW c, TypedCall(c), NEW said, NEW now, Clear(1, c, said, now)
  PROVE  Reports(ReadRefusal(c.msg, c.policy), 8, c, said, now)
<1> DEFINE m == c.msg
           p == c.policy
           sig == The(m.headers.signature)
           input == The(m.headers.input)
           R(refusal, i) == Reports(refusal, i, c, said, now)
           r2 == IF Missing(m.headers.signature) THEN "MissingSignature" ELSE None
           r3 == IF Missing(m.headers.input) THEN "MissingSignatureInput" ELSE None
           r4 == IF ~SignatureParses(sig) THEN "MalformedSignature" ELSE None
           r5 == InputsRefusal(input, p)
           r6 == IF Len(input.members) # 1 \/ Len(sig.members) # 1 THEN "MalformedSignatureLabel" ELSE None
           r7 == IF input.members[1].label # sig.members[1].label THEN "MissingSignatureLabel" ELSE None
           r8 == IF ~sig.members[1].full THEN "MalformedSignatureValue" ELSE None
<1>1. ReadRefusal(m, p) = r2 ?? (r3 ?? (r4 ?? (r5 ?? (r6 ?? (r7 ?? r8)))))
  <2>1. PairRefusal(sig, input) = r6 ?? (r7 ?? r8)
    BY DEF PairRefusal, ??, None
  <2>2. QED
    BY <2>1 DEF ReadRefusal, ??, None
<1>2. R(r2, 2)
  <2>1. MetAt(2, c, said, now) = Unsigned(m) /\ Rules[2][2] = "missing-signature"
    BY RulesMet
  <2>2. Unsigned(m) <=> r2 # None
    BY DEF Unsigned, Missing, None
  <2>3. QED
    BY <2>1, <2>2, RuleReports, Codes
<1>3. ASSUME Clear(2, c, said, now) PROVE R(r3, 3)
  <2>1. MetAt(3, c, said, now) = NoInput(m) /\ Rules[3][2] = "missing-signature-input"
    BY RulesMet
  <2>2. NoInput(m) <=> r3 # None
    BY DEF NoInput, Missing, None
  <2>3. QED
    BY <1>3, <2>1, <2>2, RuleReports, Codes
<1>4. ASSUME Clear(3, c, said, now) PROVE R(r4 ?? (r5 ?? (r6 ?? (r7 ?? r8))), 8)
  <2>1. m.headers.signature = {sig} /\ m.headers.input = {input}
    <3>1. ~MetAt(2, c, said, now) /\ ~MetAt(3, c, said, now)
      BY <1>4 DEF Clear
    <3>2. ~Unsigned(m) /\ ~NoInput(m)
      BY <3>1, RulesMet
    <3>3. AtMostOne(m.headers.signature) /\ AtMostOne(m.headers.input)
      BY DEF TypedCall, TypedHeaders
    <3>4. QED
      BY <3>2, <3>3 DEF Unsigned, NoInput, AtMostOne, The
  <2>2. DOMAIN input.members \subseteq Nat
    BY <2>1 DEF TypedCall, TypedHeaders, IsSequence
  <2>3. R(r4, 4)
    <3>1. MetAt(4, c, said, now) = SignatureUnreadable(m) /\ Rules[4][2] = "malformed-signature"
      BY RulesMet
    <3>2. SignatureUnreadable(m) <=> ~SignatureParses(sig)
      BY <2>1 DEF SignatureUnreadable, SignatureParses, ElementsOf
    <3>3. QED
      BY <1>4, <3>1, <3>2, RuleReports, Codes DEF None
  <2>4. ASSUME Clear(4, c, said, now) PROVE R(r5, 5)
    <3>1. MetAt(5, c, said, now) = InputUnreadable(m, p) /\ Rules[5][2] = "malformed-signature-input"
      BY RulesMet
    <3>2. InputUnreadable(m, p) <=> r5 # None
      BY <2>1, <2>2, UnreadableInput DEF InputUnreadable
    <3>3. r5 # None => CodeOf(r5) = "malformed-signature-input"
      BY <2>2, UnreadableInput, Codes
    <3>4. QED
      BY <2>4, <3>1, <3>2, <3>3, RuleReports
  <2>5. ASSUME Clear(5, c, said, now) PROVE R(r6, 6)
    <3>1. MetAt(6, c, said, now) = NotOneLabel(m) /\ Rules[6][2] = "malformed-signature-label"
      BY RulesMet
    <3>2. NotOneLabel(m) <=> r6 # None
      BY <2>1 DEF NotOneLabel, None
    <3>3. QED
      BY <2>5, <3>1, <3>2, RuleReports, Codes
  <2>6. ASSUME Clear(6, c, said, now) PROVE R(r7, 7)
    <3>1. MetAt(7, c, said, now) = LabelsDiffer(m) /\ Rules[7][2] = "missing-signature-label"
      BY RulesMet
    <3>2. LabelsDiffer(m) <=> r7 # None
      BY <2>1 DEF LabelsDiffer, None
    <3>3. QED
      BY <2>6, <3>1, <3>2, RuleReports, Codes
  <2>7. ASSUME Clear(7, c, said, now) PROVE R(r8, 8)
    <3>1. MetAt(8, c, said, now) = ValueShort(m) /\ Rules[8][2] = "malformed-signature-value"
      BY RulesMet
    <3>2. ValueShort(m) <=> r8 # None
      BY <2>1 DEF ValueShort, None
    <3>3. QED
      BY <2>7, <3>1, <3>2, RuleReports, Codes
  <2> HIDE DEF r4, r5, r6, r7, r8
  <2>8. ASSUME Clear(6, c, said, now) PROVE R(r7 ?? r8, 8)
    BY <2>6, <2>7, <2>8, ReportsThen
  <2>9. ASSUME Clear(5, c, said, now) PROVE R(r6 ?? (r7 ?? r8), 8)
    BY <2>5, <2>8, <2>9, ReportsThen
  <2>10. ASSUME Clear(4, c, said, now) PROVE R(r5 ?? (r6 ?? (r7 ?? r8)), 8)
    BY <2>4, <2>9, <2>10, ReportsThen
  <2>11. QED
    BY <2>3, <2>10, ReportsThen
<1> HIDE DEF r2, r3, r4, r5, r6, r7, r8
<1>5. ASSUME Clear(2, c, said, now)
      PROVE  R(r3 ?? (r4 ?? (r5 ?? (r6 ?? (r7 ?? r8)))), 8)
  BY <1>3, <1>4, <1>5, ReportsThen
<1>6. QED
  BY <1>1, <1>2, <1>5, ReportsThen

\* A list with two equal elements has fewer elements than places.
LEMMA FewerElements ==
  ASSUME NEW items, IsSequence(items)
  PROVE  NoDuplicate(items) <=> ~(Cardinality(ElementsOf(items)) < Len(items))
<1> DEFINE n == Len(items)
           E == ElementsOf(items)
<1>1. items \in [1..n -> E] /\ DOMAIN items = 1..n /\ n \in Nat
  BY DEF IsSequence
<1>2. items \in Surjection(1..n, E)
  BY <1>1 DEF Surjection, ElementsOf
<1>3. IsFiniteSet(1..n) /\ Cardinality(1..n) = n
  <2>1. 1 \in Int /\ n \in Int
    BY <1>1
  <2> HIDE DEF n
  <2>2. IsFiniteSet(1..n) /\ Cardinality(1..n) = IF 1 > n THEN 0 ELSE n - 1 + 1
    BY <2>1, FS_Interval
  <2>3. QED
    BY <1>1, <2>2
<1>4. /\ IsFiniteSet(E) /\ Cardinality(E) <= n
      /\ Cardinality(E) = n <=> items \in Injection(1..n, E)
  BY <1>2, <1>3, FS_Surjection
<1>5. Cardinality(E) \in Nat
  BY <1>4, FS_CardinalityType
<1>6. items \in Injection(1..n, E) <=> NoDuplicate(items)
  BY <1>1 DEF Injection, IsInjective, NoDuplicate
<1>7. QED
  BY <1>1, <1>4, <1>5, <1>6

\* What the code does not support, section 9 does not.
LEMMA UnsupportedItem ==
  ASSUME NEW i, NEW m, i.params \subseteq {"req", "other"}
  PROVE  Supported(i, m.response) <=> ~UnsupportedIn(i, m)
<1>1. CASE "other" \in i.params
  BY <1>1 DEF Supported, UnsupportedIn
<1>2. CASE "other" \notin i.params /\ "req" \in i.params
  BY <1>2 DEF Supported, UnsupportedIn, SupportedDerived, AtNames, Derived, ResponseDerived
<1>3. CASE "other" \notin i.params /\ "req" \notin i.params
  <2>1. i.params = {}
    BY <1>3
  <2>2. QED
    BY <1>3, <2>1 DEF Supported, UnsupportedIn, SupportedDerived, AtNames, Derived, ResponseDerived
<1>4. QED
  BY <1>1, <1>2, <1>3

\* The code's minimums leave uncovered what section 9's does.
LEMMA UncoveredMinimum ==
  ASSUME NEW m, NEW p, AtMostOne(m.headers.length)
  PROVE  MinimumUncovered(m, p)
           <=> \/ \E minimum \in p.minimum :
                    ~CoversMinimum(ItemsOf(m), minimum, HasBody(m), RequestHadBody(m))
               \/ p.authorities # {} /\ ~CoversMinimum(ItemsOf(m), {Item("@authority")}, FALSE, FALSE)
<1> DEFINE E == ElementsOf(ItemsOf(m))
           own == IF HasBody(m) THEN {Item(ContentDigest)} ELSE {}
           asked == IF RequestHadBody(m) THEN {Req(ContentDigest)} ELSE {}
           served == IF p.authorities # {} THEN {Item("@authority")} ELSE {}
<1>1. \A minimum : CoversMinimum(ItemsOf(m), minimum, HasBody(m), RequestHadBody(m))
        <=> {Component(x) : x \in minimum} \subseteq E /\ own \subseteq E /\ asked \subseteq E
  BY DEF CoversMinimum, Required
<1>2. CoversMinimum(ItemsOf(m), {Item("@authority")}, FALSE, FALSE) <=> Item("@authority") \in E
  <2>1. Component(Item("@authority")) = Item("@authority")
    BY DEF Component, Item, AsciiLower
  <2>2. QED
    BY <2>1 DEF CoversMinimum, Required
<1>3. own = (IF ~m.response /\ (HasContent(m.body) \/ m.headers.te \/ m.headers.length \notin {{}, {"zero"}})
              THEN {Item(ContentDigest)} ELSE {})
             \cup (IF m.response /\ HasContent(m.body) THEN {Item(ContentDigest)} ELSE {})
  <2>1. m.headers.length \notin {{}, {"zero"}} <=> \E l \in m.headers.length : l # "zero"
    BY DEF AtMostOne
  <2>2. QED
    BY <2>1 DEF HasBody, RequestHasBody
<1>4. asked = {Req(ContentDigest) : r \in {x \in m.request : HasContent(x.body)}}
  BY DEF RequestHadBody
<1>5. MustCover(m, p) = {Component(x) : x \in UNION p.minimum} \cup served
                          \cup (IF p.minimum = {} THEN {} ELSE own \cup asked)
  <2>1. \A A, B, C : (A \cup B \cup C) = (A \cup B) \cup C
    OBVIOUS
  <2> HIDE DEF own, asked
  <2>2. QED
    BY <1>3, <1>4 DEF MustCover
<1> HIDE DEF own, asked
<1>6. ({Component(x) : x \in UNION p.minimum} \subseteq E)
        <=> \A minimum \in p.minimum : {Component(x) : x \in minimum} \subseteq E
  OBVIOUS
<1>7. QED
  BY <1>1, <1>2, <1>5, <1>6 DEF MinimumUncovered

\* The covered list.
LEMMA CoverageReports ==
  ASSUME NEW c, TypedCall(c), ReadRefusal(c.msg, c.policy) = None,
         NEW said, NEW now, Clear(8, c, said, now)
  PROVE  Reports(CoverageRefusal(c.msg, c.policy), 11, c, said, now)
<1> DEFINE m == c.msg
           p == c.policy
           items == ItemsOf(m)
           R(refusal, i) == Reports(refusal, i, c, said, now)
           uncovered == \/ \E minimum \in p.minimum :
                             ~CoversMinimum(items, minimum, HasBody(m), RequestHadBody(m))
                        \/ p.authorities # {} /\ ~CoversMinimum(items, {Item("@authority")}, FALSE, FALSE)
           r9 == IF ~NoDuplicate(items) THEN "DuplicateComponent" ELSE None
           r10 == IF \E i \in DOMAIN items : ~Supported(items[i], m.response)
                  THEN "UnsupportedComponent" ELSE None
           r11 == IF uncovered THEN "InsufficientCoverage" ELSE None
<1>1. CoverageRefusal(m, p) = r9 ?? (r10 ?? r11)
  BY DEF CoverageRefusal, CheckCovered, ??, None
<1>2. R(r9, 9)
  <2>1. MetAt(9, c, said, now) = CoversTwice(m) /\ Rules[9][2] = "duplicate-component"
    BY RulesMet
  <2>2. CoversTwice(m) <=> r9 # None
    BY ReadGives, FewerElements DEF CoversTwice, None
  <2>3. QED
    BY <2>1, <2>2, RuleReports, Codes
<1>3. ASSUME Clear(9, c, said, now) PROVE R(r10, 10)
  <2>1. MetAt(10, c, said, now) = CoversUnsupported(m) /\ Rules[10][2] = "unsupported-component"
    BY RulesMet
  <2>2. \A i \in DOMAIN items : Supported(items[i], m.response) <=> ~UnsupportedIn(items[i], m)
    BY ReadGives, UnsupportedItem
  <2>3. CoversUnsupported(m) <=> r10 # None
    BY <2>2 DEF CoversUnsupported, ElementsOf, None
  <2>4. QED
    BY <1>3, <2>1, <2>3, RuleReports, Codes
<1>4. ASSUME Clear(10, c, said, now) PROVE R(r11, 11)
  <2>1. MetAt(11, c, said, now) = MinimumUncovered(m, p) /\ Rules[11][2] = "insufficient-coverage"
    BY RulesMet
  <2>2. MinimumUncovered(m, p) <=> r11 # None
    BY UncoveredMinimum DEF TypedCall, TypedHeaders, None
  <2>3. r11 # None => CodeOf(r11) = Rules[11][2]
    BY <2>1, Codes
  <2> HIDE DEF r11
  <2>4. QED
    BY <1>4, <2>1, <2>2, <2>3, RuleReports
<1> HIDE DEF r9, r10, r11
<1>5. ASSUME Clear(9, c, said, now) PROVE R(r10 ?? r11, 11)
  BY <1>3, <1>4, <1>5, ReportsThen
<1>6. QED
  BY <1>1, <1>2, <1>5, ReportsThen

\* A message that reads without a key of the verifier's own has a keyid.
LEMMA KeyidGiven ==
  ASSUME NEW c, TypedCall(c), ReadRefusal(c.msg, c.policy) = None, c.policy.expectedAid = {}
  PROVE  ParamsOf(c.msg).keyid # {}
<1> DEFINE m == c.msg
           p == c.policy
           f == The(m.headers.input)
           g == [i \in DOMAIN f.members |-> InputMemberRefusal(f.members[i], p)]
<1>1. f \in m.headers.input
  BY DEF ReadRefusal, Missing, The, None
<1>2. InputsRefusal(f, p) = None /\ PairRefusal(The(m.headers.signature), f) = None
  BY DEF ReadRefusal, ??, None
<1>3. f.members \in Seq(ElementsOf(f.members)) /\ Len(f.members) = 1
  BY <1>1, <1>2 DEF TypedCall, TypedHeaders, IsSequence, PairRefusal, None
<1>4. DOMAIN f.members \subseteq Nat /\ 1 \in DOMAIN f.members
  BY <1>3
<1>5. FirstRefusal(g) = None
  BY <1>2 DEF InputsRefusal, None
<1>6. DOMAIN g \subseteq Nat /\ 1 \in DOMAIN g /\ g[1] = InputMemberRefusal(f.members[1], p)
  BY <1>4
<1> HIDE DEF g
<1>7. g[1] = None
  BY <1>5, <1>6, FirstRefusalCases
<1>8. f.members[1].params.keyid # {}
  BY <1>6, <1>7 DEF InputMemberRefusal, RequireKeyid, None
<1>9. QED
  BY <1>8 DEF ParamsOf, Inner

\* The keyid, or the key the caller names instead.
LEMMA LocalKeyReports ==
  ASSUME NEW c, TypedCall(c), Undisputed(c), ReadRefusal(c.msg, c.policy) = None,
         NEW said, NEW now, Clear(11, c, said, now)
  PROVE  Reports(LocalKeyRefusal(ParamsOf(c.msg).keyid, c.policy), 12, c, said, now)
<1> DEFINE m == c.msg
           p == c.policy
           keyid == ParamsOf(m).keyid
           refusal == LocalKeyRefusal(keyid, p)
<1>1. MetAt(12, c, said, now) = KeyidMalformed(m, p) /\ Rules[12][2] = "malformed-key"
  BY RulesMet
<1>2. SoundKeys \subseteq Keys
  BY KeysAssumption
<1>3. (KeyidMalformed(m, p) <=> refusal # None) /\ refusal \in {None, "MalformedKey"}
  <2>1. CASE p.expectedAid # {}
    BY <1>2, <2>1 DEF KeyidMalformed, LocalKeyRefusal, WellFormedAid, KeyRefusal, None
  <2>2. CASE p.expectedAid = {}
    <3>1. PICK k : keyid = {k}
      <4>1. keyid # {}
        BY <2>2, KeyidGiven
      <4>2. \A x, y \in keyid : x = y
        BY ReadGives DEF OneOf, AtMostOne
      <4>3. QED
        BY <4>1, <4>2
    <3>2. The(keyid) = k
      BY <3>1 DEF The
    <3>3. keyid \notin {{}, {EmptyKeyid}}
      BY <2>2, <3>1 DEF Undisputed
    <3>4. KeyidMalformed(m, p)
            <=> IF p.resolving THEN k.form # "aid" ELSE k.form # "raw" \/ k.id \notin SoundKeys
      BY <2>2, <3>1 DEF KeyidMalformed
    <3>5. refusal = IF p.resolving THEN IF k.form = "aid" THEN None ELSE "MalformedKey"
                    ELSE IF k.form = "raw" THEN KeyRefusal(k.id) ELSE "MalformedKey"
      BY <2>2, <3>2, <3>3 DEF LocalKeyRefusal, WellFormedAid
    <3>6. QED
      BY <3>4, <3>5 DEF KeyRefusal, None
  <2>3. QED
    BY <2>1, <2>2
<1> HIDE DEF refusal
<1>4. refusal # None => CodeOf(refusal) = Rules[12][2]
  BY <1>1, <1>3, Codes
<1>5. QED
  BY <1>1, <1>3, <1>4, RuleReports DEF refusal

\* The keyid the caller expects.
LEMMA UnexpectedReports ==
  ASSUME NEW c, NEW said, NEW now, Clear(12, c, said, now)
  PROVE  Reports(UnexpectedKeyidRefusal(ParamsOf(c.msg).keyid, c.policy), 13, c, said, now)
<1> DEFINE refusal == UnexpectedKeyidRefusal(ParamsOf(c.msg).keyid, c.policy)
<1>1. MetAt(13, c, said, now) = KeyidUnexpected(c.msg, c.policy) /\ Rules[13][2] = "unknown-key"
  BY RulesMet
<1>2. KeyidUnexpected(c.msg, c.policy) <=> refusal # None
  BY DEF KeyidUnexpected, UnexpectedKeyidRefusal, None
<1>3. refusal # None => refusal = "UnknownKey"
  BY DEF UnexpectedKeyidRefusal
<1>4. QED
  BY <1>1, <1>2, <1>3, RuleReports, Codes

\* What the resolver answered, when there is one.
LEMMA ResolvedReports ==
  ASSUME NEW c, NEW said \in Answers, NEW now, Clear(13, c, said, now)
  PROVE  Reports(IF c.policy.resolving THEN ResolvedRefusal(said) ELSE None, 16, c, said, now)
<1> DEFINE p == c.policy
           R(refusal, i) == Reports(refusal, i, c, said, now)
           r14 == IF p.resolving /\ said = {} THEN "UnknownKey" ELSE None
           r15 == IF p.resolving /\ said = {"UnsupportedSigner"} THEN "UnsupportedSigner" ELSE None
           r16 == IF p.resolving /\ ~(said \subseteq SoundKeys) THEN "MalformedKey" ELSE None
           refusal == IF p.resolving THEN ResolvedRefusal(said) ELSE None
<1>1. refusal = r14 ?? (r15 ?? r16)
  <2>1. CASE said = {}
    BY <2>1 DEF ResolvedRefusal, ??, None
  <2>2. CASE said # {}
    <3>1. PICK k : said = {k}
      BY <2>2 DEF Answers, Opt
    <3>2. The(said) = k
      BY <3>1 DEF The
    <3>3. QED
      BY <2>2, <3>1, <3>2 DEF ResolvedRefusal, KeyRefusal, ??, None
  <2>3. QED
    BY <2>1, <2>2
<1>2. R(r14, 14)
  <2>1. MetAt(14, c, said, now) = (p.resolving /\ said = {}) /\ Rules[14][2] = "unknown-key"
    BY RulesMet
  <2>2. MetAt(14, c, said, now) <=> r14 # None
    BY <2>1 DEF None
  <2>3. QED
    BY <2>1, <2>2, RuleReports, Codes
<1>3. ASSUME Clear(14, c, said, now) PROVE R(r15, 15)
  <2>1. MetAt(15, c, said, now) = (p.resolving /\ said = {"UnsupportedSigner"}) /\ Rules[15][2] = "unsupported-signer"
    BY RulesMet
  <2>2. MetAt(15, c, said, now) <=> r15 # None
    BY <2>1 DEF None
  <2>3. QED
    BY <1>3, <2>1, <2>2, RuleReports, Codes
<1>4. ASSUME Clear(15, c, said, now) PROVE R(r16, 16)
  <2>1. MetAt(16, c, said, now) = (p.resolving /\ ~(said \subseteq SoundKeys)) /\ Rules[16][2] = "malformed-key"
    BY RulesMet
  <2>2. MetAt(16, c, said, now) <=> r16 # None
    BY <2>1 DEF None
  <2>3. QED
    BY <1>4, <2>1, <2>2, RuleReports, Codes
<1> HIDE DEF r14, r15, r16
<1>5. ASSUME Clear(14, c, said, now) PROVE R(r15 ?? r16, 16)
  BY <1>3, <1>4, <1>5, ReportsThen
<1>6. QED
  BY <1>1, <1>2, <1>5, ReportsThen

\* The algorithm.
LEMMA AlgorithmReports ==
  ASSUME NEW c, NEW said, NEW now, Clear(16, c, said, now)
  PROVE  Reports(AlgorithmRefusal(ParamsOf(c.msg)), 17, c, said, now)
<1> DEFINE alg == ParamsOf(c.msg).alg
           refusal == AlgorithmRefusal(ParamsOf(c.msg))
<1>1. MetAt(17, c, said, now) = AlgorithmUnsupported(c.msg) /\ Rules[17][2] = "unsupported-algorithm"
  BY RulesMet
<1>2. (\E a \in alg : a # "ed25519") <=> alg \notin {{}, {"ed25519"}}
  OBVIOUS
<1>3. AlgorithmUnsupported(c.msg) <=> refusal # None
  BY <1>2 DEF AlgorithmUnsupported, AlgorithmRefusal, None
<1>4. refusal # None => refusal = "UnsupportedAlgorithm"
  BY DEF AlgorithmRefusal
<1>5. QED
  BY <1>1, <1>3, <1>4, RuleReports, Codes

\* What reading a component of a received message can say.
LEMMA ItemSays ==
  ASSUME NEW item, NEW m
  PROVE  ItemRefusal(item, m, TRUE) \in {None, "MissingComponent", "SignatureMismatch"}
<1>1. \A name, headers : FieldRefusal(name, headers) \in {None, "MissingComponent", "SignatureMismatch"}
  BY DEF FieldRefusal
<1>2. \A s : AuthorityRefusal(s, TRUE) \in {None, "MissingComponent", "SignatureMismatch"}
  BY DEF AuthorityRefusal, Unreadable
<1>3. ASSUME NEW name, NEW s
      PROVE  SubjectRefusal(name, s, TRUE) \in {None, "MissingComponent", "SignatureMismatch"}
  <2>1. CASE name = "@authority"
    BY <2>1, <1>2 DEF SubjectRefusal
  <2>2. CASE name = "@status"
    BY <2>2 DEF SubjectRefusal
  <2>3. CASE name = "@method"
    BY <2>3 DEF SubjectRefusal
  <2>4. CASE name = "@path"
    BY <2>4 DEF SubjectRefusal, Unreadable
  <2>5. CASE name = "@query"
    BY <2>5 DEF SubjectRefusal, Unreadable
  <2>6. CASE name \notin {"@status", "@method", "@path", "@query", "@authority"}
    BY <2>6, <1>1 DEF SubjectRefusal
  <2>7. QED
    BY <2>1, <2>2, <2>3, <2>4, <2>5, <2>6
<1>4. QED
  BY <1>3 DEF ItemRefusal

\* Reading all the components refuses for the first that has no value ...
LEMMA LinesSay ==
  ASSUME NEW items, NEW m, DOMAIN items \subseteq Nat,
         NEW refusals, refusals = {ItemRefusal(i, m, TRUE) : i \in ElementsOf(items)}
  PROVE  /\ LinesRefusal(items, m, TRUE) \in {None, "MissingComponent", "SignatureMismatch"}
         /\ LinesRefusal(items, m, TRUE) = None <=> refusals \subseteq {None}
         /\ LinesRefusal(items, m, TRUE) # None => LinesRefusal(items, m, TRUE) \in refusals
<1> DEFINE f == [i \in DOMAIN items |-> ItemRefusal(items[i], m, TRUE)]
<1>1. /\ DOMAIN f \subseteq Nat
      /\ \A i \in DOMAIN f : f[i] \in {None, "MissingComponent", "SignatureMismatch"}
  BY ItemSays
<1>2. refusals = {f[i] : i \in DOMAIN f}
  BY DEF ElementsOf
<1>3. LinesRefusal(items, m, TRUE) = FirstRefusal(f)
  BY DEF LinesRefusal
<1> HIDE DEF f
<1>4. \/ FirstRefusal(f) = None /\ \A i \in DOMAIN f : f[i] = None
      \/ \E i \in DOMAIN f : FirstRefusal(f) = f[i] /\ f[i] # None
  BY <1>1, FirstRefusalCases
<1>5. QED
  BY <1>1, <1>2, <1>3, <1>4

\* ... so a message refused there covers a component that is missing, or one that
\* cannot be built.
LEMMA SignatureReports ==
  ASSUME NEW c, TypedCall(c), Undisputed(c), ReadRefusal(c.msg, c.policy) = None,
         NEW said, NEW now, Clear(17, c, said, now)
  PROVE  Reports(SignatureRefusal(c.msg, KeyFor(ParamsOf(c.msg).keyid, c.policy, said)), 19, c, said, now)
<1> DEFINE m == c.msg
           p == c.policy
           items == ItemsOf(m)
           key == KeyFor(ParamsOf(m).keyid, p, said)
           lines == LinesRefusal(items, m, TRUE)
           verifies == SignatureVerifies(key, Signature(m), Base(items, m, ParamsOf(m)))
           refusals == {ItemRefusal(i, m, TRUE) : i \in ElementsOf(items)}
           R(refusal, i) == Reports(refusal, i, c, said, now)
           r18 == IF lines = "MissingComponent" THEN "MissingComponent" ELSE None
           r19 == IF lines = "SignatureMismatch" \/ ~verifies THEN "SignatureMismatch" ELSE None
<1>1. /\ lines \in {None, "MissingComponent", "SignatureMismatch"}
      /\ lines = None <=> refusals \subseteq {None}
      /\ lines # None => lines \in refusals
  BY ReadGives, LinesSay
<1>2. SignatureRefusal(m, key) = r18 ?? r19
  BY <1>1 DEF SignatureRefusal, ??, None
<1>3. ~({"MissingComponent", "SignatureMismatch"} \subseteq refusals)
  BY DEF Undisputed
<1>4. refusals \subseteq {None, "MissingComponent", "SignatureMismatch"}
  BY ItemSays
<1>5. CoversMissing(m) <=> "MissingComponent" \in refusals
  BY DEF CoversMissing
<1>6. KeyOf(m, p, said) = key
  BY DEF KeyOf, KeyFor
<1>7. NotSigned(m, p, said) <=> ~(refusals \subseteq {None}) \/ ~verifies
  BY <1>6 DEF NotSigned, SignatureVerifies, Sign
<1> HIDE DEF refusals, lines, verifies
<1>8. R(r18, 18)
  <2>1. MetAt(18, c, said, now) = CoversMissing(m) /\ Rules[18][2] = "missing-component"
    BY RulesMet
  <2>2. CoversMissing(m) <=> r18 # None
    BY <1>1, <1>3, <1>4, <1>5 DEF None
  <2>3. QED
    BY <2>1, <2>2, RuleReports, Codes
<1>9. ASSUME Clear(18, c, said, now) PROVE R(r19, 19)
  <2>1. MetAt(19, c, said, now) = NotSigned(m, p, said) /\ Rules[19][2] = "signature-mismatch"
    BY RulesMet
  <2>2. "MissingComponent" \notin refusals
    <3>1. ~MetAt(18, c, said, now)
      BY <1>9 DEF Clear
    <3>2. QED
      BY <1>5, <3>1, RulesMet
  <2>3. NotSigned(m, p, said) <=> r19 # None
    BY <1>1, <1>7, <2>2 DEF None
  <2>4. QED
    BY <1>9, <2>1, <2>3, RuleReports, Codes
<1> HIDE DEF r18, r19
<1>10. QED
  BY <1>2, <1>8, <1>9, ReportsThen

\* What is there, and is one, is the one there is.
LEMMA TheOne ==
  ASSUME NEW S, S # {}, AtMostOne(S)
  PROVE  S = {The(S)}
<1>1. The(S) \in S
  BY DEF The
<1>2. QED
  BY <1>1 DEF AtMostOne

\* The authorities the verifier serves: only a request's own authority is compared.
LEMMA ServedReports ==
  ASSUME NEW c, TypedCall(c), NEW said, NEW now, Clear(19, c, said, now)
  PROVE  Reports(AuthorityServedRefusal(c.msg, c.policy), 20, c, said, now)
<1> DEFINE m == c.msg
           p == c.policy
           items == ItemsOf(m)
           refusal == AuthorityServedRefusal(m, p)
<1>1. ~CoversUnsupported(m) /\ ~MinimumUncovered(m, p)
  <2>1. ~MetAt(10, c, said, now) /\ ~MetAt(11, c, said, now)
    BY DEF Clear
  <2>2. QED
    BY <2>1, RulesMet
<1>2. NotServed(m, p) <=> \E served \in p.authorities, i \in DOMAIN items :
                             items[i].name = "@authority" /\ ValueOf(items[i], m) \notin served
  <2>1. CASE p.authorities = {}
    BY <2>1 DEF NotServed
  <2>2. CASE p.authorities # {}
    <3>1. PICK served : p.authorities = {served}
      BY <2>2, TheOne DEF TypedCall
    <3>2. UNION p.authorities = served
      BY <3>1
    <3>3. Item("@authority") \in ElementsOf(items)
      BY <1>1, <2>2 DEF MinimumUncovered, MustCover
    <3>4. PICK i \in DOMAIN items : items[i] = Item("@authority")
      BY <3>3 DEF ElementsOf
    <3>5. \A j \in DOMAIN items : ~UnsupportedIn(items[j], m)
      BY <1>1 DEF CoversUnsupported, ElementsOf
    <3>6. items[i].name = "@authority" /\ items[i].params = {}
      BY <3>4 DEF Item
    <3>7. ~m.response
      BY <3>5, <3>6 DEF UnsupportedIn, Derived
    <3>8. ASSUME NEW j \in DOMAIN items, items[j].name = "@authority"
          PROVE  ValueOf(items[j], m) = Authority(m)
      <4>1. "req" \notin items[j].params
        BY <3>5, <3>7 DEF UnsupportedIn
      <4>2. QED
        BY <3>8, <4>1 DEF ValueOf, Subject
    <3>9. NotServed(m, p) <=> Authority(m) \notin served
      BY <2>2, <3>2 DEF NotServed
    <3>10. QED
      BY <3>1, <3>6, <3>8, <3>9
  <2>3. QED
    BY <2>1, <2>2
<1>3. NotServed(m, p) <=> refusal # None
  BY <1>2 DEF AuthorityServedRefusal, None
<1>4. MetAt(20, c, said, now) = NotServed(m, p) /\ Rules[20][2] = "signature-mismatch"
  BY RulesMet
<1>5. refusal # None => refusal = "SignatureMismatch"
  BY DEF AuthorityServedRefusal
<1>6. QED
  BY <1>3, <1>4, <1>5, RuleReports, Codes

\* The window.
LEMMA FreshnessReports ==
  ASSUME NEW c, TypedCall(c), ReadRefusal(c.msg, c.policy) = None,
         NEW said, NEW now \in Int, Clear(20, c, said, now)
  PROVE  Reports(FreshnessRefusal(ParamsOf(c.msg), c.policy, now), 22, c, said, now)
<1> DEFINE m == c.msg
           p == c.policy
           params == ParamsOf(m)
           R(refusal, i) == Reports(refusal, i, c, said, now)
           r21 == IF TooOld(params, p, now) THEN "SignatureTooOld" ELSE None
           r22 == IF \E e \in params.expires : now > e + p.skew THEN "SignatureExpired" ELSE None
<1>1. FreshnessRefusal(params, p, now) = r21 ?? r22
  BY DEF FreshnessRefusal, ??, None
<1>2. R(r21, 21)
  <2>1. MetAt(21, c, said, now) = Stale(m, p, now) /\ Rules[21][2] = "signature-stale"
    BY RulesMet
  <2>2. /\ OneOf(params.created, Int)
        /\ p.maxAge \subseteq Int /\ p.skew \in Int
    BY ReadGives DEF TypedCall, OneOf
  <2>3. Stale(m, p, now) <=> TooOld(params, p, now)
    <3>1. CASE params.created = {}
      BY <3>1 DEF Stale, TooOld
    <3>2. ASSUME NEW t \in Int, params.created = {t}
          PROVE  Stale(m, p, now) <=> TooOld(params, p, now)
      <4>1. \A a \in Int : now \notin (t - p.skew)..(t + a + p.skew)
                             <=> now - t > a + p.skew \/ t - now > p.skew
        BY <2>2
      <4>2. QED
        BY <2>2, <3>2, <4>1 DEF Stale, TooOld
    <3>3. params.created = {} \/ \E t \in Int : params.created = {t}
      BY <2>2 DEF OneOf, AtMostOne
    <3>4. QED
      BY <3>1, <3>2, <3>3
  <2>4. r21 # None <=> TooOld(params, p, now)
    BY DEF None
  <2>5. QED
    BY <2>1, <2>3, <2>4, RuleReports, Codes
<1>3. ASSUME Clear(21, c, said, now) PROVE R(r22, 22)
  <2>1. MetAt(22, c, said, now) = Expired(m, p, now) /\ Rules[22][2] = "signature-expired"
    BY RulesMet
  <2>2. Expired(m, p, now) <=> r22 # None
    BY DEF Expired, None
  <2>3. QED
    BY <1>3, <2>1, <2>2, RuleReports, Codes
<1> HIDE DEF r21, r22
<1>4. QED
  BY <1>1, <1>2, <1>3, ReportsThen

\* A signed message holds every digest it covers ...
LEMMA CoveredIsThere ==
  ASSUME NEW m, \A i \in ElementsOf(ItemsOf(m)) : ItemRefusal(i, m, TRUE) = None
  PROVE  /\ CoversBody(ItemsOf(m)) => m.headers.digest # {}
         /\ BindsRequestDigest(ItemsOf(m)) => m.request # {} /\ The(m.request).headers.digest # {}
<1>1. \A s : SubjectRefusal("content-digest", s, TRUE) = FieldRefusal("content-digest", s.headers)
  BY DEF SubjectRefusal
<1>2. \A s : FieldRefusal("content-digest", s.headers) = None => s.headers.digest # {}
  BY DEF FieldRefusal, FieldOf, ContentDigest, None
<1>3. ASSUME CoversBody(ItemsOf(m)) PROVE m.headers.digest # {}
  <2> DEFINE item == Item(ContentDigest)
  <2>1. item.name = "content-digest" /\ "req" \notin item.params
    BY DEF Item, ContentDigest
  <2>2. ItemRefusal(item, m, TRUE) = None
    BY <1>3 DEF CoversBody
  <2> HIDE DEF item
  <2>3. QED
    BY <1>1, <1>2, <2>1, <2>2 DEF ItemRefusal, Subject
<1>4. ASSUME BindsRequestDigest(ItemsOf(m))
      PROVE  m.request # {} /\ The(m.request).headers.digest # {}
  <2> DEFINE item == Req(ContentDigest)
  <2>1. item.name = "content-digest" /\ "req" \in item.params
    BY DEF Req, AsciiLower, ContentDigest
  <2>2. ItemRefusal(item, m, TRUE) = None
    BY <1>4 DEF BindsRequestDigest
  <2> HIDE DEF item
  <2>3. QED
    BY <1>1, <1>2, <2>1, <2>2 DEF ItemRefusal, Subject, None
<1>5. QED
  BY <1>3, <1>4

\* ... so the code and section 9 speak of the same.
LEMMA DigestsPresent ==
  ASSUME NEW c, TypedCall(c),
         \A i \in ElementsOf(ItemsOf(c.msg)) : ItemRefusal(i, c.msg, TRUE) = None
  PROVE  Digests(c.msg) = DigestsCovered(c.msg)
<1> DEFINE m == c.msg
           E == ElementsOf(ItemsOf(m))
           own == {<<d, m.body>> : d \in IF Item(ContentDigest) \in E THEN m.headers.digest ELSE {}}
           theirs == UNION {{<<d, r.body>> : d \in r.headers.digest} :
                            r \in IF Req(ContentDigest) \in E THEN m.request ELSE {}}
<1>1. own = IF CoversBody(ItemsOf(m)) THEN {<<The(m.headers.digest), m.body>>} ELSE {}
  <2>1. CASE CoversBody(ItemsOf(m))
    <3>1. m.headers.digest = {The(m.headers.digest)}
      BY <2>1, CoveredIsThere, TheOne DEF TypedCall, TypedHeaders
    <3>2. QED
      BY <2>1, <3>1 DEF CoversBody
  <2>2. CASE ~CoversBody(ItemsOf(m))
    BY <2>2 DEF CoversBody
  <2>3. QED
    BY <2>1, <2>2
<1>2. theirs = IF BindsRequestDigest(ItemsOf(m))
               THEN {<<The(r.headers.digest), r.body>> : r \in m.request} ELSE {}
  <2>1. CASE BindsRequestDigest(ItemsOf(m))
    <3> DEFINE r == The(m.request)
               d == The(r.headers.digest)
    <3>1. m.request = {r} /\ r.headers.digest # {}
      BY <2>1, CoveredIsThere, TheOne DEF TypedCall
    <3>2. r.headers.digest = {d}
      BY <3>1, TheOne DEF TypedCall
    <3>3. theirs = {<<d, r.body>>}
      BY <2>1, <3>1, <3>2 DEF BindsRequestDigest
    <3> HIDE DEF r, d
    <3>4. QED
      BY <2>1, <3>1, <3>3 DEF d
  <2>2. CASE ~BindsRequestDigest(ItemsOf(m))
    BY <2>2 DEF BindsRequestDigest
  <2>3. QED
    BY <2>1, <2>2
<1>3. QED
  BY <1>1, <1>2 DEF Digests, DigestsCovered

\* The digests of a signed message.
LEMMA DigestReports ==
  ASSUME NEW c, TypedCall(c), NEW said, NEW now, Clear(22, c, said, now)
  PROVE  Reports(DigestRefusal(c.msg), 25, c, said, now)
<1> DEFINE m == c.msg
           R(refusal, i) == Reports(refusal, i, c, said, now)
           r23 == IF BindsRequestDigest(ItemsOf(m)) /\ \E r \in m.request : r.body = {}
                  THEN "ValueError" ELSE None
           r24 == IF \E d \in DigestsCovered(m) : ReadDigestRefusal(d[1]) # None
                  THEN "MalformedDigest" ELSE None
           r25 == IF \E d \in DigestsCovered(m) : CompareDigestRefusal(d[1], d[2]) # None
                  THEN "DigestMismatch" ELSE None
<1>1. DigestRefusal(m) = r23 ?? (r24 ?? r25)
  BY DEF DigestRefusal, ??, None
<1>2. Digests(m) = DigestsCovered(m)
  <2>1. ~MetAt(19, c, said, now)
    BY DEF Clear
  <2>2. ~NotSigned(m, c.policy, said)
    BY <2>1, RulesMet
  <2>3. QED
    BY <2>2, DigestsPresent DEF NotSigned
<1>3. \A d : Known(d) = Recognized(d)
  BY DEF Known, Recognized, DigestAlgorithms
<1>4. R(r23, 23)
  <2>1. MetAt(23, c, said, now) = RequestBodyWithheld(m) /\ Rules[23][2] = "mistake"
    BY RulesMet
  <2>2. RequestBodyWithheld(m) <=> r23 # None
    BY DEF RequestBodyWithheld, BindsRequestDigest, None
  <2>3. QED
    BY <2>1, <2>2, RuleReports, Codes
<1>5. DigestMalformed(m) <=> r24 # None
  BY <1>2, <1>3 DEF DigestMalformed, ReadDigestRefusal, None
<1>6. ASSUME Clear(23, c, said, now) PROVE R(r24, 24)
  <2>1. MetAt(24, c, said, now) = DigestMalformed(m) /\ Rules[24][2] = "malformed-digest"
    BY RulesMet
  <2>2. QED
    BY <1>5, <1>6, <2>1, RuleReports, Codes
<1>7. ASSUME Clear(24, c, said, now) PROVE R(r25, 25)
  <2>1. MetAt(25, c, said, now) = DigestMismatched(m) /\ Rules[25][2] = "digest-mismatch"
    BY RulesMet
  <2>2. ~DigestMalformed(m)
    <3>1. ~MetAt(24, c, said, now)
      BY <1>7 DEF Clear
    <3>2. QED
      BY <3>1, RulesMet
  <2>3. \A d \in Digests(m) : Known(d[1]) # {}
    BY <2>2 DEF DigestMalformed
  <2>4. \A d \in Digests(m) : CompareDigestRefusal(d[1], d[2]) # None
                                <=> \E x \in Known(d[1]) : {x.of} # d[2]
    BY <1>3, <2>3 DEF CompareDigestRefusal, None
  <2>5. DigestMismatched(m) <=> r25 # None
    BY <1>2, <2>4 DEF DigestMismatched, None
  <2>6. QED
    BY <1>7, <2>1, <2>5, RuleReports, Codes
<1> HIDE DEF r23, r24, r25
<1>8. ASSUME Clear(23, c, said, now) PROVE R(r24 ?? r25, 25)
  BY <1>6, <1>7, <1>8, ReportsThen
<1>9. QED
  BY <1>1, <1>4, <1>8, ReportsThen

\* Every call has the one code section 9 gives it, whatever its message and arguments, the
\* resolver's answer and the clock: the stages of verify_request and verify_response refuse
\* in the document's order (keri-profile.md section 9).
THEOREM OneCorrectCode ==
  ASSUME NEW c, TypedCall(c), Undisputed(c), NEW said \in Answers, NEW now \in Int
  PROVE  Code(c.msg, c.policy, said, now)
           = IF Refusal(c.msg, c.policy, said, now) = None THEN "accepted"
             ELSE CodeOf(Refusal(c.msg, c.policy, said, now))
<1> DEFINE m == c.msg
           p == c.policy
           R(refusal, i) == Reports(refusal, i, c, said, now)
           r1 == CallRefusal(m, p)
           r8 == ReadRefusal(m, p)
           r11 == CoverageRefusal(m, p)
           r12 == LocalKeyRefusal(ParamsOf(m).keyid, p)
           r13 == UnexpectedKeyidRefusal(ParamsOf(m).keyid, p)
           r16 == IF p.resolving THEN ResolvedRefusal(said) ELSE None
           r17 == AlgorithmRefusal(ParamsOf(m))
           r19 == SignatureRefusal(m, KeyFor(ParamsOf(m).keyid, p, said))
           r20 == AuthorityServedRefusal(m, p)
           r22 == FreshnessRefusal(ParamsOf(m), p, now)
           r25 == DigestRefusal(m)
           policy == r20 ?? (r22 ?? r25)
           key == r12 ?? (r13 ?? (r16 ?? r17))
           all == Refusal(m, p, said, now)
<1>1. all = r1 ?? (r8 ?? (r11 ?? (key ?? (r19 ?? policy))))
  BY DEF Refusal, KeyStageRefusal
<1>2. CASE r1 = "Unauthenticated"
  <2>1. m.response
    BY <1>2, FlooredRange DEF CallRefusal, RequestCallRefusal, ??, None
  <2>2. all = "Unauthenticated"
    BY <1>1, <1>2 DEF ??, None
  <2>3. QED
    BY <1>2, <2>1, <2>2, Codes DEF Code, None
<1>3. CASE r1 # "Unauthenticated"
  <2>1. R(r1, 1)
    BY <1>3, CallReports
  <2>2. ASSUME Clear(1, c, said, now) PROVE R(r8, 8)
    BY <2>2, ReadReports
  <2>3. ASSUME r8 = None, Clear(8, c, said, now) PROVE R(r11, 11)
    BY <2>3, CoverageReports
  <2>4. ASSUME r8 = None, Clear(11, c, said, now) PROVE R(r12, 12)
    BY <2>4, LocalKeyReports
  <2>5. ASSUME Clear(12, c, said, now) PROVE R(r13, 13)
    BY <2>5, UnexpectedReports
  <2>6. ASSUME Clear(13, c, said, now) PROVE R(r16, 16)
    BY <2>6, ResolvedReports
  <2>7. ASSUME Clear(16, c, said, now) PROVE R(r17, 17)
    BY <2>7, AlgorithmReports
  <2>8. ASSUME r8 = None, Clear(17, c, said, now) PROVE R(r19, 19)
    BY <2>8, SignatureReports
  <2>9. ASSUME Clear(19, c, said, now) PROVE R(r20, 20)
    BY <2>9, ServedReports
  <2>10. ASSUME r8 = None, Clear(20, c, said, now) PROVE R(r22, 22)
    BY <2>10, FreshnessReports
  <2>11. ASSUME Clear(22, c, said, now) PROVE R(r25, 25)
    BY <2>11, DigestReports
  <2> HIDE DEF r1, r8, r11, r12, r13, r16, r17, r19, r20, r22, r25
  <2>12. ASSUME r8 = None, Clear(19, c, said, now) PROVE R(policy, 25)
    <3>1. ASSUME Clear(20, c, said, now) PROVE R(r22 ?? r25, 25)
      BY <2>10, <2>11, <2>12, <3>1, ReportsThen
    <3>2. QED
      BY <2>9, <2>12, <3>1, ReportsThen
  <2>13. ASSUME r8 = None, Clear(11, c, said, now) PROVE R(key, 17)
    <3>1. ASSUME Clear(13, c, said, now) PROVE R(r16 ?? r17, 17)
      BY <2>6, <2>7, <3>1, ReportsThen
    <3>2. ASSUME Clear(12, c, said, now) PROVE R(r13 ?? (r16 ?? r17), 17)
      BY <2>5, <3>1, <3>2, ReportsThen
    <3>3. QED
      BY <2>4, <2>13, <3>2, ReportsThen
  <2> HIDE DEF policy, key
  <2>14. ASSUME r8 = None, Clear(17, c, said, now) PROVE R(r19 ?? policy, 25)
    BY <2>8, <2>12, <2>14, ReportsThen
  <2>15. ASSUME r8 = None, Clear(11, c, said, now) PROVE R(key ?? (r19 ?? policy), 25)
    BY <2>13, <2>14, <2>15, ReportsThen
  <2>16. ASSUME r8 = None, Clear(8, c, said, now) PROVE R(r11 ?? (key ?? (r19 ?? policy)), 25)
    BY <2>3, <2>15, <2>16, ReportsThen
  <2>17. ASSUME Clear(1, c, said, now) PROVE R(r8 ?? (r11 ?? (key ?? (r19 ?? policy))), 25)
    BY <2>2, <2>16, <2>17, ReportsThen
  <2>18. R(all, 25)
    BY <1>1, <2>1, <2>17, ReportsThen
  <2> HIDE DEF all
  <2>19. ~(c.msg.response /\ CallRefusal(c.msg, c.policy) = "Unauthenticated")
    BY <1>3 DEF r1
  <2>20. CASE all = None
    BY <2>18, <2>19, <2>20, NoneMet DEF Reports, all
  <2>21. CASE all # None
    <3>1. PICK i \in 1..25 : Clear(i - 1, c, said, now) /\ MetAt(i, c, said, now) /\ CodeOf(all) = Rules[i][2]
      BY <2>18, <2>21 DEF Reports
    <3>2. QED
      BY <2>19, <2>21, <3>1, FirstMet DEF all
  <2>22. QED
    BY <2>20, <2>21 DEF all
<1>4. QED
  BY <1>2, <1>3
================================================================================
