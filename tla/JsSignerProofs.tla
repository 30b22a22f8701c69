----------------------------- MODULE JsSignerProofs -----------------------------
(***************************************************************************)
(* What JsSigner promises, proved for any set of calls, any contents a     *)
(* caller puts in its buffers, and any bound on the clock.                 *)
(*                                                                         *)
(* What a signature commits to was decided at awaits long past, so Past    *)
(* says of each await what has been found by then: which contents the      *)
(* digests named that have been compared, in terms of what the buffers     *)
(* have held.  A caller that leaves its buffers alone has them hold one    *)
(* content throughout, and then it is what Signer decides at once.         *)
(***************************************************************************)
EXTENDS JsSigner, SignerProofs

-------------------------------------------------------------------------------
(* The inductive invariant.                                                *)

\* What each buffer holds is among what it has held, and a call that shares none has one
\* content in each.
Buffered ==
    /\ DOMAIN filled = {"own", "asked"}
    /\ AtMostOne(body) /\ body \subseteq filled.own
    /\ AtMostOne(asked) /\ asked \subseteq filled.asked
    /\ body = {} <=> D.m.body = {}
    /\ asked = {} <=> \A r \in D.m.request : r.body = {}
    /\ ~signing.shared =>
         /\ body = D.m.body /\ filled.own = D.m.body
         /\ asked = UNION {r.body : r \in D.m.request} /\ filled.asked = asked

\* Of these digests, each still has to be compared, or is being compared, or names a
\* content the buffer has held.
Comparing(left, doing, digests, contents) ==
    /\ AtMostOne(doing) /\ left \subseteq digests
    /\ \A h \in doing : h.hashed \in contents /\ \E d \in digests : d.of = h.named
    /\ \A d \in digests : d \in left \/ d.of \in contents \/ \E h \in doing : h.named = d.of

\* A header that parses and names nothing but contents the buffer has held.
Commits(header, contents) ==
    ReadDigestRefusal(header) = None /\ \A d \in Recognized(header) : d.of \in contents

\* The call has no mistake, and the time it signs is the caller's or its own.
Looked ==
    /\ ~D.badText /\ SignCallRefusal(D) = None
    /\ created \in 0..MaxClock \cup D.created
    /\ D.created # {} => created = The(D.created)

\* The caller's own list covers the body there is.
ListCovers == D.m.body # {} /\ D.covered # {} => CoversBody(Named(D))

\* The body is done with: the digest that goes out is of a content it has held.
BodyDone ==
    /\ Looked /\ ListCovers
    /\ D.m.body = {} => digest = D.m.headers.digest
    /\ D.m.body # {} /\ D.m.headers.digest = {} => \E b \in filled.own : digest = {DigestOf(b)}
    /\ D.m.body # {} /\ D.m.headers.digest # {} =>
         digest = D.m.headers.digest /\ Commits(The(digest), filled.own)

RequestDigest == The(The(D.m.request).headers.digest)

\* There is a request's digest to bind, and its body to bind it to.
Binds ==
    asked # {} /\ BindsRequestDigest(ItemsSigned(D))

\* The base was built, and is what was signed.
Built ==
    /\ CheckCovered(ItemsSigned(D), D.m.response) = None
    /\ ~D.m.response => IsToken(D.m.method)
    /\ \A r \in D.m.request : IsToken(r.method)
    /\ LinesRefusal(ItemsSigned(D), Outgoing, FALSE) = None
    /\ message = WithSignature(Outgoing, ItemsSigned(D), ParamsSigned(D, created),
                   Sign(D.key, Base(ItemsSigned(D), Outgoing, ParamsSigned(D, created))))

\* What a call that has refused says, next to what the Python one would.
Agrees(refusal) ==
    /\ SignRefusal(D) # None
    /\ {refusal, SignRefusal(D)} \cap Mistakes = {} => refusal = SignRefusal(D)

Thrown ==
    {"TypeError", "UncoveredBody", "InsufficientCoverage", "MalformedDigest", "DigestMismatch",
     "DuplicateComponent", "UnsupportedComponent", "MissingComponent", "SignatureMismatch"}

\* What each await has behind it.
Past ==
    /\ pc = "called" =>
         hashing = {} /\ todo = {} /\ digest = D.m.headers.digest
    /\ pc = "comparing" =>
         /\ Looked /\ body # {} /\ digest # {} /\ digest = D.m.headers.digest
         /\ ReadDigestRefusal(The(digest)) = None
         /\ Comparing(todo, hashing, Recognized(The(digest)), filled.own)
    /\ pc = "digesting" =>
         /\ Looked /\ ListCovers /\ body # {} /\ digest = {} /\ D.m.headers.digest = {}
         /\ \E b \in filled.own : hashing = {[named |-> "nothing", hashed |-> b]}
    /\ pc = "covered" => BodyDone /\ hashing = {}
    /\ pc \in {"binding", "signing", "signed"} =>
         BodyDone /\ BindRequestRefusal(D) = None /\ ~BelowMinimum
    /\ pc = "binding" =>
         /\ Binds /\ The(D.m.request).headers.digest # {}
         /\ ReadDigestRefusal(RequestDigest) = None
         /\ Comparing(todo, hashing, Recognized(RequestDigest), filled.asked)
    /\ pc \in {"signing", "signed"} =>
         /\ Binds => The(D.m.request).headers.digest # {} /\ Commits(RequestDigest, filled.asked)
         /\ Built /\ hashing = {}
    /\ pc = "refused" =>
         outcome \in Thrown /\ (~signing.shared => Agrees(outcome))

Typed ==
    /\ signing \in Signings
    /\ pc \in {"called", "comparing", "digesting", "covered", "binding", "signing"} \cup Ended
    /\ pc # "refused" => outcome = None
    /\ pc \notin {"signing", "signed"} => message = D.m
    /\ created \in 0..MaxClock \cup D.created /\ clock \in 0..MaxClock
    /\ \A h \in hashing : h.hashed \in filled.own \cup filled.asked

Inv == Typed /\ Buffered /\ Past

-------------------------------------------------------------------------------
(* What the calls there are give.                                          *)

\* A call is one of those described (signRequest's and signResponse's arguments).
LEMMA DraftTyped ==
  ASSUME signing \in Signings
  PROVE  TypedDraft(D) /\ signing.shared \in BOOLEAN
BY JsSignerAssumption DEF D

-------------------------------------------------------------------------------
(* What this port refuses, and what the Python one would.                  *)

\* A mistake in the call is one in either port, whichever of them finds it first.
LEMMA MistakeRefused ==
  ASSUME ArgumentRefusal(D) # None
  PROVE  SignRefusal(D) # None
<1>1. CASE SignCallRefusal(D) # None
  BY <1>1, FirstOfSign
<1>2. CASE D.badText
  <2>1. BaseRefusal(D) # None
    BY <1>2 DEF BaseRefusal, None
  <2>2. QED
    BY <2>1, FirstOfSign
<1>3. QED
  BY <1>1, <1>2 DEF ArgumentRefusal, None

\* A refusal this port calls a mistake agrees with any of the other's.
LEMMA MistakeAgrees ==
  ASSUME NEW refusal \in Mistakes, SignRefusal(D) # None
  PROVE  Agrees(refusal)
BY DEF Agrees

\* Nor does a component that neither port can parse get another name here.
LEMMA ArgumentsAgree ==
  ASSUME TypedDraft(D), ArgumentRefusal(D) # None
  PROVE  ArgumentRefusal(D) \in Thrown /\ Agrees(ArgumentRefusal(D))
<1>1. SignRefusal(D) # None
  BY MistakeRefused
<1>2. CASE ArgumentRefusal(D) = "TypeError"
  BY <1>1, <1>2, MistakeAgrees DEF Mistakes, Thrown
<1>3. CASE ArgumentRefusal(D) # "TypeError"
  <2>1. SignCallRefusal(D) = "UnsupportedComponent" /\ ArgumentRefusal(D) = SignCallRefusal(D)
    BY <1>3, SignCallRange DEF ArgumentRefusal
  <2>2. SignRefusal(D) = "UnsupportedComponent"
    BY <2>1, FirstOfSign DEF None
  <2>3. QED
    BY <2>1, <2>2 DEF Agrees, Thrown, None
<1>4. QED
  BY <1>2, <1>3

\* A header that names nothing but the one content there is matches it.
LEMMA CommittedMatches ==
  ASSUME NEW header, NEW content, AtMostOne(content), content # {}, Commits(header, content)
  PROVE  CompareDigestRefusal(header, content) = None
<1>1. \A d \in Recognized(header) : {d.of} = content
  BY DEF Commits, AtMostOne
<1>2. QED
  BY <1>1 DEF CompareDigestRefusal, None

\* A body that is done with is one the Python port has nothing against.
LEMMA BodyAsPython ==
  ASSUME TypedDraft(D), filled.own = D.m.body, SignCallRefusal(D) = None, D.m.body # {},
         D.m.headers.digest # {} => Commits(The(D.m.headers.digest), filled.own)
  PROVE  CoverBodyRefusal(D) = IF ListCovers THEN None ELSE "UncoveredBody"
<1>1. AtMostOne(D.m.body) /\ AtMostOne(D.m.headers.digest)
  BY DEF TypedDraft
<1>2. ASSUME NEW h \in D.m.headers.digest
      PROVE  ReadDigestRefusal(h) = None /\ CompareDigestRefusal(h, D.m.body) = None
  <2>1. h = The(D.m.headers.digest)
    BY <1>1, TheOne
  <2>2. Commits(h, D.m.body)
    BY <2>1
  <2>3. QED
    BY <1>1, <2>2, CommittedMatches DEF Commits
<1>3. QED
  BY <1>2 DEF CoverBodyRefusal, ListCovers

\* Left alone with its buffers, a call sends what the Python port would, whose checks of
\* the body and the minimum pass where these do.
LEMMA SendsAsPython ==
  ASSUME TypedDraft(D), filled.own = D.m.body, BodyDone
  PROVE  /\ Outgoing = Sending(D)
         /\ CoverBodyRefusal(D) = None
         /\ (SignMinimumRefusal(D) = None) <=> ~BelowMinimum
<1> USE DEF Looked
<1>1. Outgoing = Sending(D)
  <2>1. CASE D.m.body # {} /\ D.m.headers.digest = {}
    <3>1. PICK b \in D.m.body : digest = {DigestOf(b)}
      BY <2>1 DEF BodyDone
    <3>2. b = The(D.m.body)
      BY <2>1, TheOne DEF TypedDraft
    <3>3. QED
      BY <2>1, <3>1, <3>2 DEF Outgoing, Sending
  <2>2. CASE ~(D.m.body # {} /\ D.m.headers.digest = {})
    <3>1. digest = D.m.headers.digest
      BY <2>2 DEF BodyDone
    <3>2. [D.m.headers EXCEPT !.digest = digest] = D.m.headers
      BY <3>1, SameField DEF TypedDraft, HeaderFields
    <3>3. Outgoing = [D.m EXCEPT !.headers = D.m.headers]
      BY <3>2 DEF Outgoing
    <3>4. QED
      BY <2>2, <3>3, SameField DEF TypedDraft, MessageFields, Sending
  <2>3. QED
    BY <2>1, <2>2
<1>2. CoverBodyRefusal(D) = None
  <2>1. CASE D.m.body = {}
    BY <2>1 DEF CoverBodyRefusal
  <2>2. CASE D.m.body # {}
    BY <2>2, BodyAsPython DEF BodyDone
  <2>3. QED
    BY <2>1, <2>2
<1>3. (SignMinimumRefusal(D) = None) <=> ~BelowMinimum
  BY <1>1 DEF SignMinimumRefusal, BelowMinimum, None
<1>4. QED
  BY <1>1, <1>2, <1>3

\* The digest of the request is refused by neither port, or by both.
LEMMA RequestAsPython ==
  ASSUME TypedDraft(D), Buffered, ~signing.shared
  PROVE  /\ ~Binds => RequestDigestRefusal(D) = None
         /\ Binds /\ The(D.m.request).headers.digest = {} => RequestDigestRefusal(D) = "AttributeError"
         /\ Binds /\ The(D.m.request).headers.digest # {} =>
              RequestDigestRefusal(D) =
                ReadDigestRefusal(RequestDigest) ?? CompareDigestRefusal(RequestDigest, asked)
<1>1. CASE ~Binds
  BY <1>1 DEF Binds, Buffered, RequestDigestRefusal
<1>2. CASE Binds
  <2>1. D.m.request # {} /\ AtMostOne(D.m.request)
    BY <1>2 DEF Binds, Buffered, TypedDraft
  <2>2. D.m.request = {The(D.m.request)}
    BY <2>1, TheOne
  <2>3. asked = The(D.m.request).body
    <3> DEFINE x == The(D.m.request)
    <3>1. asked = UNION {r.body : r \in {x}}
      BY <2>2 DEF Buffered
    <3> HIDE DEF x
    <3>2. {r.body : r \in {x}} = {x.body}
      OBVIOUS
    <3>3. QED
      BY <3>1, <3>2 DEF x
  <2>4. ~(~BindsRequestDigest(ItemsSigned(D)) \/ \A r \in D.m.request : r.body = {})
    BY <1>2 DEF Binds, Buffered
  <2>5. QED
    BY <1>2, <2>3, <2>4 DEF RequestDigestRefusal, RequestDigest
<1>3. QED
  BY <1>1, <1>2

-------------------------------------------------------------------------------
(* Every step keeps the invariant.                                         *)

\* A call begins with what it was given.
LEMMA InitInv == Init => Inv
<1> SUFFICES ASSUME Init PROVE Inv
  OBVIOUS
<1>1. TypedDraft(D) /\ signing \in Signings /\ clock \in 0..MaxClock /\ created = clock
  BY DraftTyped, JsSignerAssumption DEF Init
<1>2. AtMostOne(body) /\ AtMostOne(asked)
  <2>1. AtMostOne(D.m.request) /\ \A r \in D.m.request : AtMostOne(r.body)
    BY <1>1 DEF TypedDraft
  <2>2. QED
    BY <1>1, <2>1 DEF Init, TypedDraft, AtMostOne
<1>3. asked = {} <=> \A r \in D.m.request : r.body = {}
  BY DEF Init
<1>4. Buffered
  BY <1>2, <1>3 DEF Init, Buffered
<1>5. Typed /\ Past
  BY <1>1 DEF Init, Typed, Past
<1>6. QED
  BY <1>4, <1>5 DEF Inv

\* The buffers are as they were unless the caller refills one.
LEMMA BufferedStays ==
  ASSUME Buffered, UNCHANGED <<signing, body, asked, filled>>
  PROVE  Buffered' /\ D' = D
BY DEF Buffered, D

\* A call that refuses leaves no message, and its refusal is final.
LEMMA RefuseInv ==
  ASSUME Typed, NEW refusal \in Thrown, Refuse(refusal), message = D.m,
         UNCHANGED <<signing, clock, filled>>, created' \in 0..MaxClock \cup D.created,
         ~signing.shared => Agrees(refusal)
  PROVE  Typed' /\ Past'
<1>1. D' = D /\ pc' = "refused" /\ outcome' = refusal /\ UNCHANGED <<hashing, message>>
  BY DEF D, Refuse
<1>2. Typed'
  BY <1>1 DEF Typed, Ended
<1>3. Past'
  BY <1>1 DEF Past, Agrees, Ended
<1>4. QED
  BY <1>2, <1>3

\* One more digest is under way.
LEMMA HashOneCompares ==
  ASSUME NEW at, NEW all, NEW digests \in SUBSET all, NEW buffer, NEW contents,
         AtMostOne(buffer), buffer # {}, buffer \subseteq contents,
         \A d \in all \ digests : d.of \in contents, HashOne(at, digests, buffer)
  PROVE  /\ pc' = at /\ UNCHANGED <<outcome, digest, message>>
         /\ Comparing(todo', hashing', all, contents)
<1>1. PICK d \in digests : Hash(at, d.of, buffer) /\ todo' = digests \ {d}
  BY DEF HashOne
<1>2. The(buffer) \in contents
  BY TheOne
<1>3. hashing' = {[named |-> d.of, hashed |-> The(buffer)]}
  BY <1>1 DEF Hash
<1> DEFINE h == [named |-> d.of, hashed |-> The(buffer)]
<1>4. hashing' = {h} /\ h.named = d.of /\ h.hashed \in contents
  BY <1>2, <1>3
<1> HIDE DEF h
<1>5. Comparing(todo', hashing', all, contents)
  BY <1>1, <1>4 DEF Comparing, AtMostOne
<1>6. QED
  BY <1>1, <1>5 DEF Hash

\* One that has matched is of a content the buffer has held, and so are those before it.
LEMMA MatchedIsHeld ==
  ASSUME NEW left, NEW doing, NEW all, NEW contents, Comparing(left, doing, all, contents),
         NEW h \in doing, h.named = h.hashed
  PROVE  left \in SUBSET all /\ \A d \in all \ left : d.of \in contents
BY DEF Comparing, AtMostOne

\* One that does not match is of another content than the only one.
LEMMA UnmatchedDiffers ==
  ASSUME NEW left, NEW doing, NEW header, NEW contents, AtMostOne(contents),
         Comparing(left, doing, Recognized(header), contents), NEW h \in doing, h.named # h.hashed
  PROVE  CompareDigestRefusal(header, contents) = "DigestMismatch"
<1>1. \E d \in Recognized(header) : {d.of} # contents
  BY DEF Comparing, AtMostOne
<1>2. QED
  BY <1>1 DEF CompareDigestRefusal

\* Where the body's digest is right or still to be made, the list is looked at, and then
\* the digest is made (the end of coverBody).
LEMMA CoverInv ==
  ASSUME signing \in Signings, Typed, Buffered, Cover, message = D.m, outcome = None, body # {},
         digest = D.m.headers.digest, digest # {} => Commits(The(digest), filled.own),
         UNCHANGED <<signing, body, asked, clock, filled>>, Looked'
  PROVE  Typed' /\ Past'
<1>1. TypedDraft(D) /\ D.m.body # {} /\ D' = D /\ Buffered'
  BY DraftTyped, BufferedStays DEF Buffered
<1>2. created' \in 0..MaxClock \cup D.created
  BY <1>1 DEF Looked
<1>3. CASE D.covered # {} /\ ~CoversBody(Named(D))
  <2>1. Refuse("UncoveredBody")
    BY <1>3 DEF Cover
  <2>2. ASSUME ~signing.shared PROVE Agrees("UncoveredBody")
    <3>1. filled.own = D.m.body
      BY <2>2 DEF Buffered
    <3>2. CoverBodyRefusal(D) = "UncoveredBody" /\ SignCallRefusal(D) = None
      BY <1>1, <1>3, <3>1, BodyAsPython DEF Looked, ListCovers
    <3>3. SignRefusal(D) = "UncoveredBody"
      BY <3>2, FirstOfSign DEF None
    <3>4. QED
      BY <3>3 DEF Agrees, None
  <2>3. "UncoveredBody" \in Thrown
    BY DEF Thrown
  <2>4. QED
    BY <1>2, <2>1, <2>2, <2>3, RefuseInv
<1>4. CASE ~(D.covered # {} /\ ~CoversBody(Named(D))) /\ digest = {}
  <2>1. Hash("digesting", "nothing", body) /\ todo' = {}
    BY <1>4 DEF Cover
  <2>2. /\ pc' = "digesting" /\ UNCHANGED <<outcome, digest, message>>
        /\ hashing' = {[named |-> "nothing", hashed |-> The(body)]}
    BY <2>1 DEF Hash
  <2>3. The(body) \in filled.own
    BY TheOne DEF Buffered
  <2>4. ListCovers'
    BY <1>1, <1>4 DEF ListCovers
  <2>5. Past'
    BY <1>1, <1>4, <2>2, <2>3, <2>4 DEF Past
  <2>6. Typed'
    BY <1>1, <1>2, <2>2, <2>3 DEF Typed
  <2>7. QED
    BY <2>5, <2>6
<1>5. CASE ~(D.covered # {} /\ ~CoversBody(Named(D))) /\ digest # {}
  <2>1. pc' = "covered" /\ hashing' = {} /\ UNCHANGED <<outcome, digest, todo, message>>
    BY <1>5 DEF Cover
  <2>2. ListCovers'
    BY <1>1, <1>5 DEF ListCovers
  <2>3. BodyDone'
    BY <1>1, <1>5, <2>1, <2>2 DEF BodyDone
  <2>4. Past'
    BY <2>1, <2>3 DEF Past
  <2>5. Typed'
    BY <1>1, <1>2, <2>1 DEF Typed
  <2>6. QED
    BY <2>4, <2>5
<1>6. QED
  BY <1>3, <1>4, <1>5

\* The arguments are checked, and the body is hashed or its digest read.
LEMMA CallInv ==
  ASSUME Inv, Call
  PROVE  Inv'
<1>1. /\ pc = "called" /\ signing \in Signings /\ Typed /\ Buffered
      /\ UNCHANGED <<signing, body, asked, clock, filled>>
      /\ outcome = None /\ message = D.m /\ digest = D.m.headers.digest /\ hashing = {}
  BY DEF Inv, Typed, Past, Call
<1>2. TypedDraft(D) /\ D' = D /\ Buffered'
  BY <1>1, DraftTyped, BufferedStays
<1>3. /\ created' \in 0..MaxClock \cup D.created
      /\ D.created # {} => created' = The(D.created)
  <2>1. CASE D.created = {}
    BY <1>1, <2>1 DEF Call, Typed
  <2>2. CASE D.created # {}
    BY <1>2, <2>2, TheOne DEF Call, TypedDraft, OneOf
  <2>3. QED
    BY <2>1, <2>2
<1>4. Typed' /\ Past'
  <2>1. CASE ArgumentRefusal(D) # None
    <3>1. /\ Refuse(ArgumentRefusal(D))
          /\ ArgumentRefusal(D) \in Thrown /\ Agrees(ArgumentRefusal(D))
      BY <1>1, <1>2, <2>1, ArgumentsAgree DEF Call
    <3>2. QED
      BY <1>1, <1>3, <3>1, RefuseInv
  <2>2. CASE ArgumentRefusal(D) = None
    <3>1. Looked'
      BY <1>2, <1>3, <2>2 DEF Looked, ArgumentRefusal, None
    <3>2. CASE body = {}
      <4>1. pc' = "covered" /\ UNCHANGED <<outcome, digest, todo, hashing, message>>
        BY <2>2, <3>2 DEF Call
      <4>2. D.m.body = {}
        BY <1>1, <3>2 DEF Buffered
      <4>3. BodyDone'
        BY <1>1, <1>2, <3>1, <4>1, <4>2 DEF BodyDone, ListCovers
      <4>4. QED
        BY <1>1, <1>2, <1>3, <4>1, <4>3 DEF Past, Typed
    <3>3. CASE body # {} /\ digest = {}
      <4>1. Cover
        BY <1>1, <2>2, <3>3 DEF Call
      <4>2. QED
        BY <1>1, <3>1, <3>3, <4>1, CoverInv
    <3>4. CASE body # {} /\ digest # {} /\ ReadDigestRefusal(The(digest)) # None
      <4>1. Refuse("TypeError") /\ "TypeError" \in Thrown
        BY <2>2, <3>4 DEF Call, Thrown
      <4>2. CoverBodyRefusal(D) = "ValueError"
        <5>1. The(digest) \in D.m.headers.digest /\ D.m.body # {}
          BY <1>1, <1>2, <3>4, TheOne DEF TypedDraft, Buffered
        <5>2. QED
          BY <3>4, <5>1 DEF CoverBodyRefusal
      <4>3. SignRefusal(D) # None
        BY <4>2, FirstOfSign DEF None
      <4>4. Agrees("TypeError")
        BY <4>3, MistakeAgrees DEF Mistakes
      <4>5. QED
        BY <1>1, <1>3, <4>1, <4>4, RefuseInv
    <3>5. CASE body # {} /\ digest # {} /\ ReadDigestRefusal(The(digest)) = None
      <4>1. HashOne("comparing", Recognized(The(digest)), body)
        BY <2>2, <3>5 DEF Call
      <4>2. /\ pc' = "comparing" /\ UNCHANGED <<outcome, digest, message>>
            /\ Comparing(todo', hashing', Recognized(The(digest)), filled.own)
        BY <1>1, <3>5, <4>1, HashOneCompares DEF Buffered
      <4>3. Past'
        BY <1>1, <1>2, <3>1, <3>5, <4>2 DEF Past
      <4>4. Typed'
        BY <1>1, <1>2, <1>3, <4>2 DEF Typed, Comparing
      <4>5. QED
        BY <4>3, <4>4
    <3>6. QED
      BY <3>2, <3>3, <3>4, <3>5
  <2>3. QED
    BY <2>1, <2>2
<1>5. QED
  BY <1>2, <1>4 DEF Inv

\* A digest the caller supplied is compared, and the next, and then the body is done with.
LEMMA ComparedInv ==
  ASSUME Inv, Compared
  PROVE  Inv'
<1>1. /\ pc = "comparing" /\ signing \in Signings /\ Typed /\ Buffered /\ Looked
      /\ UNCHANGED <<signing, created, body, asked, clock, filled>>
      /\ outcome = None /\ message = D.m /\ digest = D.m.headers.digest
      /\ body # {} /\ digest # {} /\ ReadDigestRefusal(The(digest)) = None
      /\ Comparing(todo, hashing, Recognized(The(digest)), filled.own)
  BY DEF Inv, Typed, Past, Compared
<1>2. TypedDraft(D) /\ D' = D /\ Buffered'
  BY <1>1, DraftTyped, BufferedStays
<1>3. Looked' /\ created' \in 0..MaxClock \cup D.created
  BY <1>1, <1>2 DEF Looked
<1>4. PICK h \in hashing : IF h.named # h.hashed THEN Refuse("TypeError")
                           ELSE IF todo = {} THEN Cover
                           ELSE HashOne("comparing", todo, body)
  BY DEF Compared
<1>5. Typed' /\ Past'
  <2>1. CASE h.named # h.hashed
    <3>1. Refuse("TypeError") /\ "TypeError" \in Thrown
      BY <1>4, <2>1 DEF Thrown
    <3>2. ASSUME ~signing.shared PROVE Agrees("TypeError")
      <4>1. filled.own = D.m.body /\ D.m.body # {} /\ AtMostOne(D.m.body)
        BY <1>1, <1>2, <3>2 DEF Buffered
      <4>2. CompareDigestRefusal(The(digest), D.m.body) = "DigestMismatch"
        BY <1>1, <2>1, <4>1, UnmatchedDiffers
      <4>3. The(digest) \in D.m.headers.digest
        BY <1>1, <1>2, TheOne DEF TypedDraft
      <4>4. CoverBodyRefusal(D) = "ValueError"
        BY <4>1, <4>2, <4>3 DEF CoverBodyRefusal, None
      <4>5. SignRefusal(D) # None
        BY <1>1, <4>4, FirstOfSign DEF Looked, None
      <4>6. QED
        BY <4>5, MistakeAgrees DEF Mistakes
    <3>3. QED
      BY <1>1, <1>3, <3>1, <3>2, RefuseInv
  <2>2. CASE h.named = h.hashed
    <3>1. /\ todo \in SUBSET Recognized(The(digest))
          /\ \A d \in Recognized(The(digest)) \ todo : d.of \in filled.own
      BY <1>1, <2>2, MatchedIsHeld
    <3>2. CASE todo = {}
      <4>1. Cover /\ Commits(The(digest), filled.own)
        BY <1>1, <1>4, <2>2, <3>1, <3>2 DEF Commits
      <4>2. QED
        BY <1>1, <1>3, <4>1, CoverInv
    <3>3. CASE todo # {}
      <4>1. HashOne("comparing", todo, body)
        BY <1>4, <2>2, <3>3
      <4>2. /\ pc' = "comparing" /\ UNCHANGED <<outcome, digest, message>>
            /\ Comparing(todo', hashing', Recognized(The(digest)), filled.own)
        BY <1>1, <3>1, <4>1, HashOneCompares DEF Buffered
      <4>3. Past'
        BY <1>1, <1>2, <1>3, <4>2 DEF Past
      <4>4. Typed'
        BY <1>1, <1>2, <1>3, <4>2 DEF Typed, Comparing
      <4>5. QED
        BY <4>3, <4>4
    <3>4. QED
      BY <3>2, <3>3
  <2>3. QED
    BY <2>1, <2>2
<1>6. QED
  BY <1>2, <1>5 DEF Inv

\* The digest fiki computes is of a content the buffer has held.
LEMMA DigestedInv ==
  ASSUME Inv, Digested
  PROVE  Inv'
<1>1. /\ pc = "digesting" /\ signing \in Signings /\ Typed /\ Buffered /\ Looked /\ ListCovers
      /\ UNCHANGED <<signing, outcome, created, body, asked, todo, message, clock, filled>>
      /\ pc' = "covered" /\ hashing' = {} /\ digest' = {DigestOf(h.hashed) : h \in hashing}
      /\ outcome = None /\ message = D.m /\ D.m.headers.digest = {} /\ body # {}
  BY DEF Inv, Typed, Past, Digested
<1>2. D' = D /\ Buffered' /\ D.m.body # {}
  BY <1>1, BufferedStays DEF Buffered
<1>3. PICK b \in filled.own : hashing = {[named |-> "nothing", hashed |-> b]}
  BY <1>1 DEF Inv, Past
<1>4. digest' = {DigestOf(b)}
  <2> DEFINE h == [named |-> "nothing", hashed |-> b]
  <2>1. h.hashed = b
    OBVIOUS
  <2> HIDE DEF h
  <2>2. {DigestOf(x.hashed) : x \in {h}} = {DigestOf(h.hashed)}
    OBVIOUS
  <2>3. QED
    BY <1>1, <1>3, <2>1, <2>2 DEF h
<1>5. BodyDone'
  BY <1>1, <1>2, <1>4 DEF BodyDone, Looked, ListCovers
<1>6. Typed' /\ Past'
  BY <1>1, <1>2, <1>5 DEF Typed, Past
<1>7. QED
  BY <1>2, <1>6 DEF Inv

\* The parameters that are signed are those of the time the call began with.
LEMMA ParamsKept ==
  ASSUME TypedDraft(D), Looked
  PROVE  ParamsSigned([D EXCEPT !.created = {created}], clock) = ParamsSigned(D, created)
<1> DEFINE e == [D EXCEPT !.created = {created}]
<1>1. /\ e.created = {created} /\ e.expires = D.expires /\ e.keyid = D.keyid /\ e.key = D.key
  BY DEF TypedDraft, DraftFields
<1>2. The({created}) = created /\ {created} # {}
  BY TheOne DEF AtMostOne
<1>3. (IF D.created = {} THEN created ELSE The(D.created)) = created
  BY DEF Looked
<1> HIDE DEF e
<1>4. ParamsSigned(e, clock) = ParamsSigned(D, created)
  BY <1>1, <1>2, <1>3 DEF ParamsSigned
<1>5. QED
  BY <1>4 DEF e

\* The base is built and handed to the key, unless a component has no value.
LEMMA BuildBaseInv ==
  ASSUME signing \in Signings, Typed, Buffered, BuildBase, message = D.m, outcome = None,
         BodyDone, BindRequestRefusal(D) = None, ~BelowMinimum,
         Binds => The(D.m.request).headers.digest # {} /\ Commits(RequestDigest, filled.asked),
         UNCHANGED <<signing, created, body, asked, clock, filled>>
  PROVE  Typed' /\ Past'
<1> DEFINE items == ItemsSigned(D)
           params == ParamsSigned([D EXCEPT !.created = {created}], clock)
           covered == CheckCovered(items, D.m.response)
           lines == LinesRefusal(items, Outgoing, FALSE)
           badMethod == \/ ~D.m.response /\ ~IsToken(D.m.method)
                        \/ \E r \in D.m.request : ~IsToken(r.method)
<1>1. TypedDraft(D) /\ D' = D /\ Looked /\ created' \in 0..MaxClock \cup D.created
  BY DraftTyped, BufferedStays DEF BodyDone, Looked
<1>2. DOMAIN items \subseteq Nat
  BY <1>1, ListSigned
<1>3. /\ covered \in {None, "DuplicateComponent", "UnsupportedComponent"}
      /\ lines \in {None, "ValueError", "MissingComponent", "SignatureMismatch"}
  BY <1>2, CoveredRefusals, LinesRefusals
<1>4. IF covered # None THEN Refuse(covered)
      ELSE IF badMethod \/ lines = "ValueError" THEN Refuse("TypeError")
      ELSE IF lines # None THEN Refuse(lines)
      ELSE /\ pc' = "signing"
           /\ message' = WithSignature(Outgoing, items, params, Sign(D.key, Base(items, Outgoing, params)))
           /\ todo' = {} /\ hashing' = {} /\ UNCHANGED <<outcome, digest>>
  BY DEF BuildBase
<1>5. ASSUME ~signing.shared
      PROVE  SignRefusal(D) = IF badMethod THEN "ValueError" ELSE covered ?? lines
  <2>1. filled.own = D.m.body /\ filled.asked = asked /\ AtMostOne(asked)
    BY <1>5 DEF Buffered
  <2>2. Outgoing = Sending(D) /\ CoverBodyRefusal(D) = None /\ SignMinimumRefusal(D) = None
    BY <1>1, <2>1, SendsAsPython
  <2>3. RequestDigestRefusal(D) = None
    <3>1. CASE ~Binds
      BY <1>1, <1>5, <3>1, RequestAsPython
    <3>2. CASE Binds
      <4>1. The(D.m.request).headers.digest # {} /\ Commits(RequestDigest, asked) /\ asked # {}
        BY <2>1, <3>2 DEF Binds
      <4>2. ReadDigestRefusal(RequestDigest) = None /\ CompareDigestRefusal(RequestDigest, asked) = None
        BY <2>1, <4>1, CommittedMatches DEF Commits
      <4>3. QED
        BY <1>1, <1>5, <3>2, <4>1, <4>2, RequestAsPython DEF ??
    <3>3. QED
      BY <3>1, <3>2
  <2>4. SignRefusal(D) = BaseRefusal(D)
    BY <1>1, <2>2, <2>3, FirstOfSign DEF Looked
  <2>5. BaseRefusal(D) = IF badMethod THEN "ValueError" ELSE covered ?? lines
    BY <1>1, <2>2 DEF BaseRefusal, Looked
  <2>6. QED
    BY <2>4, <2>5
<1> HIDE DEF badMethod, lines, covered
<1>6. CASE covered # None
  <2>1. Refuse(covered) /\ covered \in Thrown
    BY <1>3, <1>4, <1>6 DEF Thrown
  <2>2. ~signing.shared => Agrees(covered)
    BY <1>3, <1>5, <1>6 DEF Agrees, ??, Mistakes, None
  <2>3. QED
    BY <1>1, <2>1, <2>2, RefuseInv
<1>7. CASE covered = None /\ (badMethod \/ lines = "ValueError")
  <2>1. Refuse("TypeError") /\ "TypeError" \in Thrown
    BY <1>4, <1>7 DEF Thrown
  <2>2. ~signing.shared => Agrees("TypeError")
    BY <1>5, <1>7, MistakeAgrees DEF ??, Mistakes, None
  <2>3. QED
    BY <1>1, <2>1, <2>2, RefuseInv
<1>8. CASE covered = None /\ ~badMethod /\ lines \notin {None, "ValueError"}
  <2>1. Refuse(lines) /\ lines \in Thrown
    BY <1>3, <1>4, <1>8 DEF Thrown
  <2>2. ~signing.shared => Agrees(lines)
    BY <1>3, <1>5, <1>8 DEF Agrees, ??, Mistakes, None
  <2>3. QED
    BY <1>1, <2>1, <2>2, RefuseInv
<1>9. CASE covered = None /\ ~badMethod /\ lines = None
  <2>1. /\ pc' = "signing" /\ todo' = {} /\ hashing' = {} /\ UNCHANGED <<outcome, digest>>
        /\ message' = WithSignature(Outgoing, items, params, Sign(D.key, Base(items, Outgoing, params)))
    BY <1>4, <1>9 DEF None
  <2>2. params = ParamsSigned(D, created)
    BY <1>1, ParamsKept
  <2>3. Outgoing' = Outgoing /\ RequestDigest' = RequestDigest /\ (Binds' <=> Binds)
    BY <1>1, <2>1 DEF Outgoing, RequestDigest, Binds
  <2> HIDE DEF params
  <2>4. Built'
    BY <1>1, <1>9, <2>1, <2>2, <2>3 DEF Built, lines, covered, badMethod
  <2>5. BodyDone' /\ ~BelowMinimum' /\ BindRequestRefusal(D') = None
    BY <1>1, <2>1, <2>3 DEF BodyDone, Looked, ListCovers, BelowMinimum
  <2>6. Past'
    BY <1>1, <2>1, <2>3, <2>4, <2>5 DEF Past
  <2>7. Typed'
    BY <1>1, <2>1 DEF Typed
  <2>8. QED
    BY <2>6, <2>7
<1>10. QED
  BY <1>3, <1>6, <1>7, <1>8, <1>9

\* The request whose digest is bound is looked at, and the base is built or its body hashed.
LEMMA BodyCoveredInv ==
  ASSUME Inv, BodyCovered
  PROVE  Inv'
<1> DEFINE header == UNION {r.headers.digest : r \in D.m.request}
<1>1. /\ pc = "covered" /\ signing \in Signings /\ Typed /\ Buffered /\ BodyDone /\ hashing = {}
      /\ UNCHANGED <<signing, created, body, asked, clock, filled>>
      /\ outcome = None /\ message = D.m
  BY DEF Inv, Typed, Past, BodyCovered
<1>2. TypedDraft(D) /\ D' = D /\ Buffered' /\ Looked
  BY <1>1, DraftTyped, BufferedStays DEF BodyDone
<1>3. created' \in 0..MaxClock \cup D.created
  BY <1>1, <1>2 DEF Looked
<1>4. ASSUME ~signing.shared
      PROVE  /\ SignCallRefusal(D) = None /\ CoverBodyRefusal(D) = None
             /\ (SignMinimumRefusal(D) = None) <=> ~BelowMinimum
  BY <1>1, <1>2, <1>4, SendsAsPython DEF Buffered, Looked
<1>5. Typed' /\ Past'
  <2>1. CASE BindRequestRefusal(D) # None
    <3>1. BindRequestRefusal(D) = "UncoveredBody" /\ "UncoveredBody" \in Thrown
      BY <2>1 DEF BindRequestRefusal, Thrown
    <3>2. Refuse("UncoveredBody")
      BY <2>1, <3>1 DEF BodyCovered
    <3>3. ~signing.shared => Agrees("UncoveredBody")
      BY <1>4, <2>1, <3>1, FirstOfSign DEF Agrees, None
    <3>4. QED
      BY <1>1, <1>3, <3>1, <3>2, <3>3, RefuseInv
  <2>2. CASE BindRequestRefusal(D) = None /\ BelowMinimum
    <3>1. Refuse("InsufficientCoverage") /\ "InsufficientCoverage" \in Thrown
      BY <2>2 DEF BodyCovered, Thrown
    <3>2. ~signing.shared => SignMinimumRefusal(D) = "InsufficientCoverage"
      BY <1>4, <2>2 DEF SignMinimumRefusal
    <3>3. ~signing.shared => Agrees("InsufficientCoverage")
      BY <1>4, <2>2, <3>2, FirstOfSign DEF Agrees, None
    <3>4. QED
      BY <1>1, <1>3, <3>1, <3>3, RefuseInv
  <2>3. CASE BindRequestRefusal(D) = None /\ ~BelowMinimum /\ ~Binds
    <3>1. BuildBase
      BY <2>3 DEF BodyCovered, Binds
    <3>2. QED
      BY <1>1, <2>3, <3>1, BuildBaseInv
  <2>4. CASE BindRequestRefusal(D) = None /\ ~BelowMinimum /\ Binds
    <3>1. IF header = {} \/ \E h \in header : ReadDigestRefusal(h) # None
          THEN Refuse("MalformedDigest")
          ELSE HashOne("binding", Recognized(The(header)), asked)
      BY <2>4 DEF BodyCovered, Binds
    <3>2. D.m.request = {The(D.m.request)}
      <4>1. D.m.request # {} /\ AtMostOne(D.m.request)
        BY <1>1, <1>2, <2>4 DEF Binds, Buffered, TypedDraft
      <4>2. QED
        BY <4>1, TheOne
    <3>3. header = The(D.m.request).headers.digest
      <4> DEFINE r0 == The(D.m.request)
      <4>1. header = UNION {r.headers.digest : r \in {r0}}
        BY <3>2
      <4> HIDE DEF r0
      <4>2. {r.headers.digest : r \in {r0}} = {r0.headers.digest}
        OBVIOUS
      <4>3. QED
        BY <4>1, <4>2 DEF r0
    <3>4. AtMostOne(header)
      BY <1>2, <3>2, <3>3 DEF TypedDraft
    <3>5. RequestDigest = The(header) /\ (header # {} => header = {RequestDigest})
      BY <3>3, <3>4, TheOne DEF RequestDigest
    <3> HIDE DEF header
    <3>6. CASE header = {} \/ ReadDigestRefusal(RequestDigest) # None
      <4>1. Refuse("MalformedDigest") /\ "MalformedDigest" \in Thrown
        BY <3>1, <3>5, <3>6 DEF Thrown
      <4>2. ASSUME ~signing.shared PROVE Agrees("MalformedDigest")
        <5>1. SignMinimumRefusal(D) = None
          BY <1>4, <2>4, <4>2
        <5>2. RequestDigestRefusal(D) = IF header = {} THEN "AttributeError" ELSE "MalformedDigest"
          <6>1. CASE header = {}
            BY <1>1, <1>2, <2>4, <3>3, <4>2, <6>1, RequestAsPython
          <6>2. CASE header # {}
            <7>1. ReadDigestRefusal(RequestDigest) = "MalformedDigest"
              BY <3>6, <6>2 DEF ReadDigestRefusal
            <7>2. QED
              BY <1>1, <1>2, <2>4, <3>3, <4>2, <6>2, <7>1, RequestAsPython DEF ??, None
          <6>3. QED
            BY <6>1, <6>2
        <5>3. SignRefusal(D) = RequestDigestRefusal(D)
          BY <1>4, <2>4, <4>2, <5>1, <5>2, FirstOfSign DEF None
        <5>4. QED
          BY <5>2, <5>3 DEF Agrees, Mistakes, None
      <4>3. QED
        BY <1>1, <1>3, <4>1, <4>2, RefuseInv
    <3>7. CASE header # {} /\ ReadDigestRefusal(RequestDigest) = None
      <4>1. HashOne("binding", Recognized(RequestDigest), asked)
        BY <3>1, <3>5, <3>7
      <4>2. /\ pc' = "binding" /\ UNCHANGED <<outcome, digest, message>>
            /\ Comparing(todo', hashing', Recognized(RequestDigest), filled.asked)
        BY <1>1, <2>4, <4>1, HashOneCompares DEF Buffered, Binds
      <4>3. Outgoing' = Outgoing /\ RequestDigest' = RequestDigest /\ Binds'
        BY <1>1, <1>2, <2>4, <4>2 DEF Outgoing, RequestDigest, Binds
      <4>4. BodyDone' /\ ~BelowMinimum' /\ BindRequestRefusal(D') = None
        BY <1>1, <1>2, <2>4, <4>2, <4>3 DEF BodyDone, Looked, ListCovers, BelowMinimum
      <4>5. Past'
        BY <1>1, <1>2, <3>3, <3>7, <4>2, <4>3, <4>4 DEF Past
      <4>6. Typed'
        BY <1>1, <1>2, <1>3, <4>2 DEF Typed, Comparing
      <4>7. QED
        BY <4>5, <4>6
    <3>8. QED
      BY <3>6, <3>7
  <2>5. QED
    BY <2>1, <2>2, <2>3, <2>4
<1>6. QED
  BY <1>2, <1>5 DEF Inv

\* A digest of the request is compared, and the next, and then the base is built.
LEMMA BoundInv ==
  ASSUME Inv, Bound
  PROVE  Inv'
<1>1. /\ pc = "binding" /\ signing \in Signings /\ Typed /\ Buffered /\ BodyDone
      /\ UNCHANGED <<signing, created, body, asked, clock, filled>>
      /\ outcome = None /\ message = D.m /\ BindRequestRefusal(D) = None /\ ~BelowMinimum
      /\ Binds /\ The(D.m.request).headers.digest # {} /\ ReadDigestRefusal(RequestDigest) = None
      /\ Comparing(todo, hashing, Recognized(RequestDigest), filled.asked)
  BY DEF Inv, Typed, Past, Bound
<1>2. TypedDraft(D) /\ D' = D /\ Buffered' /\ Looked
  BY <1>1, DraftTyped, BufferedStays DEF BodyDone
<1>3. created' \in 0..MaxClock \cup D.created
  BY <1>1, <1>2 DEF Looked
<1>4. PICK h \in hashing : IF h.named # h.hashed THEN Refuse("DigestMismatch")
                           ELSE IF todo = {} THEN BuildBase
                           ELSE HashOne("binding", todo, asked)
  BY DEF Bound
<1>5. Typed' /\ Past'
  <2>1. CASE h.named # h.hashed
    <3>1. Refuse("DigestMismatch") /\ "DigestMismatch" \in Thrown
      BY <1>4, <2>1 DEF Thrown
    <3>2. ASSUME ~signing.shared PROVE Agrees("DigestMismatch")
      <4>1. filled.asked = asked /\ filled.own = D.m.body /\ AtMostOne(asked)
        BY <1>1, <3>2 DEF Buffered
      <4>2. CompareDigestRefusal(RequestDigest, asked) = "DigestMismatch"
        BY <1>1, <2>1, <4>1, UnmatchedDiffers
      <4>3. RequestDigestRefusal(D) = "DigestMismatch"
        BY <1>1, <1>2, <3>2, <4>2, RequestAsPython DEF ??
      <4>4. CoverBodyRefusal(D) = None /\ SignMinimumRefusal(D) = None
        BY <1>1, <1>2, <4>1, SendsAsPython
      <4>5. SignRefusal(D) = "DigestMismatch"
        BY <1>1, <1>2, <4>3, <4>4, FirstOfSign DEF Looked, None
      <4>6. QED
        BY <4>5 DEF Agrees, None
    <3>3. QED
      BY <1>1, <1>3, <3>1, <3>2, RefuseInv
  <2>2. CASE h.named = h.hashed
    <3>1. /\ todo \in SUBSET Recognized(RequestDigest)
          /\ \A d \in Recognized(RequestDigest) \ todo : d.of \in filled.asked
      BY <1>1, <2>2, MatchedIsHeld
    <3>2. CASE todo = {}
      <4>1. BuildBase /\ Commits(RequestDigest, filled.asked)
        BY <1>1, <1>4, <2>2, <3>1, <3>2 DEF Commits
      <4>2. QED
        BY <1>1, <4>1, BuildBaseInv
    <3>3. CASE todo # {}
      <4>1. HashOne("binding", todo, asked)
        BY <1>4, <2>2, <3>3
      <4>2. /\ pc' = "binding" /\ UNCHANGED <<outcome, digest, message>>
            /\ Comparing(todo', hashing', Recognized(RequestDigest), filled.asked)
        BY <1>1, <3>1, <4>1, HashOneCompares DEF Buffered, Binds
      <4>3. Outgoing' = Outgoing /\ RequestDigest' = RequestDigest /\ Binds'
        BY <1>1, <1>2, <4>2 DEF Outgoing, RequestDigest, Binds
      <4>4. BodyDone' /\ ~BelowMinimum' /\ BindRequestRefusal(D') = None
        BY <1>1, <1>2, <4>2, <4>3 DEF BodyDone, Looked, ListCovers, BelowMinimum
      <4>5. Past'
        BY <1>1, <1>2, <4>2, <4>3, <4>4 DEF Past
      <4>6. Typed'
        BY <1>1, <1>2, <1>3, <4>2 DEF Typed, Comparing
      <4>7. QED
        BY <4>5, <4>6
    <3>4. QED
      BY <3>2, <3>3
  <2>3. QED
    BY <2>1, <2>2
<1>6. QED
  BY <1>2, <1>5 DEF Inv

\* A buffer that is refilled adds to what it has held, which is all that was found of it.
LEMMA RefillInv ==
  ASSUME Inv, Refill
  PROVE  Inv'
<1>1. /\ signing.shared /\ Typed /\ Buffered /\ Past /\ D' = D
      /\ UNCHANGED <<signing, pc, outcome, created, digest, todo, hashing, message, clock>>
  BY DEF Inv, Refill, D
<1>2. /\ filled.own \subseteq filled'.own /\ filled.asked \subseteq filled'.asked
      /\ Buffered' /\ (body' = {} <=> body = {}) /\ (asked' = {} <=> asked = {})
  <2>1. PICK content \in Contents :
           \/ /\ HasContent(body) /\ body' = {content}
              /\ filled' = [filled EXCEPT !.own = @ \cup {content}] /\ UNCHANGED asked
           \/ /\ HasContent(asked) /\ asked' = {content}
              /\ filled' = [filled EXCEPT !.asked = @ \cup {content}] /\ UNCHANGED body
    BY DEF Refill
  <2>2. CASE /\ HasContent(body) /\ body' = {content}
             /\ filled' = [filled EXCEPT !.own = @ \cup {content}] /\ UNCHANGED asked
    <3>1. filled'.own = filled.own \cup {content} /\ filled'.asked = filled.asked /\ DOMAIN filled' = DOMAIN filled
      BY <1>1, <2>2 DEF Buffered
    <3>2. body # {} /\ AtMostOne(body')
      BY <2>2 DEF HasContent, AtMostOne
    <3>3. Buffered'
      BY <1>1, <2>2, <3>1, <3>2 DEF Buffered
    <3>4. QED
      BY <2>2, <3>1, <3>2, <3>3
  <2>3. CASE /\ HasContent(asked) /\ asked' = {content}
             /\ filled' = [filled EXCEPT !.asked = @ \cup {content}] /\ UNCHANGED body
    <3>1. filled'.asked = filled.asked \cup {content} /\ filled'.own = filled.own /\ DOMAIN filled' = DOMAIN filled
      BY <1>1, <2>3 DEF Buffered
    <3>2. asked # {} /\ AtMostOne(asked')
      BY <2>3 DEF HasContent, AtMostOne
    <3>3. Buffered'
      BY <1>1, <2>3, <3>1, <3>2 DEF Buffered
    <3>4. QED
      BY <2>3, <3>1, <3>2, <3>3
  <2>4. QED
    BY <2>1, <2>2, <2>3
<1>3. Outgoing' = Outgoing /\ RequestDigest' = RequestDigest /\ (Binds' <=> Binds)
  BY <1>1, <1>2 DEF Outgoing, RequestDigest, Binds
<1>4. (Looked => Looked') /\ (ListCovers => ListCovers') /\ (BelowMinimum' <=> BelowMinimum)
  BY <1>1, <1>3 DEF Looked, ListCovers, BelowMinimum
<1>5. BodyDone => BodyDone'
  BY <1>1, <1>2, <1>4 DEF BodyDone, Commits
<1>6. Built => Built'
  BY <1>1, <1>3 DEF Built
<1>7. \A all : /\ Comparing(todo, hashing, all, filled.own) => Comparing(todo', hashing', all, filled'.own)
               /\ Comparing(todo, hashing, all, filled.asked) => Comparing(todo', hashing', all, filled'.asked)
  BY <1>1, <1>2 DEF Comparing
<1>8. Commits(RequestDigest, filled.asked) => Commits(RequestDigest', filled'.asked)
  BY <1>2, <1>3 DEF Commits
<1>9. Past'
  BY <1>1, <1>2, <1>3, <1>4, <1>5, <1>6, <1>7, <1>8 DEF Past
<1>10. Typed'
  BY <1>1, <1>2 DEF Typed
<1>11. QED
  BY <1>2, <1>9, <1>10 DEF Inv

\* The inductive step.
LEMMA NextInv == Inv /\ [Next]_vars => Inv'
<1> SUFFICES ASSUME Inv, [Next]_vars PROVE Inv'
  OBVIOUS
<1>1. CASE KeySigned
  <2>1. /\ pc = "signing" /\ pc' = "signed" /\ D' = D
        /\ UNCHANGED <<signing, outcome, created, body, asked, digest, todo, hashing, message, clock, filled>>
    BY <1>1 DEF KeySigned, D
  <2>2. Outgoing' = Outgoing /\ RequestDigest' = RequestDigest /\ (Binds' <=> Binds)
    BY <2>1 DEF Outgoing, RequestDigest, Binds
  <2>3. BodyDone' /\ Built' /\ ~BelowMinimum' /\ BindRequestRefusal(D') = None
    BY <2>1, <2>2 DEF Inv, Past, BodyDone, Looked, ListCovers, Built, BelowMinimum
  <2>4. Buffered' /\ Typed'
    BY <2>1, BufferedStays DEF Inv, Typed, Ended
  <2>5. Past'
    BY <2>1, <2>2, <2>3 DEF Inv, Past
  <2>6. QED
    BY <2>4, <2>5 DEF Inv
<1>2. CASE Tick \/ UNCHANGED vars
  <2>1. /\ UNCHANGED <<signing, pc, outcome, created, body, asked, digest, todo, hashing, message, filled>>
        /\ D' = D /\ clock' \in 0..MaxClock
    BY <1>2, JsSignerAssumption DEF Tick, vars, D, Inv, Typed
  <2>2. Outgoing' = Outgoing /\ RequestDigest' = RequestDigest /\ (Binds' <=> Binds)
    BY <2>1 DEF Outgoing, RequestDigest, Binds
  <2>3. /\ Looked' = Looked /\ ListCovers' = ListCovers /\ BodyDone' = BodyDone
        /\ Built' = Built /\ BelowMinimum' = BelowMinimum
    BY <2>1, <2>2 DEF BodyDone, Looked, ListCovers, Built, BelowMinimum
  <2>4. Buffered' /\ Typed'
    BY <2>1, BufferedStays DEF Inv, Typed, Ended
  <2>5. Past'
    BY <2>1, <2>2, <2>3 DEF Inv, Past, Agrees
  <2>6. QED
    BY <2>4, <2>5 DEF Inv
<1>3. QED
  BY <1>1, <1>2, CallInv, ComparedInv, DigestedInv, BodyCoveredInv, BoundInv, RefillInv
     DEF Next, Resumes

-------------------------------------------------------------------------------
(* What the invariant says at the end of a call.                           *)

\* The type invariant, for any calls, contents and clock.
THEOREM TypeCorrect == Spec => []TypeOK
<1>1. Inv => TypeOK
  <2> SUFFICES ASSUME Inv PROVE TypeOK
    OBVIOUS
  <2>1. outcome \in Thrown \cup {None} /\ (pc = "refused" <=> outcome # None)
    BY DEF Inv, Typed, Past, Thrown, None
  <2>2. outcome \in Refusals \cup {None, "UncoveredBody"} /\ outcome # "ValueError"
    BY <2>1 DEF Thrown, Refusals, PolicyRefusals, None
  <2>3. QED
    BY <2>1, <2>2 DEF Inv, Typed, TypeOK
<1>2. QED
  BY InitInv, NextInv, <1>1, PTL DEF Spec

\* What the JavaScript port signs for a caller that leaves its buffers alone is what the
\* Python one signs, and what it refuses that one refuses, whatever its awaits
\* (this.i:71): for any calls, and any number of digests.
THEOREM SignsWhatPythonSigns == Spec => []SignsAsPython
<1>1. Inv => SignsAsPython
  <2> SUFFICES ASSUME Inv, ~signing.shared PROVE SignsAsPython
    BY DEF SignsAsPython
  <2>1. TypedDraft(D)
    BY DraftTyped DEF Inv, Typed
  <2>2. ASSUME pc = "signed"
        PROVE  SignRefusal(D) = None /\ message = SignedMessage(D, created)
    <3>1. /\ filled.own = D.m.body /\ filled.asked = asked /\ AtMostOne(asked)
          /\ BodyDone /\ Built /\ BindRequestRefusal(D) = None /\ ~BelowMinimum
          /\ Binds => The(D.m.request).headers.digest # {} /\ Commits(RequestDigest, asked)
      BY <2>2 DEF Inv, Buffered, Past
    <3>2. Outgoing = Sending(D) /\ CoverBodyRefusal(D) = None /\ SignMinimumRefusal(D) = None
      BY <2>1, <3>1, SendsAsPython
    <3>3. RequestDigestRefusal(D) = None
      <4>1. CASE ~Binds
        BY <2>1, <4>1, RequestAsPython DEF Inv
      <4>2. CASE Binds
        <5>1. ReadDigestRefusal(RequestDigest) = None /\ CompareDigestRefusal(RequestDigest, asked) = None
          BY <3>1, <4>2, CommittedMatches DEF Commits, Binds
        <5>2. QED
          BY <2>1, <3>1, <4>2, <5>1, RequestAsPython DEF Inv, ??
      <4>3. QED
        BY <4>1, <4>2
    <3>4. BaseRefusal(D) = None
      BY <3>1, <3>2 DEF BaseRefusal, BodyDone, Looked, Built, ??
    <3>5. SignRefusal(D) = None
      BY <3>1, <3>2, <3>3, <3>4, FirstOfSign DEF BodyDone, Looked
    <3>6. message = SignedMessage(D, created)
      BY <3>1, <3>2 DEF Built, SignedMessage
    <3>7. QED
      BY <3>5, <3>6
  <2>3. pc = "refused" => Agrees(outcome)
    BY DEF Inv, Past
  <2>4. QED
    BY <2>2, <2>3 DEF SignsAsPython, Agrees
<1>2. QED
  BY InitInv, NextInv, <1>1, PTL DEF Spec

\* What a signed message was signed over: each component covered, with its value in the
\* message that goes out.
LEMMA SignedLines ==
  ASSUME Inv, pc = "signed"
  PROVE  ElementsOf(Signature(message).over.lines) =
           {<<ItemsSigned(D)[i], ValueOf(ItemsSigned(D)[i], Outgoing)>> : i \in DOMAIN ItemsSigned(D)}
<1> DEFINE items == ItemsSigned(D)
           params == ParamsSigned(D, created)
           value == Sign(D.key, Base(items, Outgoing, params))
           signature == [shape |-> "dict",
                         members |-> <<[label |-> "sig", bytes |-> TRUE, full |-> TRUE, value |-> value]>>]
           input == [shape |-> "dict",
                     members |-> <<[label |-> "sig", list |-> TRUE, items |-> items, params |-> params]>>]
<1>1. message = [Outgoing EXCEPT !.headers =
                   [Outgoing.headers EXCEPT !.signature = {signature}, !.input = {input}]]
  BY DEF Inv, Past, Built, WithSignature
<1>2. "headers" \in DOMAIN Outgoing /\ {"signature", "input"} \subseteq DOMAIN Outgoing.headers
  <2>1. TypedDraft(D)
    BY DraftTyped DEF Inv, Typed
  <2>2. QED
    BY <2>1 DEF Outgoing, TypedDraft, IsRecord, MessageFields, HeaderFields
<1>3. signature.members[1].value = value
  OBVIOUS
<1> HIDE DEF signature, input, value
<1>4. message.headers.signature = {signature}
  BY <1>1, <1>2
<1>5. Signature(message) = value
  BY <1>3, <1>4, TheOne DEF Signature, AtMostOne
<1>6. Signature(message).over.lines = LinesFor(items, Outgoing)
  BY <1>5 DEF value, Sign, Base
<1>7. QED
  BY <1>6 DEF LinesFor, ElementsOf

\* A header that commits names something, and nothing but what the buffer has held.
LEMMA CommittedNames ==
  ASSUME NEW header, NEW contents, Commits(header, contents)
  PROVE  NamedIn(header) # {} /\ NamedIn(header) \subseteq contents
BY DEF Commits, NamedIn, ReadDigestRefusal, None

\* Whatever a caller puts in its buffers meanwhile and however often, a signature covers a
\* digest of content that was in the body's buffer, and vouches for a request's digest only
\* if all it names was in the request's (coverBody and signResponse hash at one await what
\* they were given at another).
THEOREM ContentsAreCommitted == Spec => []CommitsToContentsHeld
<1>1. Inv => CommitsToContentsHeld
  <2> SUFFICES ASSUME Inv, pc = "signed"
               PROVE  /\ D.m.body # {} =>
                           \E l \in Committed(ContentDigest, {}) :
                             NamedIn(l[2]) # {} /\ NamedIn(l[2]) \subseteq filled.own
                      /\ asked # {} => \A l \in Committed(ContentDigest, {"req"}) :
                           NamedIn(l[2]) \subseteq filled.asked
    BY DEF CommitsToContentsHeld
  <2> DEFINE items == ItemsSigned(D)
             line(i) == <<items[i], ValueOf(items[i], Outgoing)>>
  <2>1. TypedDraft(D) /\ BodyDone
    BY DraftTyped DEF Inv, Typed, Past
  <2>2. Committed(ContentDigest, {}) = {l \in {line(i) : i \in DOMAIN items} : l[1] = Item(ContentDigest)}
    BY SignedLines DEF Committed, Item
  <2>3. Committed(ContentDigest, {"req"}) = {l \in {line(i) : i \in DOMAIN items} : l[1] = Req(ContentDigest)}
    BY SignedLines DEF Committed, Req, AsciiLower, ContentDigest
  <2>4. /\ Outgoing.headers.digest = digest /\ Outgoing.request = D.m.request
    BY <2>1 DEF Outgoing, TypedDraft, IsRecord, MessageFields, HeaderFields
  <2>5. ASSUME D.m.body # {}
        PROVE  \E l \in Committed(ContentDigest, {}) :
                 NamedIn(l[2]) # {} /\ NamedIn(l[2]) \subseteq filled.own
    <3>1. PICK i \in DOMAIN items : items[i] = Item(ContentDigest)
      <4>1. CoversBody(items)
        BY <2>1, <2>5, ListSigned DEF BodyDone, ListCovers
      <4>2. QED
        BY <4>1 DEF CoversBody, ElementsOf
    <3>2. ValueOf(items[i], Outgoing) = The(digest)
      BY <2>4, <3>1 DEF ValueOf, Subject, Item, ContentDigest, FieldOf
    <3>3. Commits(The(digest), filled.own)
      <4>1. CASE D.m.headers.digest # {}
        BY <2>1, <2>5, <4>1 DEF BodyDone
      <4>2. CASE D.m.headers.digest = {}
        <5>1. PICK b \in filled.own : digest = {DigestOf(b)}
          BY <2>1, <2>5, <4>2 DEF BodyDone
        <5>2. The(digest) = DigestOf(b)
          BY <5>1, TheOne DEF AtMostOne
        <5>3. Commits(DigestOf(b), filled.own)
          <6> DEFINE d == [alg |-> "sha-256", bytes |-> TRUE, of |-> b]
          <6>1. d.alg = "sha-256" /\ d.bytes = TRUE /\ d.of = b
            OBVIOUS
          <6>2. DigestOf(b).raw = "ok" /\ DigestOf(b).shape = "dict" /\ DigestOf(b).members = {d}
            BY DEF DigestOf
          <6> HIDE DEF d
          <6>3. Recognized(DigestOf(b)) = {d}
            BY <6>1, <6>2 DEF Recognized, DigestAlgorithms
          <6>4. QED
            BY <6>1, <6>2, <6>3 DEF Commits, ReadDigestRefusal, Bad, None
        <5>4. QED
          BY <5>2, <5>3
      <4>3. QED
        BY <4>1, <4>2
    <3>4. line(i)[1] = Item(ContentDigest) /\ line(i)[2] = The(digest)
      BY <3>1, <3>2
    <3>5. line(i) \in Committed(ContentDigest, {})
      BY <2>2, <3>1, <3>4
    <3>6. QED
      BY <3>3, <3>4, <3>5, CommittedNames
  <2>6. ASSUME asked # {}, NEW l \in Committed(ContentDigest, {"req"})
        PROVE  NamedIn(l[2]) \subseteq filled.asked
    <3>1. PICK i \in DOMAIN items : l = line(i) /\ l[1] = Req(ContentDigest)
      BY <2>3, <2>6
    <3>2. items[i] = Req(ContentDigest) /\ l[2] = ValueOf(items[i], Outgoing)
      BY <3>1
    <3>3. l[2] = RequestDigest
      BY <2>4, <3>2 DEF ValueOf, Subject, Req, AsciiLower, ContentDigest, FieldOf, RequestDigest
    <3>4. BindsRequestDigest(items)
      BY <3>2 DEF BindsRequestDigest, ElementsOf
    <3>5. Commits(RequestDigest, filled.asked)
      BY <2>6, <3>4 DEF Inv, Past, Binds
    <3>6. QED
      BY <3>3, <3>5, CommittedNames
  <2>7. QED
    BY <2>5, <2>6
<1>2. QED
  BY InitInv, NextInv, <1>1, PTL DEF Spec
===============================================================================
