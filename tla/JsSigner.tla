-------------------------------- MODULE JsSigner --------------------------------
(***************************************************************************)
(* One call of signRequest or signResponse of the JavaScript port          *)
(* (js/src/messages.js), from one await to the next.  A draft is what it   *)
(* is in Signer.  The body the caller hands over is hashed, or compared    *)
(* with the digest it came with, at awaits; so is the answered request's.  *)
(* Both are the caller's own buffers, which it may refill meanwhile.       *)
(***************************************************************************)
EXTENDS Signer

CONSTANTS
    Signings,  \* the calls made: records [draft, shared]
    Starts,    \* when a call may begin
    MaxClock,  \* bound on the clock
    Contents   \* what a program may put in a buffer that holds a body

ASSUME JsSignerAssumption ==
    /\ MaxClock \in Nat /\ Starts \subseteq 0..MaxClock
    /\ EmptyBody \notin Contents
    /\ \A s \in Signings : s.shared \in BOOLEAN /\ TypedDraft(s.draft)

VARIABLES
    signing,  \* the arguments, and whether the caller reuses its buffers
    pc,       \* the await the call is suspended at
    outcome,  \* the refusal thrown, or None
    created,  \* the time the signature will say
    body,     \* what the caller's buffer holds now
    asked,    \* what the answered request's buffer holds now
    digest,   \* the Content-Digest the message will go out with
    todo,     \* digests of a header still to be compared
    hashing,  \* the digest under way: the content named, and the content hashed
    message,  \* the message, once its base is built
    clock,
    filled    \* history: every content the buffers have held in the call, as <<own, asked>>

vars == <<signing, pc, outcome, created, body, asked, digest, todo, hashing, message, clock, filled>>

D == signing.draft

Ended == {"signed", "refused"}

Init ==
    /\ signing \in Signings
    /\ pc = "called" /\ outcome = None
    /\ clock \in Starts /\ created = clock
    /\ body = D.m.body
    /\ asked = UNION {r.body : r \in D.m.request}
    /\ digest = D.m.headers.digest
    /\ todo = {} /\ hashing = {}
    /\ message = D.m
    /\ filled = [own |-> body, asked |-> asked]

\* What RFC 8941 cannot carry is looked at first, before any body; what is a
\* ValueError there is a TypeError here.
ArgumentRefusal(d) ==
    IF d.badText \/ SignCallRefusal(d) = "ValueError" THEN "TypeError" ELSE SignCallRefusal(d)

Refuse(refusal) ==
    pc' = "refused" /\ outcome' = refusal /\ UNCHANGED <<digest, todo, hashing, message>>

\* WebCrypto is handed what a buffer holds now.
Hash(at, named, buffer) ==
    /\ pc' = at
    /\ hashing' = {[named |-> named, hashed |-> The(buffer)]}
    /\ UNCHANGED <<outcome, digest, message>>

\* One of a header's digests, and then the others.
HashOne(at, digests, buffer) ==
    \E d \in digests : Hash(at, d.of, buffer) /\ todo' = digests \ {d}

\* The body is covered: by the default list, which grows, or by the caller's own.
Cover ==
    IF D.covered # {} /\ ~CoversBody(Named(D)) THEN Refuse("UncoveredBody")
    ELSE IF digest = {} THEN Hash("digesting", "nothing", body) /\ todo' = {}
    ELSE /\ pc' = "covered" /\ hashing' = {} /\ UNCHANGED <<outcome, digest, todo, message>>

\* Mutant: a digest that came with the body is signed unread.
CallTrusting ==
    /\ pc = "called"
    /\ created' = IF D.created = {} THEN clock ELSE The(D.created)
    /\ IF ArgumentRefusal(D) # None THEN Refuse(ArgumentRefusal(D))
       ELSE IF body = {} THEN pc' = "covered" /\ UNCHANGED <<outcome, digest, todo, hashing, message>>
       ELSE Cover
    /\ UNCHANGED <<signing, body, asked, clock, filled>>

\* The time is read first of all, the arguments are checked, and the body is hashed or
\* its digest read.
Call ==
    /\ pc = "called"
    /\ created' = IF D.created = {} THEN clock ELSE The(D.created)
    /\ IF ArgumentRefusal(D) # None THEN Refuse(ArgumentRefusal(D))
       ELSE IF body = {} THEN pc' = "covered" /\ UNCHANGED <<outcome, digest, todo, hashing, message>>
       ELSE IF digest = {} THEN Cover
       ELSE IF ReadDigestRefusal(The(digest)) # None THEN Refuse("TypeError")
       ELSE HashOne("comparing", Recognized(The(digest)), body)
    /\ UNCHANGED <<signing, body, asked, clock, filled>>

\* A digest the caller supplied is compared, algorithm by algorithm.
Compared ==
    /\ pc = "comparing"
    /\ \E h \in hashing :
         IF h.named # h.hashed THEN Refuse("TypeError")
         ELSE IF todo = {} THEN Cover
         ELSE HashOne("comparing", todo, body)
    /\ UNCHANGED <<signing, created, body, asked, clock, filled>>

\* ... or fiki computes one.
Digested ==
    /\ pc = "digesting"
    /\ digest' = {DigestOf(h.hashed) : h \in hashing}
    /\ pc' = "covered" /\ hashing' = {}
    /\ UNCHANGED <<signing, outcome, created, body, asked, todo, message, clock, filled>>

\* The message as it will go out, but for its signature.
Outgoing == [D.m EXCEPT !.headers.digest = digest]

\* Mutant: whether there is a body is asked of the headers alone.
MinimumOfHeaders ==
    \E minimum \in D.minimum :
      ~CoversMinimum(ItemsSigned(D), minimum, RequestHasBody(D.m.headers, {}), FALSE)

BelowMinimum ==
    \E minimum \in D.minimum :
      ~CoversMinimum(ItemsSigned(D), minimum, HasBody(Outgoing), RequestHadBody(D.m))

\* Mutant: what cannot be read is thrown as the other port names it.
BuildBaseAsThere ==
    LET items == ItemsSigned(D)
        params == ParamsSigned([D EXCEPT !.created = {created}], clock)
        badMethod == \/ ~D.m.response /\ ~IsToken(D.m.method)
                     \/ \E r \in D.m.request : ~IsToken(r.method)
        lines == LinesRefusal(items, Outgoing, FALSE)
    IN  IF CheckCovered(items, D.m.response) # None THEN Refuse(CheckCovered(items, D.m.response))
        ELSE IF badMethod THEN Refuse("TypeError")
        ELSE IF lines # None THEN Refuse(lines)
        ELSE /\ pc' = "signing"
             /\ message' = WithSignature(Outgoing, items, params, Sign(D.key, Base(items, Outgoing, params)))
             /\ todo' = {} /\ hashing' = {} /\ UNCHANGED <<outcome, digest>>

\* The covered list, then the message it is read from, then the base, whose bytes are
\* fixed before the key is asked to sign them.
BuildBase ==
    LET items == ItemsSigned(D)
        params == ParamsSigned([D EXCEPT !.created = {created}], clock)
        badMethod == \/ ~D.m.response /\ ~IsToken(D.m.method)
                     \/ \E r \in D.m.request : ~IsToken(r.method)
        lines == LinesRefusal(items, Outgoing, FALSE)
    IN  IF CheckCovered(items, D.m.response) # None THEN Refuse(CheckCovered(items, D.m.response))
        ELSE IF badMethod \/ lines = "ValueError" THEN Refuse("TypeError")
        ELSE IF lines # None THEN Refuse(lines)
        ELSE /\ pc' = "signing"
             /\ message' = WithSignature(Outgoing, items, params, Sign(D.key, Base(items, Outgoing, params)))
             /\ todo' = {} /\ hashing' = {} /\ UNCHANGED <<outcome, digest>>

\* The request whose digest the answer binds is looked at before it is vouched for; one
\* with no digest has one that does not parse.
BodyCovered ==
    /\ pc = "covered"
    /\ IF BindRequestRefusal(D) # None THEN Refuse(BindRequestRefusal(D))
       ELSE IF BelowMinimum THEN Refuse("InsufficientCoverage")
       ELSE IF asked = {} \/ ~BindsRequestDigest(ItemsSigned(D)) THEN BuildBase
       ELSE LET header == UNION {r.headers.digest : r \in D.m.request}
            IN  IF header = {} \/ \E h \in header : ReadDigestRefusal(h) # None
                THEN Refuse("MalformedDigest")
                ELSE HashOne("binding", Recognized(The(header)), asked)
    /\ UNCHANGED <<signing, created, body, asked, clock, filled>>

Bound ==
    /\ pc = "binding"
    /\ \E h \in hashing :
         IF h.named # h.hashed THEN Refuse("DigestMismatch")
         ELSE IF todo = {} THEN BuildBase
         ELSE HashOne("binding", todo, asked)
    /\ UNCHANGED <<signing, created, body, asked, clock, filled>>

KeySigned ==
    /\ pc = "signing" /\ pc' = "signed"
    /\ UNCHANGED <<signing, outcome, created, body, asked, digest, todo, hashing, message, clock, filled>>

\* The program runs while the call is suspended, and refills a buffer.
Refill ==
    /\ signing.shared /\ pc \notin Ended \cup {"called"}
    /\ \E content \in Contents :
         \/ /\ HasContent(body) /\ body' = {content}
            /\ filled' = [filled EXCEPT !.own = @ \cup {content}] /\ UNCHANGED asked
         \/ /\ HasContent(asked) /\ asked' = {content}
            /\ filled' = [filled EXCEPT !.asked = @ \cup {content}] /\ UNCHANGED body
    /\ UNCHANGED <<signing, pc, outcome, created, digest, todo, hashing, message, clock>>

Tick ==
    /\ clock < MaxClock /\ pc # "called"
    /\ clock' = clock + 1
    /\ UNCHANGED <<signing, pc, outcome, created, body, asked, digest, todo, hashing, message, filled>>

Resumes == Call \/ Compared \/ Digested \/ BodyCovered \/ Bound \/ KeySigned

Next == Resumes \/ Refill \/ Tick

Spec == Init /\ [][Next]_vars

-------------------------------------------------------------------------------
(* Properties *)

\* Types: a call that is over has its outcome, and one that refuses leaves no message.
TypeOK ==
    /\ pc \in {"called", "comparing", "digesting", "covered", "binding", "signing"} \cup Ended
    /\ outcome \in Refusals \cup {None, "UncoveredBody"} /\ outcome # "ValueError"
    /\ (pc = "refused") = (outcome # None)
    /\ pc = "refused" => message = D.m
    /\ created \in 0..MaxClock \cup D.created /\ clock \in 0..MaxClock
    /\ \A h \in hashing : h.hashed \in filled.own \cup filled.asked

\* A mistake in a call, as either port names it, and the one refusal to sign that Python
\* has no class for.
Mistakes == {"TypeError", "ValueError", "AttributeError"}

\* Left alone with its buffers, this port signs what the Python one would have signed
\* when the call began, however long its awaits, and refuses when it would: of the same
\* class, unless one of them calls it a mistake (this.i:71, "Behaviour is py's").
SignsAsPython ==
    ~signing.shared =>
    /\ pc = "signed" => SignRefusal(D) = None /\ message = SignedMessage(D, created)
    /\ pc = "refused" =>
         /\ SignRefusal(D) # None
         /\ {outcome, SignRefusal(D)} \cap Mistakes = {} => outcome = SignRefusal(D)

\* What the digest of a covered body names, in any algorithm fiki computes.
Committed(name, params) ==
    {l \in ElementsOf(Signature(message).over.lines) : l[1] = [name |-> name, params |-> params]}

\* The contents a header names.
NamedIn(header) == {d.of : d \in Recognized(header)}

\* With a caller that refills its buffers meanwhile, a signature still commits to content
\* that was in the body's buffer during the call, and vouches for a request's digest only
\* if each content it names was in the request's.
CommitsToContentsHeld ==
    pc = "signed" =>
      /\ D.m.body # {} =>
           \E l \in Committed(ContentDigest, {}) :
             NamedIn(l[2]) # {} /\ NamedIn(l[2]) \subseteq filled.own
      /\ asked # {} => \A l \in Committed(ContentDigest, {"req"}) : NamedIn(l[2]) \subseteq filled.asked
===============================================================================
