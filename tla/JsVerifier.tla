------------------------------ MODULE JsVerifier ------------------------------
(***************************************************************************)
(* One call of verifyRequest or verifyResponse of the JavaScript port      *)
(* (js/src/messages.js).  Its checks are the ones Verification has, in the *)
(* order this port makes them, but the call is an async function: it runs  *)
(* without interruption only from one await to the next, and at each await *)
(* anything else in the program may run.  An action is what runs between   *)
(* two awaits.                                                             *)
(*                                                                         *)
(* Everything the call reads later it has copied by then, with one         *)
(* exception: bodyBytes keeps a reference to the caller's buffer, so a     *)
(* body is what the buffer holds when it is hashed.  A program may refill  *)
(* a buffer it has handed over, but not change its length.  The buffer a   *)
(* resolver returns is also kept by reference, for one await; a resolver   *)
(* is taken to leave it alone.                                             *)
(***************************************************************************)
EXTENDS Section9Rules

CONSTANTS
    Calls,      \* the calls made: records [msg, policy, shared, states, starts, until]
    KeyStates,  \* what a resolver may know: functions from Ids to answers
    MaxClock,   \* bound on the clock
    Contents    \* what a program may put in a buffer that holds a body

ASSUME JsVerifierAssumption ==
    /\ KeyStates \subseteq [Ids -> Answers]
    /\ MaxClock \in Nat
    /\ EmptyBody \notin Contents
    /\ \A c \in Calls : /\ c.shared \in BOOLEAN
                        /\ c.states \subseteq KeyStates
                        /\ c.until \in 0..MaxClock /\ c.starts \subseteq 0..c.until

ASSUME CallsAssumption ==
    \A c \in Calls : /\ TypedCall(c)
                     /\ \A m \in {c.msg} \cup c.msg.request : MessageFields \subseteq DOMAIN m

VARIABLES
    call,      \* the message, the arguments, whether the caller reuses its buffers, when it
               \* may begin, how far the clock runs, and what the resolver may know meanwhile
    pc,        \* the await the call is suspended at
    outcome,   \* the refusal thrown, "accepted", or None while running
    answer,    \* what the resolver's promise settled with
    bodies,    \* what the caller's two buffers hold now
    todo,      \* digests still to be compared: <<buffer, digest>>
    hashing,   \* the digest under way: the content named, and the content hashed
    clock,     \* the verifier's clock
    keyState,  \* the current key of each transferable AID
    held,      \* history: what a lookup of the keyid would have said in the call, and since when
    seen       \* history: what each buffer has held since the signature was found good

digesting == <<todo, hashing, seen>>
vars == <<call, pc, outcome, answer, bodies, todo, hashing, clock, keyState, held, seen>>

M == call.msg
P == call.policy

Ended == {"accepted", "refused"}

Buffers == {"own", "asked"}

\* Mutant: the other port's classes.
MistakeAsThere(refusal) == refusal

\* What is a ValueError there is a TypeError in this port.
Mistake(refusal) == IF refusal = "ValueError" THEN "TypeError" ELSE refusal

Init ==
    /\ call \in Calls
    /\ pc = "called" /\ outcome = None /\ answer = {}
    /\ bodies = [own |-> M.body, asked |-> UNION {r.body : r \in M.request}]
    /\ todo = {} /\ hashing = {} /\ seen = [b \in Buffers |-> {}]
    /\ clock \in call.starts
    /\ keyState \in call.states
    /\ held = {[answer |-> LookupNow(call, keyState), at |-> clock]}

\* A check that refuses ends the call; one that does not leaves it at an await.
Settle(refusal, at) ==
    IF refusal = None THEN pc' = at /\ UNCHANGED outcome
    ELSE pc' = "refused" /\ outcome' = refusal

\* What is wrong with the arguments.
ArgumentRefusal(m, p) == Mistake(CallRefusal(m, p))

\* What is wrong with the two headers, or with what they cover.
HeaderRefusal(m, p) == ReadRefusal(m, p) ?? CoverageRefusal(m, p)

\* What is wrong with the keyid, as far as it can be said without asking.
KeyidRefusal(m, p) ==
    LocalKeyRefusal(ParamsOf(m).keyid, p) ?? UnexpectedKeyidRefusal(ParamsOf(m).keyid, p)

\* All that the call decides before anybody is asked for a key.
BeforeTheKey(m, p) ==
    ArgumentRefusal(m, p) ?? (HeaderRefusal(m, p) ?? KeyidRefusal(m, p))

\* Up to the resolver, which is called in the same breath, or up to the await of
\* resolveKey itself when the key is already known.
Call ==
    /\ pc = "called"
    /\ Settle(BeforeTheKey(M, P), IF P.resolving THEN "resolving" ELSE "keyed")
    /\ UNCHANGED <<call, answer, bodies, digesting, clock, keyState, held>>

\* The resolver's promise settles, from the key state of that moment.
ResolverSettles ==
    LET said == Lookup(keyState, The(ParamsOf(M).keyid))
    IN  /\ pc = "resolving"
        /\ Settle(ResolvedRefusal(said), "keyed")
        /\ answer' = said
        /\ UNCHANGED <<call, bodies, digesting, clock, keyState, held>>

\* The base is built and handed to WebCrypto with the key.  Importing the key and
\* verifying are two awaits, and nothing is read between them.
BuildBase ==
    /\ pc = "keyed"
    /\ Settle(AlgorithmRefusal(ParamsOf(M)) ?? LinesRefusal(ItemsOf(M), M, TRUE), "verifying")
    /\ UNCHANGED <<call, answer, bodies, digesting, clock, keyState, held>>

\* The buffers whose digest the signature covers, and the header that names it.
Covered(m) ==
    (IF CoversBody(ItemsOf(m)) THEN {"own"} ELSE {})
      \cup (IF BindsRequestDigest(ItemsOf(m)) /\ m.request # {} THEN {"asked"} ELSE {})

DigestFor(buffer, m) ==
    IF buffer = "own" THEN The(m.headers.digest) ELSE The(The(m.request).headers.digest)

\* Every digest there is to compare: each buffer with each algorithm its header names.
ToCompare(m) ==
    UNION {{b} \X Recognized(DigestFor(b, m)) : b \in Covered(m)}

\* A request body withheld is the caller's mistake; every digest is parsed before
\* any is compared.
UnreadDigests(m) ==
    IF BindsRequestDigest(ItemsOf(m)) /\ \E r \in m.request : r.body = {} THEN "TypeError"
    ELSE IF \E b \in Covered(m) : ReadDigestRefusal(DigestFor(b, m)) # None THEN "MalformedDigest"
    ELSE None

\* Mutant: the age is looked at before the signature.
FreshnessFirst ==
    FreshnessRefusal(ParamsOf(M), P, clock)
      ?? ((IF SignatureVerifies(KeyFor(ParamsOf(M).keyid, P, answer), Signature(M),
                              Base(ItemsOf(M), M, ParamsOf(M)))
         THEN None ELSE "SignatureMismatch")
      ?? (AuthorityServedRefusal(M, P) ?? UnreadDigests(M)))

\* What the answer of WebCrypto decides, and all that may be looked at only after it.
AfterTheSignature ==
    (IF SignatureVerifies(KeyFor(ParamsOf(M).keyid, P, answer), Signature(M),
                          Base(ItemsOf(M), M, ParamsOf(M)))
     THEN None ELSE "SignatureMismatch")
      ?? (AuthorityServedRefusal(M, P)
      ?? (FreshnessRefusal(ParamsOf(M), P, clock) ?? UnreadDigests(M)))

\* Mutant: the body as it was handed over, not as it is.
HashAsCalled(left) ==
    IF left = {}
    THEN pc' = "accepted" /\ outcome' = "accepted" /\ todo' = {} /\ hashing' = {}
    ELSE \E next \in left :
           LET was == IF next[1] = "own" THEN M.body ELSE The(M.request).body
           IN  /\ next[1] = "asked" => \A other \in left : other[1] = "asked"
               /\ todo' = left \ {next}
               /\ IF was = {}
                  THEN pc' = "refused" /\ outcome' = "DigestMismatch" /\ hashing' = {}
                  ELSE /\ pc' = "hashing" /\ UNCHANGED outcome
                       /\ hashing' = {[named |-> next[2].of, hashed |-> The(was)]}

\* The verdict, or the next digest: of what the buffer holds now, the message's own
\* first.  No body at all matches nothing.
HashNext(left) ==
    IF left = {}
    THEN pc' = "accepted" /\ outcome' = "accepted" /\ todo' = {} /\ hashing' = {}
    ELSE \E next \in left :
           /\ next[1] = "asked" => \A other \in left : other[1] = "asked"
           /\ todo' = left \ {next}
           /\ IF bodies[next[1]] = {}
              THEN pc' = "refused" /\ outcome' = "DigestMismatch" /\ hashing' = {}
              ELSE /\ pc' = "hashing" /\ UNCHANGED outcome
                   /\ hashing' = {[named |-> next[2].of, hashed |-> The(bodies[next[1]])]}

SignatureVerified ==
    /\ pc = "verifying"
    /\ seen' = bodies
    /\ IF AfterTheSignature # None
       THEN pc' = "refused" /\ outcome' = AfterTheSignature /\ UNCHANGED <<todo, hashing>>
       ELSE HashNext(ToCompare(M))
    /\ UNCHANGED <<call, answer, bodies, clock, keyState, held>>

\* Mutant: a digest that does not match is looked at again.
HashedOrAgain ==
    /\ pc = "hashing"
    /\ \E h \in hashing : IF h.hashed # h.named THEN UNCHANGED <<pc, outcome, todo, hashing>> ELSE HashNext(todo)
    /\ UNCHANGED <<call, answer, bodies, clock, keyState, held, seen>>

Hashed ==
    /\ pc = "hashing"
    /\ \E h \in hashing :
         IF h.hashed # h.named
         THEN pc' = "refused" /\ outcome' = "DigestMismatch" /\ UNCHANGED <<todo, hashing>>
         ELSE HashNext(todo)
    /\ UNCHANGED <<call, answer, bodies, clock, keyState, held, seen>>

\* The program runs while the call is suspended, and refills a buffer.
Refill ==
    /\ call.shared /\ pc \notin Ended \cup {"called"}
    /\ \E b \in Buffers, content \in Contents :
         /\ HasContent(bodies[b])
         /\ bodies' = [bodies EXCEPT ![b] = {content}]
         /\ seen' = IF pc = "hashing" THEN [seen EXCEPT ![b] = @ \cup {content}] ELSE seen
    /\ UNCHANGED <<call, pc, outcome, answer, todo, hashing, clock, keyState, held>>

Tick ==
    /\ clock < call.until
    /\ clock' = clock + 1
    /\ UNCHANGED <<call, pc, outcome, answer, bodies, digesting, keyState, held>>

Rotate ==
    /\ keyState' \in call.states
    /\ LET said == LookupNow(call, keyState')
       IN  held' = IF pc \in Ended \/ \E h \in held : h.answer = said THEN held
                   ELSE held \cup {[answer |-> said, at |-> clock]}
    /\ UNCHANGED <<call, pc, outcome, answer, bodies, digesting, clock>>

Resumes == Call \/ ResolverSettles \/ BuildBase \/ SignatureVerified \/ Hashed

Next == Resumes \/ Refill \/ Tick \/ Rotate

Spec == Init /\ [][Next]_vars

\* Promises settle, the resolver's and WebCrypto's, and the event loop runs what follows.
FairSpec == Spec /\ WF_vars(Resumes)

-------------------------------------------------------------------------------
(* Properties *)

\* Types: a call that is over has its outcome, and hashes only what a buffer can hold.
TypeOK ==
    /\ pc \in {"called", "resolving", "keyed", "verifying", "hashing"} \cup Ended
    /\ outcome \in Refusals \cup {None, "accepted"} /\ outcome # "ValueError"
    /\ (pc \in Ended) = (outcome # None)
    /\ answer \in Answers
    /\ (pc = "hashing") => \E h \in hashing : h.hashed \in UNION {seen[b] : b \in Buffers}
    /\ clock \in 0..MaxClock /\ keyState \in KeyStates

S9 == INSTANCE Section9 WITH outcome <- CodeOf(outcome)

\* This port too decides what section 9 says, for a key state and a clock of the
\* call, however long its awaits: as long as the caller leaves its buffers alone.
ImplementsSection9 == S9!Begin /\ [][S9!Next \/ call.shared]_<<call, outcome, clock, held>>

\* No digest of this message names two contents.
NotContradictory(m) ==
    \A r \in {m} \cup m.request : \A digest \in r.headers.digest :
      \A d, e \in Recognized(digest) : d.of = e.of

\* What the call could have read in a buffer: before the signature nothing but
\* whether it is empty.
Readings(buffer) ==
    IF seen[buffer] # {} THEN {{content} : content \in seen[buffer]} ELSE {bodies[buffer]}

\* The message with other bodies.
WithBodies(m, own, asked) ==
    [m EXCEPT !.body = own, !.request = {[r EXCEPT !.body = asked] : r \in @}]

\* With a caller that refills its buffers during the call, the call still decides what
\* section 9 says, of the message with contents that the buffers held after the
\* signature was found good; a verdict is never about contents from before.  A header
\* that names two contents by two algorithms is left out: two awaits apart, each
\* may find its own.
DecidesOnContentsHeld ==
    pc \in Ended /\ NotContradictory(M) =>
      \E own \in Readings("own"), asked \in Readings("asked"), h \in held :
        \E now \in h.at..clock :
          CodeOf(outcome) = Code(WithBodies(M, own, asked), P, h.answer, now)

\* Every call ends, for a resolver whose promise settles.
EveryCallEnds == <>(pc \in Ended)
===============================================================================
