------------------------------- MODULE Verifier -------------------------------
(***************************************************************************)
(* One call of verify_request or verify_response, stage by stage           *)
(* (py/src/fiki/messages.py), while the clock runs and the key state       *)
(* behind the caller's resolver rotates.  The call is one thread of        *)
(* Python: the only foreign code it runs is the resolver, but a clock tick *)
(* or a rotation can fall between any two of its steps.                    *)
(***************************************************************************)
EXTENDS Section9Rules

CONSTANTS
    Calls,      \* the calls made: records [msg, policy]
    KeyStates,  \* what a resolver may know: functions from Ids to answers
    Starts,     \* when a call may begin
    MaxClock    \* bound on the clock

ASSUME VerifierAssumption ==
    /\ KeyStates \subseteq [Ids -> Answers]
    /\ MaxClock \in Nat /\ Starts \subseteq 0..MaxClock
    /\ "UnsupportedSigner" \notin Keys

ASSUME CallsAssumption == \A c \in Calls : TypedCall(c)

VARIABLES
    call,      \* the message and the arguments
    pc,        \* the stage about to run
    outcome,   \* the refusal raised, "accepted", or None while running
    answer,    \* what the resolver said, once it has
    answered,  \* history: the clock when it said so
    stamp,     \* the clock as the freshness check read it, once it has
    asked,     \* every keyid handed to the resolver
    clock,     \* the verifier's clock
    keyState,  \* the current key of each transferable AID
    held       \* history: what a lookup of the keyid would have said in the call, and since when

caller == <<call, pc, outcome, answer, answered, stamp, asked>>
vars == <<call, pc, outcome, answer, answered, stamp, asked, clock, keyState, held>>

M == call.msg
P == call.policy

Ended == {"accepted", "refused"}

Stages ==
    {"call", "read", "cover", "local", "expect", "ask", "wait", "alg", "base",
     "served", "fresh", "digest"} \cup Ended

Init ==
    /\ call \in Calls
    /\ pc = "call"
    /\ outcome = None
    /\ answer = {}
    /\ answered = {}
    /\ stamp = {}
    /\ asked = <<>>
    /\ clock \in Starts
    /\ keyState \in KeyStates
    /\ held = {[answer |-> LookupNow(call, keyState), at |-> clock]}

\* A check that refuses ends the call; one that does not leads to the next.
Check(from, refusal, to) ==
    /\ pc = from
    /\ \/ refusal = None /\ pc' = to /\ outcome' = IF to = "accepted" THEN "accepted" ELSE None
       \/ refusal # None /\ pc' = "refused" /\ outcome' = refusal
    /\ UNCHANGED <<call, clock, keyState, held>>

Quiet == UNCHANGED <<answer, answered, stamp, asked>>

CheckCall == Check("call", CallRefusal(M, P), "read") /\ Quiet

ReadHeaders == Check("read", ReadRefusal(M, P), "cover") /\ Quiet

CheckCoverage == Check("cover", CoverageRefusal(M, P), "local") /\ Quiet

CheckLocalKey == Check("local", LocalKeyRefusal(ParamsOf(M).keyid, P), "expect") /\ Quiet

CheckExpectedKeyid ==
    /\ Check("expect", UnexpectedKeyidRefusal(ParamsOf(M).keyid, P),
             IF P.resolving THEN "ask" ELSE "alg")
    /\ Quiet

\* The resolver is handed the keyid ...
AskResolver ==
    /\ pc = "ask"
    /\ asked' = Append(asked, The(ParamsOf(M).keyid))
    /\ pc' = "wait"
    /\ UNCHANGED <<call, outcome, answer, answered, stamp, clock, keyState, held>>

\* ... and takes as long as it takes; it answers from the key state it then has.
ResolverAnswers ==
    LET said == Lookup(keyState, The(ParamsOf(M).keyid))
    IN  /\ Check("wait", ResolvedRefusal(said), "alg")
        /\ answer' = said
        /\ answered' = {clock}
        /\ UNCHANGED <<stamp, asked>>

CheckAlgorithm == Check("alg", AlgorithmRefusal(ParamsOf(M)), "base") /\ Quiet

\* Mutant: the key is looked up again when it is needed.
VerifyWithKeyNow ==
    Check("base", SignatureRefusal(M, KeyFor(ParamsOf(M).keyid, P,
                    IF P.resolving THEN Lookup(keyState, The(ParamsOf(M).keyid)) ELSE answer)),
          "served") /\ Quiet

\* Mutant: a message that is too old is refused before its signature is verified.
FreshnessThenSignature ==
    Check("base", FreshnessRefusal(ParamsOf(M), P, clock)
                    ?? SignatureRefusal(M, KeyFor(ParamsOf(M).keyid, P, answer)), "served") /\ Quiet

\* Mutant: a signature that does not verify sends the call back to the resolver.
VerifyOrResolveAgain ==
    IF P.resolving /\ pc = "base"
         /\ SignatureRefusal(M, KeyFor(ParamsOf(M).keyid, P, answer)) # None
    THEN pc' = "wait" /\ UNCHANGED <<call, outcome, clock, keyState, held>> /\ Quiet
    ELSE Check("base", SignatureRefusal(M, KeyFor(ParamsOf(M).keyid, P, answer)), "served") /\ Quiet

VerifySignature ==
    /\ Check("base", SignatureRefusal(M, KeyFor(ParamsOf(M).keyid, P, answer)), "served")
    /\ Quiet

CheckAuthority == Check("served", AuthorityServedRefusal(M, P), "fresh") /\ Quiet

\* Mutant: the clock is read when the call begins.
CheckFreshnessAtStart ==
    LET start == (CHOOSE h \in held : \A g \in held : h.at <= g.at).at
    IN  /\ Check("fresh", FreshnessRefusal(ParamsOf(M), P, start), "digest")
        /\ stamp' = {start}
        /\ UNCHANGED <<answer, answered, asked>>

\* The clock is read here, and only when one of the two checks is live.
CheckFreshness ==
    /\ Check("fresh", FreshnessRefusal(ParamsOf(M), P, clock), "digest")
    /\ stamp' = IF P.maxAge = {} /\ ParamsOf(M).expires = {} THEN {} ELSE {clock}
    /\ UNCHANGED <<answer, answered, asked>>

CheckDigests == Check("digest", DigestRefusal(M), "accepted") /\ Quiet

Tick ==
    /\ clock < MaxClock
    /\ clock' = clock + 1
    /\ UNCHANGED <<caller, keyState, held>>

\* The key state rotates, or learns of an AID, or finds one it cannot support.
Rotate ==
    /\ keyState' \in KeyStates
    /\ LET said == LookupNow(call, keyState')
       IN  held' = IF pc \in Ended \/ \E h \in held : h.answer = said THEN held
                   ELSE held \cup {[answer |-> said, at |-> clock]}
    /\ UNCHANGED <<caller, clock>>

VerifyStep ==
    \/ CheckCall \/ ReadHeaders \/ CheckCoverage \/ CheckLocalKey \/ CheckExpectedKeyid
    \/ AskResolver \/ ResolverAnswers \/ CheckAlgorithm \/ VerifySignature
    \/ CheckAuthority \/ CheckFreshness \/ CheckDigests

Next == VerifyStep \/ Tick \/ Rotate

Spec == Init /\ [][Next]_vars

\* The thread runs, and a resolver that is asked answers: fiki has no timeout of its own.
FairSpec == Spec /\ WF_vars(VerifyStep)

-------------------------------------------------------------------------------
(* Properties *)

\* Types: the stages, the refusals there are, and no time but the clock's own.
TypeOK ==
    /\ pc \in Stages
    /\ outcome \in Refusals \cup {None, "accepted"}
    /\ answer \in Answers
    /\ answered \in Opt(0..clock)
    /\ stamp \in Opt(0..clock)
    /\ clock \in 0..MaxClock
    /\ keyState \in KeyStates
    /\ \A h \in held : h.answer \in Answers /\ h.at \in 0..clock

\* The signature is by a key no honest verifier would distrust, over exactly
\* the values this message has, and somebody with the authority to say so
\* says the key is the signer's: the caller's own expected_aid, the resolver
\* and nothing but the resolver when there is one, else the keyid itself.
SignedAndVouched ==
    /\ LinesRefusal(ItemsOf(M), M, TRUE) = None
    /\ \E key \in SoundKeys :
         /\ Signature(M).by = key
         /\ Signature(M).over = Base(ItemsOf(M), M, ParamsOf(M))
         /\ P.expectedAid # {} => P.expectedAid = {Aid(key)}
         /\ P.expectedAid = {} /\ P.resolving => answer = {key}
         /\ P.expectedAid = {} /\ ~P.resolving => ParamsOf(M).keyid = {RawKeyid(key)}
         /\ P.expectedKeyid # {} => ParamsOf(M).keyid = P.expectedKeyid

\* A verdict is never given on less than a vouched signature (_verify).
AcceptedIsVouched == pc = "accepted" => SignedAndVouched

\* The line of the signed base for a component, and what it says.
Lines(name, params) ==
    {l \in ElementsOf(Signature(M).over.lines) : l[1] = [name |-> name, params |-> params]}

\* Under any minimum the content handed over, and the content of the request a
\* response answers, is the content the signature commits to: a line of the
\* signed base holds a digest that names it and contradicts it nowhere.
BodyIsBound ==
    pc = "accepted" /\ P.minimum # {} =>
      /\ HasContent(M.body) =>
           \E l \in Lines(ContentDigest, {}) :
             Recognized(l[2]) # {} /\ \A d \in Recognized(l[2]) : {d.of} = M.body
      /\ \A r \in M.request : HasContent(r.body) =>
           \E l \in Lines(ContentDigest, {"req"}) :
             Recognized(l[2]) # {} /\ \A d \in Recognized(l[2]) : {d.of} = r.body

\* A verifier that says which authorities it serves accepts nothing signed for
\* another, and nothing that names none (authorities, messages.py:552).
ServedOnly ==
    pc = "accepted" /\ ~M.response =>
      \A served \in P.authorities :
        \E l \in Lines("@authority", {}) : l[2] \in served

\* However long the resolver took, the signature was inside its window when the
\* answer came: the wait can only make an acceptance rarer.
FreshWhenAnswered ==
    pc = "accepted" =>
      \A t \in answered :
        /\ \A a \in P.maxAge : \E c \in ParamsOf(M).created : t <= c + a + P.skew
        /\ \A e \in ParamsOf(M).expires : t <= e + P.skew

\* No refusal that depends on the verifier's clock or on the body is given for a
\* message that was not signed: section 9 puts policy after the signature so that
\* a forger learns nothing about it.
PolicyHidden ==
    outcome \in PolicyRefusals => SignedAndVouched

\* A resolver does I/O on an attacker's behalf, so it is asked at most once, about
\* a well-formed AID that is the expected one, and only for a message whose
\* headers and covered list were already acceptable.
AskedOnlyWhatMatters ==
    asked # <<>> =>
      /\ asked = <<The(ParamsOf(M).keyid)>>
      /\ WellFormedAid(asked[1])
      /\ P.expectedKeyid \in {{}, {asked[1]}}
      /\ CallRefusal(M, P) = None /\ ReadRefusal(M, P) = None /\ CoverageRefusal(M, P) = None

\* Section 9 reports a covered field that is absent before a base that cannot be built
\* (keri-profile.md:135, "missing-component ... then signature-mismatch").
MissingComesFirst ==
    outcome = "SignatureMismatch" =>
      \A i \in DOMAIN ItemsOf(M) : ItemRefusal(ItemsOf(M)[i], M, TRUE) # "MissingComponent"

\* Whatever the interleaving, the call decides what section 9 says, for a key state
\* and a clock of the call.
S9 == INSTANCE Section9 WITH outcome <- CodeOf(outcome)

ImplementsSection9 == S9!Spec

\* Every call ends, however the clock and the key state move.
EveryCallEnds == <>(pc \in Ended)
===============================================================================
