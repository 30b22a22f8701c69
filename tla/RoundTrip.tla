------------------------------- MODULE RoundTrip -------------------------------
(***************************************************************************)
(* One message from sign_request or sign_response to verify_request or     *)
(* verify_response, with nobody in between but HTTP itself.                *)
(*                                                                         *)
(* The signer and the verifier are separate code with separate rules: what *)
(* a body is, what must be covered, what a digest has to say, how an       *)
(* authority is read.  A call that signs should make a message the other   *)
(* side accepts, and a call that refuses should be one it would refuse.    *)
(***************************************************************************)
EXTENDS Transport

CONSTANTS
    Exchanges,  \* records [draft, policy]: a call to sign, and the call that will verify
    Resolver,   \* what the verifier's resolver answers, by AID
    Starts,     \* when a message may be signed
    MaxClock    \* bound on the clock

\* The calls are ones that can be made, with a secret key and a message of their types.
ASSUME RoundTripAssumption ==
    /\ MaxClock \in Nat /\ Starts \subseteq 0..MaxClock
    /\ \A x \in Exchanges : TypedDraft(x.draft) /\ TypedCall([msg |-> x.draft.m, policy |-> x.policy])
    /\ "UnsupportedSigner" \notin Keys

VARIABLES
    exchange,  \* the two calls' arguments
    stage,     \* "signing", "sent", "received", "verified", or "refused" by the signer
    message,   \* the message, once it is signed
    signedAt,  \* the signer's clock when it was
    outcome,   \* the refusal of whichever call has been made
    clock

vars == <<exchange, stage, message, signedAt, outcome, clock>>

D == exchange.draft
P == exchange.policy

\* What the resolver says of the keyid the signer sends.
Answer ==
    LET keyid == The(ParamsSigned(D, clock).keyid)
    IN  IF keyid.form = "aid" /\ keyid.id \in DOMAIN Resolver THEN Resolver[keyid.id] ELSE {}

Init ==
    /\ exchange \in Exchanges
    /\ stage = "signing"
    /\ clock \in Starts
    /\ signedAt = clock
    /\ message = exchange.draft.m
    /\ outcome = None

\* Mutant: what was built before the refusal leaves the call.
SignMessageAnyway ==
    /\ stage = "signing"
    /\ signedAt' = clock
    /\ outcome' = SignRefusal(D)
    /\ message' = Sending(D)
    /\ stage' = IF outcome' = None THEN "sent" ELSE "refused"
    /\ UNCHANGED <<exchange, clock>>

SignMessage ==
    /\ stage = "signing"
    /\ signedAt' = clock
    /\ outcome' = SignRefusal(D)
    /\ IF outcome' = None
       THEN stage' = "sent" /\ message' = SignedMessage(D, clock)
       ELSE stage' = "refused" /\ UNCHANGED message
    /\ UNCHANGED <<exchange, clock>>

Carry ==
    /\ stage = "sent"
    /\ message' \in Arrivals(message)
    /\ stage' = "received"
    /\ UNCHANGED <<exchange, signedAt, outcome, clock>>

Verify ==
    /\ stage = "received"
    /\ outcome' = Refusal(message, P, Answer, clock)
    /\ stage' = "verified"
    /\ UNCHANGED <<exchange, message, signedAt, clock>>

\* The clock that matters is the one the message is under way in.
Tick ==
    /\ stage \in {"sent", "received"}
    /\ clock < MaxClock
    /\ clock' = clock + 1
    /\ UNCHANGED <<exchange, stage, message, signedAt, outcome>>

Next == SignMessage \/ Carry \/ Verify \/ Tick

Spec == Init /\ [][Next]_vars

-------------------------------------------------------------------------------
(* Properties *)

\* Types, and no message leaves a signer that refused.
TypeOK ==
    /\ exchange \in Exchanges
    /\ stage \in {"signing", "sent", "received", "verified", "refused"}
    /\ outcome \in Refusals \cup {None, "UncoveredBody", "AttributeError"}
    /\ signedAt \in 0..clock /\ clock \in 0..MaxClock
    /\ stage = "refused" => outcome # None /\ message = D.m

\* The verifying call has no mistake of its own.
PolicyInOrder ==
    /\ ~BadWindow(P) /\ ~BadExpectedKeyid(P) /\ ~BadAuthorities(P) /\ ~TwoKeySources(P)
    /\ FlooredRefusal(P.minimum, IF D.m.response THEN ResponseMinimum ELSE RequestMinimum) = None
    /\ D.m.response => P.authorities = {}

\* The signer was told to meet the verifier's minimum, or both were left to their defaults.
MinimumAgreed ==
    \A minimum \in P.minimum :
      \/ /\ D.covered = {} /\ (D.m.response => D.m.request # {})
         /\ minimum \subseteq IF D.m.response THEN ResponseMinimum ELSE DefaultMinimum
      \/ \E own \in D.minimum : minimum \subseteq own

\* A body that the message announces, or whose digest is signed, was handed over.
BodiesHandedOver ==
    /\ ~D.m.response /\ D.m.body = {} => ~RequestHasBody(D.m.headers, {})
    /\ CoversBody(ItemsSigned(D)) => D.m.body # {}
    /\ BindsRequestDigest(ItemsSigned(D)) => \A r \in D.m.request : r.body # {}

\* The keyid, or whatever the verifier goes by in its place, names the signer.
KeyAgreed ==
    LET keyid == ParamsSigned(D, signedAt).keyid
    IN  /\ IF P.expectedAid # {} THEN P.expectedAid = {Aid(D.key)}
           ELSE IF P.resolving THEN Answer = {D.key}
           ELSE keyid = {RawKeyid(D.key)}
        /\ P.expectedKeyid \subseteq keyid

\* The Host a client sends is the URL's, and the verifier serves the authority it says,
\* which a list of the caller's own covers.
AuthorityAgreed ==
    /\ \A served \in P.authorities :
          /\ D.covered # {} => Item("@authority") \in ElementsOf(Named(D))
          /\ AuthorityRefusal(D.m, FALSE) = None /\ Authority(D.m) \in served
    /\ ~D.m.response => \A host \in D.m.headers.host : host = Authority(D.m)

InsideTheWindow ==
    LET created == The(ParamsSigned(D, signedAt).created)
    IN  /\ \A age \in P.maxAge : clock \in (created - P.skew)..(created + age + P.skew)
        /\ \A e \in D.expires : clock <= e + P.skew

\* Whatever a signer is asked to sign with the verifier's minimum, or its own
\* defaults, and signs, the verifier accepts: whichever form the URL arrives in and
\* however the body is framed (messages.py:112, "a verifier left at its defaults
\* accepts what a fiki signer produces", and the minimum argument of sign_request).
SignedIsAccepted ==
    /\ stage = "received"
    /\ PolicyInOrder /\ MinimumAgreed /\ BodiesHandedOver
    /\ KeyAgreed /\ AuthorityAgreed /\ InsideTheWindow
    => Refusal(message, P, Answer, clock) = None

\* The message as it would have been sent, had the signer not refused it: signed
\* whenever there is a base to sign.
HadItBeenSigned ==
    LET items == ItemsSigned(D)
        params == ParamsSigned(D, signedAt)
        base == IF LinesRefusal(items, Sending(D), TRUE) = None
                THEN Base(items, Sending(D), params) ELSE [lines |-> <<>>, params |-> params]
    IN  WithSignature(Sending(D), items, params, Sign(D.key, base))

\* A signer that reports a defect of the message, rather than a mistake in the call,
\* reports one the verifier would refuse: it is never stricter than the other side.
\* An empty body is the exception, which a signer insists on covering once it is
\* handed over.
RefusesOnlyWhatAVerifierWould ==
    /\ stage = "refused" /\ SignCallRefusal(D) = None /\ outcome \notin {"ValueError", "AttributeError"}
    /\ D.m.body # {EmptyBody}
    /\ P.minimum # {} /\ P.minimum = D.minimum
    => Refusal(HadItBeenSigned, P, Answer, signedAt) # None

\* A refusal to sign is a FikiError, or a ValueError or TypeError for a mistake in the
\* call (messages.py:268), and never anything else.
RefusalsAreNamed == stage = "refused" => outcome \in Refusals \cup {"UncoveredBody"}
===============================================================================
