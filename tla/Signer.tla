-------------------------------- MODULE Signer --------------------------------
(***************************************************************************)
(* sign_request and sign_response (py/src/fiki/messages.py): what they     *)
(* refuse, in order, and the message that carries what they return.        *)
(*                                                                         *)
(* A draft is the record of a call's arguments: the message m as the       *)
(* caller describes it, the key, and the optional arguments, each the      *)
(* empty set when it is None.  badText stands for a label, a created or    *)
(* expires, a nonce, a tag or a keyid that RFC 8941 cannot carry.          *)
(***************************************************************************)
EXTENDS Verification

\* The caller's own list is read in its order.
SpecsRefusal(d) ==
    IF d.covered = {} THEN None
    ELSE FirstRefusal([i \in DOMAIN The(d.covered) |-> SpecRefusal(The(d.covered)[i])])

\* Everything checked before a body is considered.
SignCallRefusal(d) ==
    IF d.badLabel THEN "ValueError"
    ELSE FlooredRefusal(d.minimum, IF d.m.response THEN ResponseMinimum ELSE RequestMinimum)
           ?? IF \/ NotCanonical(d.m.headers)
                 \/ \E r \in d.m.request : NotCanonical(r.headers) \/ AnnouncesLostBody(r)
              THEN "ValueError"
              ELSE SpecsRefusal(d)

\* Mutant: the profile's minimum instead of fiki's default.
ProfileItems(m) ==
    IF ~m.response THEN <<Item("@method"), Item("@path"), Item("@query")>>
    ELSE <<Item("@status"), Req("@method"), Req("@path"), Req("@query")>>

\* Without a list of the caller's own: a request's four parts, a status, and the
\* three parts of the request that a response answers.
DefaultItems(m) ==
    IF ~m.response THEN DefaultCovered
    ELSE IF m.request = {} THEN <<Item("@status")>>
    ELSE <<Item("@status"), Req("@method"), Req("@path"), Req("@query")>>

Named(d) ==
    IF d.covered = {} THEN DefaultItems(d.m)
    ELSE [i \in DOMAIN The(d.covered) |-> Component(The(d.covered)[i])]

\* A digest the verifier would refuse for this body, and a body the caller's own
\* list leaves out, are refused; the default list grows instead.
CoverBodyRefusal(d) ==
    IF d.m.body = {} THEN None
    ELSE IF \E digest \in d.m.headers.digest :
              ReadDigestRefusal(digest) # None \/ CompareDigestRefusal(digest, d.m.body) # None
    THEN "ValueError"
    ELSE IF d.covered # {} /\ ~CoversBody(Named(d)) THEN "UncoveredBody"
    ELSE None

\* A default answer to a request with content has to have a digest to bind.
BindRequestRefusal(d) ==
    IF /\ d.covered = {} /\ RequestHadBody(d.m)
       /\ \E r \in d.m.request : r.headers.digest = {}
    THEN "UncoveredBody" ELSE None

ItemsSigned(d) ==
    Named(d)
      \o (IF d.covered = {} /\ d.m.body # {} THEN <<Item(ContentDigest)>> ELSE <<>>)
      \o (IF d.covered = {} /\ RequestHadBody(d.m) THEN <<Req(ContentDigest)>> ELSE <<>>)

\* The headers the message will go out with: with the digest fiki computed.
Sending(d) ==
    IF d.m.body # {} /\ d.m.headers.digest = {}
    THEN [d.m EXCEPT !.headers.digest = {DigestOf(The(d.m.body))}]
    ELSE d.m

\* Mutant: a response has a body whenever its headers say so, as a request has.
SignMinimumByHeaders(d) ==
    IF \E minimum \in d.minimum :
         ~CoversMinimum(ItemsSigned(d), minimum, RequestHasBody(Sending(d).headers, d.m.body),
                        RequestHadBody(d.m))
    THEN "InsufficientCoverage" ELSE None

SignMinimumRefusal(d) ==
    IF \E minimum \in d.minimum :
         ~CoversMinimum(ItemsSigned(d), minimum, HasBody(Sending(d)), RequestHadBody(d.m))
    THEN "InsufficientCoverage" ELSE None

\* A request digest that the request's body contradicts.  One that is not there at
\* all is parsed all the same, which no refusal class covers.
RequestDigestRefusal(d) ==
    IF ~BindsRequestDigest(ItemsSigned(d)) \/ \A r \in d.m.request : r.body = {} THEN None
    ELSE LET r == The(d.m.request)
         IN  IF r.headers.digest = {} THEN "AttributeError"
             ELSE ReadDigestRefusal(The(r.headers.digest))
                    ?? CompareDigestRefusal(The(r.headers.digest), r.body)

\* signature_base and response_signature_base.
BaseRefusal(d) ==
    IF \/ d.badText
       \/ ~d.m.response /\ ~IsToken(d.m.method)
       \/ \E r \in d.m.request : ~IsToken(r.method)
    THEN "ValueError"
    ELSE CheckCovered(ItemsSigned(d), d.m.response)
           ?? LinesRefusal(ItemsSigned(d), Sending(d), FALSE)

SignRefusal(d) ==
    SignCallRefusal(d) ?? (CoverBodyRefusal(d) ?? (BindRequestRefusal(d)
      ?? (SignMinimumRefusal(d) ?? (RequestDigestRefusal(d) ?? BaseRefusal(d)))))

\* Mutant: the time is read once, when the module is loaded.
ParamsSignedAtImport(d, now) ==
    [created |-> {IF d.created = {} THEN 0 ELSE The(d.created)},
     expires |-> d.expires,
     keyid |-> {IF d.keyid = {} THEN RawKeyid(d.key) ELSE The(d.keyid)},
     alg |-> {"ed25519"}, bad |-> FALSE]

\* The parameters of a signature made now.
ParamsSigned(d, now) ==
    [created |-> {IF d.created = {} THEN now ELSE The(d.created)},
     expires |-> d.expires,
     keyid |-> {IF d.keyid = {} THEN RawKeyid(d.key) ELSE The(d.keyid)},
     alg |-> {"ed25519"}, bad |-> FALSE]

\* Mutant: Signature-Input is left out of what is returned.
WithSignatureAlone(m, items, params, value) ==
    [m EXCEPT
      !.headers.signature =
        {[shape |-> "dict",
          members |-> <<[label |-> "sig", bytes |-> TRUE, full |-> TRUE, value |-> value]>>]}]

\* RFC 9421's two fields for one signature, in the message that carries them.
WithSignature(m, items, params, value) ==
    LET signature == [shape |-> "dict",
                      members |-> <<[label |-> "sig", bytes |-> TRUE, full |-> TRUE, value |-> value]>>]
        input == [shape |-> "dict",
                  members |-> <<[label |-> "sig", list |-> TRUE, items |-> items, params |-> params]>>]
    IN  [m EXCEPT !.headers = [m.headers EXCEPT !.signature = {signature}, !.input = {input}]]

\* The message with what a signer that refuses nothing returns.
SignedMessage(d, now) ==
    LET items == ItemsSigned(d)
        params == ParamsSigned(d, now)
    IN  WithSignature(Sending(d), items, params,
                      Sign(d.key, Base(items, Sending(d), params)))
-------------------------------------------------------------------------------
(* The calls there are.                                                    *)

DraftFields ==
    {"m", "key", "covered", "minimum", "keyid", "created", "expires", "badLabel", "badText"}

\* A component as a caller names it: "42" stands for a name that is no string, which
\* only a peer can send.
TypedSpec(spec) ==
    IsRecord(spec, {"name", "params"}) /\ spec.name # "42" /\ spec.params \subseteq {"req", "other"}

\* An argument is given once or not at all, a covered list is a sequence, a message has one
\* body, one Content-Digest and one request at most, and a Key holds a key pair.
TypedDraft(d) ==
    /\ DraftFields \subseteq DOMAIN d
    /\ IsRecord(d.m, MessageFields)
    /\ IsRecord(d.m.headers, HeaderFields) /\ IsRecord(d.m.url, UrlFields)
    /\ d.key \in SoundKeys
    /\ AtMostOne(d.covered)
    /\ \A items \in d.covered : IsSequence(items) /\ \A i \in DOMAIN items : TypedSpec(items[i])
    /\ OneOf(d.keyid, Keyids) /\ OneOf(d.created, Int) /\ OneOf(d.expires, Int)
    /\ AtMostOne(d.m.body) /\ AtMostOne(d.m.headers.digest) /\ AtMostOne(d.m.request)
    /\ \A r \in d.m.request : AtMostOne(r.body) /\ AtMostOne(r.headers.digest)
===============================================================================
