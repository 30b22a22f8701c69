-------------------------------- MODULE Samples --------------------------------
(***************************************************************************)
(* The messages the model-checking runs feed a verifier: an honest signed  *)
(* message, changed by its signer before it is signed, and changed by      *)
(* whoever carries it afterwards.  Each change is one defect, so a message *)
(* with several of them has several refusals competing to be the answer.   *)
(* Nothing here models code.                                               *)
(***************************************************************************)
EXTENDS Signer

CONSTANTS
    K1, K2,       \* sound keys
    Weak,         \* a small-order point
    E1,           \* a transferable AID whose current key is K1 when it has one
    E2, E3, E4    \* AIDs with no key known, a weak one, and one nobody may support

Now == 4

NoHeaders ==
    [signature |-> {}, input |-> {}, digest |-> {}, host |-> {"api"}, field |-> {},
     length |-> {}, te |-> FALSE, twice |-> FALSE]

Origin(path) == [form |-> "origin", authority |-> "none", path |-> path, query |-> "?q"]

PlainRequest ==
    [response |-> FALSE, method |-> "POST", url |-> Origin("/a"), status |-> 0,
     headers |-> [NoHeaders EXCEPT !.digest = {DigestOf("b1")}, !.length = {"positive"}],
     body |-> {"b1"}, request |-> {}]

PlainResponse ==
    [response |-> TRUE, method |-> "none", url |-> Origin("none"), status |-> 200,
     headers |-> [NoHeaders EXCEPT !.host = {}, !.digest = {DigestOf("b2")}],
     body |-> {"b2"}, request |-> {PlainRequest}]

Parameters(keyid) ==
    [created |-> {Now}, expires |-> {}, keyid |-> {keyid}, alg |-> {"ed25519"}, bad |-> FALSE]

\* What a signer is about to sign.
Draft(m, items, key, keyid) ==
    [m |-> m, items |-> items, params |-> Parameters(keyid), key |-> key]

RequestDraft(key, keyid) ==
    Draft(PlainRequest, DefaultCovered \o <<Item(ContentDigest)>>, key, keyid)

ResponseDraft(key, keyid) ==
    Draft(PlainResponse,
          <<Item("@status"), Req("@method"), Req("@path"), Req("@query"), Item(ContentDigest),
            Req(ContentDigest)>>, key, keyid)

\* A signature over what has a base, and over nothing in particular otherwise.
Signed(d) ==
    LET value == IF LinesRefusal(d.items, d.m, TRUE) = None
                 THEN Sign(d.key, Base(d.items, d.m, d.params))
                 ELSE Sign(d.key, [lines |-> <<>>, params |-> d.params])
    IN  WithSignature(d.m, d.items, d.params, value)

DigestBy(d, alg, of) == {[d EXCEPT !.members = {[alg |-> alg, bytes |-> TRUE, of |-> of]}]}

\* Changes made before signing: the signature covers them.
BeforeSigning(change, d) ==
    CASE change = "none" -> d
      [] change = "not a string" -> [d EXCEPT !.items = <<Item("42")>> \o @]
      [] change = "uppercase" -> [d EXCEPT !.items = @ \o <<Item("X-Field")>>]
      [] change = "bad parameter" -> [d EXCEPT !.params.bad = TRUE]
      [] change = "no keyid" -> [d EXCEPT !.params.keyid = {}]
      [] change = "empty keyid" -> [d EXCEPT !.params.keyid = {EmptyKeyid}]
      [] change = "garbled keyid" -> [d EXCEPT !.params.keyid = {GarbledKeyid}]
      [] change = "weak keyid" -> [d EXCEPT !.params.keyid = {RawKeyid(Weak)}, !.key = Weak]
      [] change = "raw keyid" -> [d EXCEPT !.params.keyid = {RawKeyid(d.key)}]
      [] change = "other aid" -> [d EXCEPT !.params.keyid = {Aid(K2)}]
      [] change = "unknown aid" -> [d EXCEPT !.params.keyid = {Aid(E2)}]
      [] change = "weak aid" -> [d EXCEPT !.params.keyid = {Aid(E3)}, !.key = Weak]
      [] change = "unsupported aid" -> [d EXCEPT !.params.keyid = {Aid(E4)}]
      [] change = "aid" -> [d EXCEPT !.params.keyid = {Aid(E1)}]
      [] change = "no created" -> [d EXCEPT !.params.created = {}]
      [] change = "stale" -> [d EXCEPT !.params.created = {0}]
      [] change = "future" -> [d EXCEPT !.params.created = {Now + 2}]
      [] change = "expired" -> [d EXCEPT !.params.expires = {Now - 2}]
      [] change = "other alg" -> [d EXCEPT !.params.alg = {"hmac"}]
      [] change = "no alg" -> [d EXCEPT !.params.alg = {}]
      [] change = "twice" -> [d EXCEPT !.items = @ \o <<@[1]>>]
      [] change = "unknown derived" -> [d EXCEPT !.items = @ \o <<Item("@other")>>]
      [] change = "unknown component parameter" ->
            [d EXCEPT !.items = @ \o <<[name |-> "x-field", params |-> {"other"}]>>]
      [] change = "status" -> [d EXCEPT !.items = @ \o <<Item("@status")>>]
      [] change = "req" -> [d EXCEPT !.items = @ \o <<Req("x-field")>>]
      [] change = "first uncovered" -> [d EXCEPT !.items = Tail(@)]
      [] change = "body uncovered" ->
            [d EXCEPT !.items = SelectSeq(@, LAMBDA item : item.name # ContentDigest)]
      [] change = "authority uncovered" ->
            [d EXCEPT !.items = SelectSeq(@, LAMBDA item : item.name # "@authority")]
      [] change = "absent field" -> [d EXCEPT !.items = @ \o <<Item("x-field")>>]
      [] change = "present field" ->
            [d EXCEPT !.items = @ \o <<Item("x-field")>>, !.m.headers.field = {"v"}]
      [] change = "garbled digest" -> [d EXCEPT !.m.headers.digest = {[x EXCEPT !.shape = "garbled"] : x \in @}]
      [] change = "for another host" -> [d EXCEPT !.m.headers.host = {"files"}]
      [] change = "other digest" -> [d EXCEPT !.m.headers.digest = UNION {DigestBy(x, "sha-512", "b0") : x \in @}]
      [] change = "no known digest" -> [d EXCEPT !.m.headers.digest = UNION {DigestBy(x, "md5", "b1") : x \in @}]
      [] change = "second digest" ->
            [d EXCEPT !.m.headers.digest =
               {[x EXCEPT !.members = @ \cup {[alg |-> "sha-512", bytes |-> TRUE, of |-> "b0"]}] : x \in @}]

\* Changes made after signing: an intermediary's, a faulty caller's, or a fault's.
AfterSigning(change, m) ==
    CASE change = "none" -> m
      [] change = "no signature" -> [m EXCEPT !.headers.signature = {}]
      [] change = "empty signature" -> [m EXCEPT !.headers.signature = {[x EXCEPT !.shape = "empty"] : x \in @}]
      [] change = "garbled signature" -> [m EXCEPT !.headers.signature = {[x EXCEPT !.shape = "garbled"] : x \in @}]
      [] change = "signature not bytes" ->
            [m EXCEPT !.headers.signature = {[x EXCEPT !.members[1].bytes = FALSE] : x \in @}]
      [] change = "short signature" ->
            [m EXCEPT !.headers.signature = {[x EXCEPT !.members[1].full = FALSE] : x \in @}]
      [] change = "two signatures" ->
            [m EXCEPT !.headers.signature =
               {[x EXCEPT !.members = @ \o <<[@[1] EXCEPT !.label = "two"]>>] : x \in @}]
      [] change = "other label" ->
            [m EXCEPT !.headers.signature = {[x EXCEPT !.members[1].label = "two"] : x \in @}]
      [] change = "no input" -> [m EXCEPT !.headers.input = {}]
      [] change = "garbled input" -> [m EXCEPT !.headers.input = {[x EXCEPT !.shape = "garbled"] : x \in @}]
      [] change = "input not a list" ->
            [m EXCEPT !.headers.input = {[x EXCEPT !.members[1].list = FALSE] : x \in @}]
      [] change = "two inputs" ->
            [m EXCEPT !.headers.input =
               {[x EXCEPT !.members = @ \o <<[@[1] EXCEPT !.label = "two"]>>] : x \in @}]
      [] change = "method" -> [m EXCEPT !.method = "PUT"]
      [] change = "bad method" -> [m EXCEPT !.method = "P OST"]
      [] change = "path" -> [m EXCEPT !.url.path = "/b"]
      [] change = "bad path" -> [m EXCEPT !.url.path = Bad]
      [] change = "unreadable url" -> [m EXCEPT !.url.form = "unreadable"]
      [] change = "absolute url" -> [m EXCEPT !.url.form = "absolute", !.url.authority = "api"]
      [] change = "other url" -> [m EXCEPT !.url.form = "absolute", !.url.authority = "files"]
      [] change = "no host" -> [m EXCEPT !.headers.host = {}]
      [] change = "other host" -> [m EXCEPT !.headers.host = {"files"}]
      [] change = "bad host" -> [m EXCEPT !.headers.host = {Bad}]
      [] change = "no single host" -> [m EXCEPT !.headers.host = {NotAHost}]
      [] change = "bad field" -> [m EXCEPT !.headers.field = {Bad}]
      [] change = "status" -> [m EXCEPT !.status = 500]
      [] change = "no status" -> [m EXCEPT !.status = 42]
      [] change = "401" -> [m EXCEPT !.status = 401]
      [] change = "no body" -> [m EXCEPT !.body = {}]
      [] change = "other body" -> [m EXCEPT !.body = {"b0"}]
      [] change = "no digest" -> [m EXCEPT !.headers.digest = {}]
      [] change = "chunked" -> [m EXCEPT !.headers.te = TRUE]
      [] change = "headers twice" -> [m EXCEPT !.headers.twice = TRUE]
      [] change = "asked elsewhere" -> [m EXCEPT !.request = {[r EXCEPT !.url.path = "/b"] : r \in @}]
      [] change = "asked with other body" -> [m EXCEPT !.request = {[r EXCEPT !.body = {"b0"}] : r \in @}]
      [] change = "asked with lost body" -> [m EXCEPT !.request = {[r EXCEPT !.body = {}] : r \in @}]
      [] change = "asked with no body" ->
            [m EXCEPT !.request = {[r EXCEPT !.body = {}, !.headers.length = {}] : r \in @}]
      [] change = "asked with no digest" -> [m EXCEPT !.request = {[r EXCEPT !.headers.digest = {}] : r \in @}]
      [] change = "asked with garbled digest" ->
            [m EXCEPT !.request =
               {[r EXCEPT !.headers.digest = {[x EXCEPT !.shape = "garbled"] : x \in @}] : r \in @}]
      [] change = "nothing asked" -> [m EXCEPT !.request = {}]

\* What a set of drafts, or of messages, becomes with one more of some changes.
DraftsWith(changes, drafts) == {BeforeSigning(c, d) : c \in changes, d \in drafts}

SignedDrafts(drafts) == {Signed(d) : d \in drafts}

MessagesWith(changes, messages) == {AfterSigning(c, m) : c \in changes, m \in messages}

\* What verify_request and verify_response do when told only what they must be.
DefaultPolicy(response) ==
    [minimum |-> {IF response THEN ResponseMinimum ELSE DefaultMinimum},
     authorities |-> IF response THEN {} ELSE {{"api"}},
     expectedAid |-> {}, resolving |-> FALSE, expectedKeyid |-> {},
     maxAge |-> {2}, skew |-> 1]

-------------------------------------------------------------------------------
(* The calls of the runs.                                                  *)

KeyChanges ==
    {"no keyid", "empty keyid", "garbled keyid", "weak keyid", "raw keyid", "aid", "other aid", "unknown aid",
     "weak aid", "unsupported aid", "other alg", "no alg"}

TimeChanges == {"no created", "stale", "future", "expired"}

ListChanges ==
    {"not a string", "uppercase", "bad parameter", "twice", "unknown derived",
     "unknown component parameter", "status", "req", "first uncovered", "body uncovered",
     "absent field", "present field"}

DigestChanges == {"garbled digest", "other digest", "no known digest", "second digest"}

BeforeChanges ==
    {"none", "authority uncovered"} \cup KeyChanges \cup TimeChanges \cup ListChanges \cup DigestChanges

HeaderChanges ==
    {"no signature", "empty signature", "garbled signature", "signature not bytes",
     "short signature", "two signatures", "other label", "no input", "garbled input",
     "input not a list", "two inputs", "no body", "other body", "no digest", "headers twice"}

RequestChanges ==
    {"none", "method", "bad method", "path", "bad path", "unreadable url", "absolute url", "other url",
     "no host", "other host", "bad host", "no single host", "bad field", "chunked"} \cup HeaderChanges

ResponseChanges ==
    {"none", "status", "no status", "401", "asked elsewhere", "asked with other body",
     "asked with lost body", "asked with no body", "asked with no digest",
     "asked with garbled digest", "nothing asked"} \cup HeaderChanges

\* A draft with at most two defects.
TwoDefects(draft, before, after) ==
    LET one == DraftsWith(before, {draft})
    IN  SignedDrafts(DraftsWith(before, one))
          \cup MessagesWith(after, SignedDrafts(one))
          \cup MessagesWith(after, MessagesWith(after, SignedDrafts({draft})))

OptOut(policy) == [policy EXCEPT !.minimum = {}, !.authorities = {}, !.maxAge = {}]

Resolving(policy) == [policy EXCEPT !.resolving = TRUE]

\* What a verifier is told, for a draft whose keyid is the raw key, and for one
\* whose keyid is an AID.
RawPolicies(response) ==
    LET default == DefaultPolicy(response)
    IN  {default, [OptOut(default) EXCEPT !.expectedAid = {Aid(K1)}]}

AidPolicies(response) ==
    LET default == DefaultPolicy(response)
    IN  {[Resolving(default) EXCEPT !.expectedKeyid = {Aid(E1)}],
         [Resolving(OptOut(default)) EXCEPT !.authorities = IF response THEN {} ELSE {{"api", "files"}}]}

Pairings(messages, policies) == {[msg |-> m, policy |-> p] : m \in messages, p \in policies}

RequestCalls ==
    {c \in Pairings(TwoDefects(RequestDraft(K1, RawKeyid(K1)), BeforeChanges \cup {"for another host"},
                               RequestChanges),
                    RawPolicies(FALSE))
           \cup Pairings(TwoDefects(RequestDraft(K1, Aid(E1)), BeforeChanges, RequestChanges),
                         AidPolicies(FALSE)) : Undisputed(c)}

ResponseCalls ==
    {c \in Pairings(TwoDefects(ResponseDraft(K1, RawKeyid(K1)), BeforeChanges, ResponseChanges),
                    RawPolicies(TRUE))
           \cup Pairings(TwoDefects(ResponseDraft(K1, Aid(E1)), BeforeChanges, ResponseChanges),
                         AidPolicies(TRUE)) : Undisputed(c)}

DefectiveCalls == RequestCalls \cup ResponseCalls

AllIds == {E1, E2, E3, E4}

\* One key state, in which each AID meets one answer.
Settled ==
    {[i \in AllIds |-> CASE i = E1 -> {K1} [] i = E2 -> {} [] i = E3 -> {Weak}
                         [] OTHER -> {"UnsupportedSigner"}]}

\* A few calls raced against the clock and the key state: the signer's key is
\* K1, and at any moment it may have become K2 or be K1 again.
RaceCalls ==
    LET mine == RequestDraft(K1, Aid(E1))
        drafts == DraftsWith({"none", "expired", "future", "raw keyid"}, {mine})
                    \cup {RequestDraft(K2, Aid(E1))}
    IN  Pairings(SignedDrafts(drafts) \cup MessagesWith({"path"}, SignedDrafts({mine})),
                 AidPolicies(FALSE) \cup {DefaultPolicy(FALSE)})

Rotating == {[i \in {E1} |-> {k}] : k \in {K1, K2}}
================================================================================
