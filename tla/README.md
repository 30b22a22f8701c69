# A TLA+ verification of fiki

fiki signs and verifies HTTP messages with RFC 9421 signatures by Ed25519 keys, for clients and
servers that name each other by KERI AIDs. It exists as six ports of one design: Python, JavaScript,
Go, Rust, Java and C#. The Python one is the reference the vectors are generated from, and is modelled
whole, down to the characters its readers tell apart; the JavaScript one is the only one whose calls
can be interleaved with their caller, and is modelled as that; of the ports whose integers have a
width, the arithmetic of time is. This directory holds TLA+ modules translated from them, the TLC configurations that
check them, and proofs for TLAPS: of the verifier's properties, and that it is section 9 of the profile;
of the JavaScript verifier and signer, whatever their caller does at an await; of a signer and a
verifier together; of what clients and a server may rely on across a network; and, of what the readers
promise, the ports' arithmetic of time and the authority every release of Python reads.

Line numbers refer to `py/src/fiki/` unless another path is given; `js/` stands for `js/src/`. `PROJECT.json` maps every
definition to the lines it stands for.

## 1. The system

| Part | State | Operations | Modelled in |
|---|---|---|---|
| Covered lists, `base.py:82-170`, minimums, `messages.py:107-190` | none | `component`, `req`, `check_covered`, `_floored`, `_check_minimum` | `Components` |
| Messages and bases, `base.py:173-656` | none | `canonical`, `value_of`, `lines_for`, `signature_base`, `response_signature_base` | `Messages` |
| Verifier, `messages.py:374-1094` | the call's own variables; the caller's clock and resolver | `verify_request`, `verify_response`, `_verify` | `Verification`, `Verifier` |
| Signer, `messages.py:193-371` | the call's own variables; the caller's clock | `sign_request`, `sign_response` | `Signer`, `RoundTrip` |
| Callers: a client that waits and retries, a server that verifies, acts and answers | what a client waits for, key state, clocks | the use that `docs/keri-profile.md` sections 3, 6 and 7 describe | `Exchange` |
| Keys and AIDs, `keys.py` | a `Key` holds its private key | `public_key`, `verifying_key`, `well_formed_aid` | as sets, in `Verification`; as points and text, in `Curve` and `KeyTexts` |
| Text formats of keys, `formats.py`, `openssh.py` | none | `aid_from`, `read_openssh` and the readers under them | `KeyTexts`, `OpenSshKeys` |
| Structured fields, `messages.py:880-970` | none | `_parse`: parse, bound, scan | `StructuredFields`; in `Verification` a header is parsed, or does not parse |
| Targets and lengths, `base.py:300-460`, `messages.py:630-650` | none | `_split`, `_authority`, `_hostport`, `_port`, `_request_has_body` | `RequestHeads`; in `Messages` a URL is absolute, origin-form or unreadable |
| JavaScript verifier, `js/messages.js:394-982` | the call's variables, the caller's body buffers | `verifyRequest`, `verifyResponse`, suspended at awaits | `JsVerifier` |
| JavaScript signer, `js/messages.js:187-357` | the same, and the key's handle | `signRequest`, `signResponse`, suspended at awaits | `JsSigner` |
| Go, Rust, Java and C# ports | as Python | the same, in fixed-width integers | Go's and Java's freshness check, in `Windows` |
| Key vectors, `vectors/rfc8032.py`, `vectors/keys/`, the points of `vectors/generate.py` | none | construct keys, signatures and files, with what a port must make of them | `Curve`, `KeyTexts`, `OpenSshKeys`, `KeyVectors` |
| Message vectors, differential harness, workflows | none | generate and compare test data | only the code table, `CodeOf` |

**Interactions.** A signer and a verifier share nothing but the message. A verifier calls one piece
of foreign code, the resolver, once, in the middle of its checks. The clock is read late, after the
signature. Whether a response is the answer to a request is decided by covered components that are
read from the request the client kept. The signer's rules and the verifier's are separate code that
must agree: what a body is, what must be covered, what a digest must say, where an authority is read.

**What is hard here.** fiki keeps no state and no thread of its own, so the hard behaviours are
these, and each is listed at its line under `hazards` in `PROJECT.json`:

* about twenty-five checks in an order that the profile fixes (section 9), where a message with two
  defects must get one code, and where a check made too early leaks something to a forger;
* a wait for foreign code in the middle of a call, in which time passes and keys rotate;
* in JavaScript, a call that is suspended at every await while its caller runs, and that keeps
  references to the caller's buffers;
* three authorities over the key of a message (`expected_aid`, the resolver, the keyid), which may
  disagree;
* five places that decide whether a message has a body, by its content or by its headers;
* two forms of a URL and two places an authority can come from;
* text that has to have one reading and one spelling: several spellings of a key with spare bits, padding
  and comments, a key file that says everything twice, URL and header parsers that are too lenient and
  differ between releases, where fiki checks again what they let through;
* points of small order, second encodings of a point, and two equations for one signature;
* sums of times that do not fit a port's integers;
* a network that loses, repeats, changes, delays or crosses messages, and clients that retry.

**What makes each part correct.**

* *Covered lists*: a list with several faults is refused for one of them, always the same; a caller's
  minimum only adds to the profile's.
* *Verifier*: it says what section 9 says, whatever happens during the call. A verdict rests on a key
  that somebody with the authority to do so named, over exactly the values the message has; every
  body handed over is bound; nothing signed for another host is accepted. It tells a forger nothing
  of its policy, asks the resolver nothing it need not, and ends.
* *Signer and verifier*: what one signs the other accepts, and what one refuses the other would.
* *Readers of text*: what is read is what was written, in one spelling of it, on every release of
  Python; a key that is read fits one message per signature; a port of fixed width refuses what Python
  refuses.
* *Clients and server*: the server does what was asked, under a current key; a client takes the
  answer to what it asked, no older than its window; a client that keeps asking is answered.

## 2. The modules

```
Components -> Messages -> Verification -> Verifier (refines Section9) -> VerifierMC <- Samples
                              |-> JsVerifier (refines Section9) -> JsVerifierMC <- Samples
                              |-> Section9Rules -> Section9
                              \-> Signer -> Transport -> RoundTrip -> RoundTripMC <- Drafts
                                     |             \---> Exchange (refines RequestReply) -> ExchangeMC
                                     \-> JsSigner -> JsSignerMC <- Drafts

Curve -> KeyTexts -> OpenSshKeys -> KeyVectors -\
                         StructuredFields -------+-> Readers -> ReadersMC
                         RequestHeads -----------|
   Verification (INSTANCE) -> Windows -----------/

Section9Rules -> VerificationProofs -> VerifierProofs (and Verifier)
                         |-> JsVerifierProofs (and JsVerifier)
                         \-> SignerProofs (and Signer) -> JsSignerProofs (and JsSigner)
                                        \-> RoundTripProofs (and RoundTrip)
Exchange -> ExchangeProofs           Readers -> ReadersProofs
```

**Components** models identifiers: a name and a set of parameters, compared as the code compares
them, by name and sorted parameters. `CheckCovered` is `check_covered`'s two passes. `SpecRefusal` is what
`component` makes of a caller's spelling: one that does not parse is an `UnsupportedComponent`, one that
is no token a `ValueError`. A covered list is a sequence, and its first bad spelling decides; a minimum is
a set, and of two bad spellings of different kinds in one minimum the model names the one that does not
parse (`FlooredRefusal`).

**Messages** models a message as a record and a header as a set of at most one parsed value. A
component value is a member of a small set; `Bad` stands for every value with no single
serialization (a line break, a non-ASCII character, too many bytes: `_check_raw`), and `NotAHost` for
text that serializes and is no host with an optional port, which a signer's caller is told as a
`ValueError` and a verifier's as a `SignatureMismatch` (`_unreadable`). `LinesRefusal` is
`lines_for`: the components in the order of the covered list, the first without a value deciding. A
signature is the pair of a key and the base it was made over, so it verifies under exactly that key
and base; this is the one idealization of Ed25519, and `KeyRefusal` (`public_key`, small-order
points) is where the code itself protects it.

**Verification** has one operator per check of `_verify`, each returning the class it raises or
`None`. A call's arguments are the record `policy`; an argument that is `None` is the empty set.

**Verifier** runs the stages as steps. Its variables are the call, `pc`, what was raised, the
resolver's answer, the moment of the freshness check, and around the call the clock and the key
state. `Tick` and `Rotate` may fall between any two stages. `AskResolver` and `ResolverAnswers` are
two actions, since anything may happen in between. `answered` and `held` are history variables.

**Section9** is the abstract specification, written from `docs/keri-profile.md` section 9 and from
no code: a list of rules in order (**Section9Rules**), and a verification that is one step. `Verifier` implements it
(`ImplementsSection9`) under the mapping of refusal classes to codes that ends section 9 (`CodeOf`,
the table `vectors/keri/generate.py:67`): at whatever moment it decides, the code is the first rule
met for an answer the resolver could have given during the call and a clock no earlier than when that
answer first held.

**Signer** has one operator per check of `sign_request` and `sign_response`, and `SignedMessage`, the
message that goes out. **Transport** is HTTP where nothing goes wrong: origin form and `Host`, a
length or chunks. **RoundTrip** is one signing call, the journey, and one verifying call.
`SignedIsAccepted` says under what agreement the verifier accepts: its own call has no mistake
(`PolicyInOrder`), the signer was told its minimum or both use their defaults, the bodies were handed
over, the key and the authority are the same on both sides, and the time is inside the window.

**Exchange** is several clients and a server. `Send` is `sign_request`; `Receive` is
`verify_request`, the server's act and `sign_response`, or an unsigned 401; `Deliver` is
`verify_response`. Each message travels on a caller's connection (`via`). The network faults are
`Lose`, `Repeat`, `Change` and `Misdeliver`; a client's key rotates and the resolver learns of it
later. **RequestReply** is its abstract specification: what is done was asked, and what is taken is
the answer to what one asked, once done. `ExchangeAssumption` says what the callers are to do for that
to hold, and `Change` that nobody on the way makes a signature of the clients' or the server's keys.

**JsVerifier** is one call of the JavaScript `verifyRequest` or `verifyResponse`. An action is what
runs between two awaits: up to the resolver's call (`Call`), the resolver's promise
(`ResolverSettles`), the base (`BuildBase`), everything that WebCrypto's answer decides
(`SignatureVerified`), and one digest after another (`Hashed`). The checks are the operators of
`Verification`, put in the order of `verify` there; a mistake in a call is a `TypeError`, and a
minimum's spelling that does not parse an `UnsupportedComponent`, as in Python. What is new is `bodies`: `bodyBytes` (`js/messages.js:110`) keeps the caller's own buffer, and `Refill` is the
caller changing what it holds. Contents may change and lengths may not: a buffer that is detached or
resized is left out, and so is a resolver that writes into a buffer it has returned
(`js/messages.js:908-917`). `DecidesOnContentsHeld` says what a verdict is worth then: it is section
9's for contents the buffers held after the signature was found good. It leaves out a header that
names two contents by two algorithms, whose digests are compared at separate awaits
(`NotContradictory`).

**JsSigner** is one call of `signRequest` or `signResponse` in the same way, with the body compared or
hashed at `coverBody`'s awaits and the answered request's at `signResponse`'s own. `SignsAsPython`
compares it with `Signer`. The two differ in three places, none of which lets one port sign what the
other refuses: this one refuses text RFC 8941 cannot carry before it looks at the body; it checks the
covered list before the method; and where Python raises finding 2's `AttributeError`, this one throws
`MalformedDigest`. Hence the property lets either call a mistake what the other gives a class to.

**Curve** is the Ed25519 arithmetic that fiki does itself: `public_key`'s decoding, its list of points
of small order, and the RFC 8032 code the vectors are made and checked with. It is edwards25519 with a
smaller field: everything is in terms of `p`, `d` and the prime `q`, and the group has `8q` points, so
cofactor, torsion, the sign bit beside `y` and numbers that are no point behave as they do there. A hash is any number below `q`.
What a library takes a signature for, `LibraryVerifies`, is external.

**KeyTexts** has the readers of a key's text, as functions from a sequence of characters to a set of at
most one key: `well_formed_aid`, `verifying_key`, a raw keyid, `aid_from` with its five formats, and the
vectors' writers of each. A key is two bytes of four bits, a base64 character has three bits and a
base58 digit five values; the proportions are those that matter, listed at the head of the module.
**OpenSshKeys** is `read_openssh` byte by byte and line by line, and the writer of the vectors, any
field of which can be overridden. **KeyVectors** is the accept and refuse tables of `keys.json`.

**StructuredFields** takes a header as it is written, a sequence of members, items and parameters, each
with the characters that spell it. `http_sfv` is external: it reads every such header and keeps the
last of two equal keys. What is modelled is fiki's own: the size limits, the refusal of a Date or a
Display String, and the scan of the text for a byte sequence or a decimal that RFC 8941 does not have,
with the strings, tokens and keys it has to step over.

**RequestHeads** is `_split` and what follows it, character by character. Python's `urlsplit` is
external and differs between releases; the three that differ in what fiki can see are `Releases`.
`DefaultPorts`, `Schemes` and `Addresses` (which text is an IPv6 address) are parameters.

**Windows** is the freshness check of Go and Java, with a width `MaxInt`: Go saturates its sums, Java
its sums and differences, and `Python` is `Verification`'s unbounded check, INSTANCEd. Rust and C#
compare in a type that holds every sum, and so do what Python does.

**Readers** asks one of these readers one question per behaviour, and its properties compare the
answer with what was written, or with points found by trying all of them. It composes nothing: the
readers have no state. What ties it to the other modules is that its operators decide what they leave
abstract: which raw keys are `SoundKeys`, which keyids have the form `raw` or `aid`, which headers do not
parse, which URL is `unreadable`, what length is `zero`.

**Samples** and **Drafts**, and the **MC** modules, hold the inputs of the runs.

## 3. The runs

| Run | Question | Result |
|---|---|---|
| `Verifier_defects` | Do `verify_request` and `verify_response` answer as section 9 says for every pair of defects (of the message, or of the request it answers), accept only what is vouched for, bound and served, and hide their policy? | holds |
| `Verifier_races` | Does that survive a clock and a key state that move during the call, and does the call end? | holds |
| `Verifier_disputed` | Is an absent component reported before an unbuildable one, as section 9 lists them? | violated: finding 1 |
| `RoundTrip` | Does a verifier accept what a signer signs with its minimum or its defaults, and refuse what it refuses? | holds |
| `RoundTrip_unnamed` | Is every refusal to sign of a documented class? | violated: finding 2 |
| `Exchange_crossed` | Two callers, a faulty network: is only what was asked done, and only its own answer taken? | holds |
| `JsVerifier` | Does the JavaScript verifier answer as section 9 says for every pair of defects, with the clock and the key state moving at every await; what does it decide for a caller that reuses its body buffers; and does every call end? | holds; for a caller that reuses them, for contents held after the signature was verified |
| `JsSigner` | Does the JavaScript signer sign and refuse what the Python one does, and what does a signature commit to when the caller reuses its buffers? | holds: to contents held during the call |
| `Exchange_retried` | A caller whose key rotates: is nothing served under a replaced key, and is it answered in the end? | holds |
| `Readers` | Does every reader of keys, key files, signature headers, targets, lengths and times read exactly what was written, and nothing else? | holds |
| `Readers_padded` | Is a resolver asked only about what is a well-formed AID? | violated: finding 3 |
| `Readers_dates` | Is every header with a Date or a Display String refused? | violated: finding 4 |

**Bounds, and why they are enough.**

* *Defects.* `Verifier_defects` starts from an honest message and applies up to two of some sixty
  changes, made by the signer before signing or by somebody after it. The checks
  are in a line and each looks at one defect, so an order mistake, a check that hides another, or a
  check that depends on another shows with two. Four policies: a raw key or an `expected_aid` with
  everything opted out, a resolver with an expected keyid, a resolver with the minimum and the age
  opted out. The clock and the key state stand still: that is the next run.
* *Races.* A dozen calls, two keys that the signer's AID changes between, a clock that starts before
  or after `created` and passes every edge of the window (`max_age` 2, `skew` 1 around `created` 4).
* *Round trips.* One or two of some forty changes to an ordinary call, with and without a minimum,
  for requests and for responses. The clock has room to pass the verifier's window.
* *Exchange.* `InFlight`, `MaxFaults` and `MaxClock` bound the messages on their way, the faults and
  the clients' clock. `Exchange_crossed` gives two callers the same target and different bodies, so
  that nothing but the bound digest tells their messages apart, and two faults, since crossing two
  answers takes one fault for each. `Exchange_retried` has one caller with two messages on their way,
  one fault, one rotation and a clock that passes the window.
* *JavaScript.* `JsVerifier` takes the inputs of Verifier's two runs, and `JsSigner` those of the round
  trip. Each call says when it may begin, how long the clock runs and between which key states it
  moves, so that one run asks the three questions with no more states than each needs. For callers that reuse their buffers there are digests in one
  algorithm and in two, since two are what puts an await between two looks at one buffer, with each
  defect that competes with a digest's, and three contents for either buffer.

* *Readers.* Keys: the curve has `p` 109, `d` 11, `q` 13 and so 104 points; every one of the 256
  encodings is asked about in every spelling, and every text one character away from a spelling of a
  sound key, of one with torsion, of the neutral point, of its second encoding and of a number that is
  no point. Files: every field overridden, every byte changed by one or by fifteen, every truncation,
  every line width that splits differently, every text one character from a whole file. Signatures:
  every torsion of a key with four of R, four hashes. Headers: every pair of nineteen bare values in
  every place two can stand, and counts around each limit (two members and parameters, four items, 26
  bytes). Targets: every host with every port, in a URL or a `Host`, with the paths that look like an
  authority; fourteen characters at most. Lengths: every text of up to four of seven characters. Times:
  every number of a width with `MaxInt` 5 and times up to 3, which leaves room on the wire below the
  width, as 10^15 does below 2^63; the theorems of section 4 are for every width.

No run checks deadlock: a call ends, and then nothing remains to be done.

**Fairness.** `Verifier!FairSpec` is weak fairness of the verifying thread, which includes the
resolver's answer: fiki waits for it with no timeout, so a call ends only if the resolver does. The
clock and the key state are not fair, and may move for ever or not at all. `JsVerifier!FairSpec` is
weak fairness of the call's continuations: the event loop runs what a settled promise resumes, and the
resolver's and WebCrypto's promises settle. `Refill` is not fair. `Exchange!Fairness` is
weak fairness of sending, of receiving some message, of delivering some message and of the resolver
learning of a rotation; faults are not fair and are bounded. None of that is fiki's to provide; it is
what a caller needs for the retry of profile section 7 (R3) to work.

**What the runs found.**

1. `lines_for` (`base.py:526`) reads components in covered order, so a message whose list names an
   unbuildable component ahead of an absent one is a `signature-mismatch`; section 9
   (`docs/keri-profile.md:135`) lists `missing-component` first and says each message has exactly one
   code. The passing runs and the theorems about section 9 leave out the messages that have both
   (`Verification!Undisputed`, which also wants the verifier's own minimum to parse: the code names
   one that does not `UnsupportedComponent`, a class section 9 keeps for what a message holds).
2. `sign_response` with a caller's own covered list that names `"content-digest";req`, for a request
   that has a body and no `Content-Digest`, raises `AttributeError` from `_parse(None)`
   (`messages.py:357`). `messages.py:268` and `:321` promise a `ValueError`, `TypeError` or
   `UncoveredBody`.
3. `well_formed_aid` (`keys.py:185`) decodes and encodes again, base64 padding included, so `E` with 42
   characters and `=`, which spells a byte too few, is well formed, and the resolver is called with it.
   `keys.py:174` says 43 base64url characters that decode to 32 bytes, and `messages.py:1000` that no
   other keyid is handed over. The JavaScript port (`js/keys.js:148`) and the vectors' own test
   (`vectors/keri/generate.py:285`) refuse it. Under a resolver that looks the text up it is an unknown
   key all the same.
4. `_check_rfc_8941` (`messages.py:954`) looks for a Date or a Display String among the values that
   were parsed, where an earlier one of two equal keys is gone, so a header with `a=@1, a=1` is read.
   `messages.py:951` and `this.i:306` say either type is refused anywhere.

Four more things were met that no run shows:

* A keyid that is an empty string, with no `expected_aid`, is `MissingKey` (`messages.py:993`), after the
  covered list has been checked. Section 9 gives a keyid that is not an AID `malformed-key`, and says of
  `MissingKey` only that a keyid that is absent is `malformed-signature-input`, which comes before the
  covered list. Which of them an empty one is, the document does not say, so `Undisputed` leaves it out;
  the proof of `OneCorrectCode` is where it was met.
* The path of a URL with a bracket out of place (`[::1]x`) is refused or read as the release of Python has it
  (`base.py:346`). `_hostport` repeats `urlsplit`'s checks for the authority, and
  `AuthoritySameOnEveryPython` holds; a base that covers `@path` alone never gets there.
* The code RFC 8032 gives for decoding, which `vectors/rfc8032.py` follows, compares an unreduced
  square with zero, and so takes a second encoding of the point with `y = -1`. fiki's `public_key` does not,
  and neither is a key: the point has small order.
* A signer bounds neither its covered list nor its header, where a verifier stops at 64 items and 8192
  bytes (`docs/user-guide.md:740`): a list that long is signed, and never verified.
  `docs/user-guide.md:747` says a signer refuses what would not verify, and names cases; this is not one.

Each property of each passing run has a mutant in `PROJECT.json`: a plausible mistake in one mapped
definition, kept beside it under the comment "Mutant", with which that run fails.

## 4. The proofs

Eight modules hold theorems. What each proves, then why it holds.

`VerificationProofs` is about the checks alone, for every call of the types there are:

* `OneCorrectCode`: the class `_verify` raises, mapped to the profile's codes, is the first rule of
  section 9's twenty-five that the message breaks, for every answer of the resolver and every clock, and
  none is broken where it raises none.

`VerifierProofs` proves, for any sets of keys, calls and key states and any bound on the clock:

* `TypeCorrect`: the types;
* `AcceptanceIsVouched`: a verdict rests on a sound key, this message's own base, and the caller's
  `expected_aid`, the resolver, or the keyid, in that order of authority;
* `PolicyIsHidden`: a refusal that depends on the clock or the body is given only for a signed
  message;
* `ResolverAskedOnlyWhatMatters`: one question, about one well-formed expected AID, after every local
  check;
* `FreshThroughTheWait`: an accepted signature was inside its window when the resolver answered;
* `BodiesAreBound`: under any minimum, the content handed over, and that of the answered request, is
  what a digest in a line of the signed base names;
* `OnlyServedAuthorities`: a verifier that says what it serves accepts only what was signed for that;
* `VerifierImplementsSection9`: whatever moves between two stages, a verification is one step of
  section 9's (`ImplementsSection9`).

`JsVerifierProofs` proves, for any calls, contents, key states and bound on the clock:

* `TypeCorrect`: the types;
* `JsImplementsSection9`: with a caller that leaves its buffers alone, that verifier too is one step of
  section 9's;
* `ContentsAreHeld`: with one that refills them at any await, the verdict is section 9's for contents
  they held after the signature was found good.

`JsSignerProofs` proves, for any drafts, contents and bound on the clock:

* `TypeCorrect`: the types;
* `SignsWhatPythonSigns`: with a caller that leaves its buffers alone, it signs what `Signer` signs and
  refuses what `Signer` refuses, for the same reason unless either calls it a mistake of the caller's;
* `ContentsAreCommitted`: with one that refills them, every digest that is signed names a content its
  buffer held during the call.

`RoundTripProofs` proves, for any drafts, keys, policies, answers of a resolver and bound on the clock:

* `TypeCorrect`: the types;
* `SignersAreAccepted`: what a signer signs for a verifier it agrees with is accepted, in either form of
  the URL and either framing of the body, while it is fresh (a header's size, which only a verifier
  bounds, is not in the model: section 3);
* `RefusesLikeAVerifier`: what a signer refuses for the message's sake, the verifier would have refused.

`ExchangeProofs` proves, for any number of callers, any requests to one authority, any rotations, any
network and either clock's lead:

* `ExchangeIsTyped`: the types;
* `OnlyTheAskedIsServed`: the server does only what somebody asked, as it was asked;
* `OnlyTheCurrentKeyIsServed`: and under no key but the one its resolver knows at that moment;
* `AnswersAreOnesOwn`: a caller takes only the server's answer to what it asked, within its window;
* `ExchangeImplementsRequestReply`: so that the whole is `RequestReply`, by a refinement mapping.

`ReadersProofs` proves, for any width, any times within it, any window and any clock:

* `GoWindowIsPythons` and `JavaWindowIsPythons`: saturating arithmetic refuses a signature for its
  times, with the same class, exactly where unbounded arithmetic does. Java's has one exception
  (`NoLimit`): with the largest skew there is, a clock before the epoch limits nothing, since the
  difference it is compared with is saturated at that same number. `TimesInFull` says both of `Readers`;

and for every text of any length, any schemes, ports and IPv6 addresses:

* `AuthorityOnEveryPython`: the three releases of Python whose `urlsplit` differs give fiki one
  authority, or none;
* `ZeroIsNoBody`: only zeros, with the optional whitespace of HTTP around them, say there is no body;

and for every text, every key table of AIDs and every set of signatures, over any curve on which the
encodings that are read as keys are the canonical ones of the points that are not of small order
(`KeysReadAreSound`):

* `WireKeysHold`: an expected AID, a keyid and a prefix to resolve name a key in one spelling and no
  other (`WireKeysHaveOneSpelling`), and a `D` or an `E` never stands for the key it embeds;
* `SignatureFixesOneMessage`: under a key that is read, the library takes a signature for one hash at
  most (`SignatureFixesMessage`).

`SignerProofs` holds no theorem of its own, only lemmas about `Signer`'s operators.

**The argument of `VerificationProofs`.** `Reports(refusal, n, ...)` says that a stage that refuses gives the
code of a rule that is met where none before it is, and that one that does not refuse leaves the first
`n` rules unmet. One lemma per stage shows it from the code's condition and the document's
(`CallReports` ... `DigestReports`), and `ReportsThen` chains them in the order of `_verify`. The
document and the code say two things in different terms: a covered list that repeats a component is a
list longer than the set of its elements (`FewerElements`), and the two minimums, the profile's and the
caller's, leave uncovered in the code what they do in the document (`UncoveredMinimum`). `Undisputed`
leaves out the two kinds of message for which the two disagree or the document is silent, and the calls
whose own minimum does not parse (section 3).

**The argument of `VerifierProofs`.** None of its properties is inductive: each speaks of the end of a call, and its reason lies
in stages long past. `Past` says, for each stage, which checks the call has passed. It is inductive
because the call's arguments never change and the resolver's answer, once given, is what every later
stage uses; the clock enters only as a moment that has been. `Inv` is `Past` with the types. The
range lemmas (`CallRange` ... `PolicyRange`) say which codes each stage can raise, which is what
`PolicyIsHidden` rests on; `FirstRefusalCases` needs the least element of a set of naturals.
`BodiesAreBound` and `OnlyServedAuthorities` go from the coverage check to a covered item, from the item
to its line of the signed base (`CoveredIsSigned`), and from the check on that item's value to what the
line says. The refinement needs one moment for which the one step decides what many stages did: `HeldInv`
says that what the resolver would answer now it has answered during the call (`Current`), and that
there is an answer it gave, with a clock no earlier, for which every stage so far decided as it did
(`Moment`). Then `OneCorrectCode` at that moment is the abstract step.

**The argument of `JsVerifierProofs`.** No check before the digests can tell one content of a body from
another, only whether it is empty and whether it is there: that is `Alike`, and `AlikeRefusal` shows
every such check decides alike on messages that are. What the buffers hold stays alike to what was
handed over, whatever the caller writes in them (`Kept`), so the refusals before the digests are those of
every content. `Hashing` says of each buffer which digests are compared, and with what. `Settled` says a
call that has refused did so on contents it could have read, and one that has accepted has seen each
content a digest names; with `NotContradictory` one content per buffer explains all of it
(`AcceptedOnOne`), and `OneCorrectCode` applies to the message with those.

**The argument of `JsSignerProofs`.** `Past` says of each await what has been found by then, in terms of
what the buffers have held (`filled`): a digest still has to be compared, is being compared, or names a
content its buffer has held (`Comparing`). A caller that leaves its buffers alone has them hold one
content, and then what was found at the awaits is what `Signer` finds at once (`BodyAsPython`,
`SendsAsPython`, `RequestAsPython`). The two make the checks in different orders, so `SignerProofs` has
`FirstOfSign`: `Signer` refuses for the first of its checks that fails.

**The argument of `RoundTripProofs`.** The invariant says only where the message comes from (`Made`).
`AsSent` says what a journey leaves alone, and `LineArrives` that a component the signer had a value for
has that value for the verifier, wherever it is then read. Then, stage by stage, what the signer's checks
leave the verifier to object to is nothing (`CallAccepts` ... `DigestAccepts`): the base is rebuilt as it
was signed (`SignatureAccepts`), and a covered digest is of the body it comes with, compared if the
caller gave it and computed if it did not. For the converse, a message that was not signed for want of a
value is compared with the one it would have been (`UnsentParts`), component by component, since a signer
and a verifier name what has no value differently but lack the same (`EitherSideRefuses`).

**The argument of `ExchangeProofs`.** What the server has done and what a caller has taken rest on
messages that have left the state, so the invariant speaks of those on their way. `Genuine(v)` says of a signature
that, if it is by a key of the clients', it is over the lines of a request somebody has begun to ask
(`RequestLines`), and, if by the server's, over its answer to something it did at that moment
(`AnswerLines`). `NetworkIsGenuine` says it of every message, and is kept because the two ends sign
nothing else (`SendInv`, `HandleInv`) and the network only moves or drops what they signed (`FaultInv`).
A verifier that refuses nothing has rebuilt the signed lines, and a digest among them names the
body, so what the signer meant is what the verifier has (`ServerTakes`, `CallerTakes`). The proof
shows what a caller has to provide: a response covers the method, path, query and digest of
its request and not the authority, so two servers under one key could answer for each other, and
`ExchangeAssumption` has all callers ask one.

**The argument of `ReadersProofs`.** Times, one comparison at a time: a saturated sum is only ever compared with
a number of the width, and no true sum past the width is below one either (`LaterCompares`); a
saturated difference is only compared with a positive window (`JavaCompares`). Authorities: a release
that refuses what another reads does so for a bracket. A host and port that fiki reads has its brackets
around the host, which `_hostport` has itself found to be an IPv6 address, and then no release objects
(`LiteralIsRead`), or it has none at all (`PlainIsRead`). So whatever a release refuses, fiki reads no
authority in under any (`RefusedIsUnread`). Positions in a text are handled as the first of some
characters (`IsFirst`).

Of a whole text, what holds is shown by the least place where it would fail: a set of naturals has a
least element (`LeastNatural`), and so what holds of 0, and of a number when of the one before, holds up
to any (`UpTo`). A fold is the one function that satisfies its equation over the places of the text
(`FoldExists`, and `DecimalFolds` and `NumberFolds` for the two there are). With that, a
decimal is 0 only if its digits are (`LeadingDigitCounts`, `ZeroIsZeros`), and what is stripped of a text
is the part between its first and last place that is not whitespace (`StrippedIs`).

Keys on the wire are base64. `Regroup` takes bits to bytes of four or characters of three; `RegroupToThree` and
`RegroupToFour` give each digit of the result as the bits it is made of (`BitsOfFour`, `BitsOfThree`,
`BitIsBit`), for the lengths a key has. Two bytes behind a pad byte fill four characters, and alone
they leave three spare bits in the third. So what is written is read again (`AidOfBytes`, `KeyidOfBytes`,
`WrittenDecodes`), a text has one body to decode (`OneBody`), and the readers compare what they decoded, written
again, with the text (`VerifyingKeyIs`, `InlineKeyIs`), or depend on the prefix deciding it
(`PrefixResolves`, `TableResolves`); `ReadableIs` brings in the points.

A signature that the library takes for two hashes, under one key, makes a multiple of the key below `q`
neutral (`OneHash`; an encoding has one point, `OnePoint`). The least such multiple divides `8q`, and `q` is
prime, so it divides 8, and eight times the key is neutral: the key has small order, and is not read
(`EightIsNeutral`).

**Assumptions.** `KeysAssumption`, `VerifierAssumption` and `JsVerifierAssumption` say what keys, key
states and the clock are. `CallsAssumption` says the arguments have the types of the functions'
signatures and that a parsed `Signature-Input` holds sequences (`TypedCall`). TLC evaluates them in every
run over `VerifierMC` and `JsVerifierMC`. `JsSignerAssumption` and `RoundTripAssumption` say the same of a
call to sign (`TypedDraft`): an argument is given once or not at all, a covered list is a sequence of
items, and the key is a key pair, whose public half fiki reads. The `JsSigner` and `RoundTrip` runs
evaluate them. The theorems about section 9 assume `Undisputed` of every call; those about a verdict, a
body, an authority or a signer do not.
`WindowsAssumption` says a time on the wire fits the width, and `RequestHeadsAssumption` that the limits
are positive, that a port may be as large as the schemes' own and is no larger than its digits can
spell, and that no IPv6 address begins with a `V`, which no text `IPv6Address` reads does: a literal with
a `v` is IPvFuture's. `ReadersAssumption` says that a keyid, a length and the parts of a target are texts, and
that a key table has an AID once, with one key or none. `KeyTextsAssumption` gives the sizes of a key in
small, `CurveAssumption` the shape of the field and that `q` is prime. `GroupAssumption` is what the proof
takes from the group and does not derive from the formulas of `PointAdd`: `8q` times a key is neutral;
neutral multiples can be subtracted; if the library computes the same `R` for two hashes, their
difference is a neutral multiple; and eight times a sound key is not neutral. The `Readers` runs evaluate them all on
their curve. `KeysReadAreSound` is not an `ASSUME` but a hypothesis of the two theorems that need it, since it is a
property of the code and `SmallOrder` has a mutant that breaks it: `Readers` asks for the key of
every one of its curve's encodings (`WireKeysHaveOneSpelling`), so the run fails where the hypothesis does.
`ExchangeAssumption` says every caller describes a request with content to one authority, the server
resolves the clients' AID and does not sign with a key of theirs, and the clients expect the server's
keyid; the two `Exchange` runs evaluate it.

**Only model-checked**:

* `EveryCallEnds` and `EveryCallerIsAnswered`: fairness and `ENABLED` are beyond the prover.
* Of `Readers`, what is said of configured keys, key files and signature headers
  (`ConfiguredKeysHaveOneSpelling`, `FilesHoldTheirKey`, `FieldsAreRfc8941`): base58, the layout of a file and
  the scan of a header are each a fold or a recursive function of their own over a text of any length.
  Induction over a text's places by the least one is in reach, as the theorems above show, the
  library's induction theorems are not, since they take an operator; these were not attempted.
* That the keys that are read are the sound ones (`KeysReadAreSound`), the laws in `GroupAssumption`, and
  `EquationsAreTold`: arithmetic in a group defined by exponentiation, modulo a prime that is a parameter.
* `KeyVectorsHold`: finite tables, which TLC evaluates.
* `TargetIsReadAsWritten`: it compares with how a target was put together, so a theorem for every target
  would have to assume of every host, port and user in it what `MCTargets` shows by listing them.

## 5. What is not modelled

* Wording of messages, and `TypeError`s for arguments of the wrong Python type.
* `http_sfv`'s grammar, `urlsplit` beyond what differs between releases, `IPv6Address`, base64: they
  are external, and modelled as fiki uses them. A header they do not read is "does not parse".
* Ed25519 at its real size, the hash in it, and SHA-2. In `Verification` a signature verifies under
  exactly its key and base, and a digest names the content it is of; `Curve` is the arithmetic in small.
* `Key.generate`, where keys are kept, and shortening untrusted text for a message.
* Replay inside the window, which fiki documents as the caller's problem (`messages.py:145`);
  `RequestReply` promises nothing about it.
* In JavaScript, buffers that are detached or resized during a call, a resolver that reuses the buffer
  it returned, and a caller that changes its `minimum` array while `signRequest` awaits.
* The other ports' stages and parsers. They make the decisions of `Verification` and of the readers in
  another language, and to map them again would be to state the same operators five times; what a
  language changes is modelled where it does (awaits and shared buffers in JavaScript, widths in Go and
  Java).
* The generators of the message vectors and the differential harness: straight-line programs whose
  output is test data.
* Legacy mode (profile section 8), which this code does not implement.

## 6. Plan

Done in this order: `Components`, `Messages`, `Verification`, `Verifier` with `Section9`, `Signer`,
`RoundTrip`, `Exchange` with `RequestReply`, `VerifierProofs`, `JsVerifier`, `JsSigner`, `Curve`,
`KeyTexts`, `OpenSshKeys`, `KeyVectors`, `StructuredFields`, `RequestHeads`, `Windows`, `Readers`,
the proofs of Go's and Java's windows, `BodiesAreBound`, `OnlyServedAuthorities`, `ExchangeProofs`, and
then `OneCorrectCode` with `VerifierImplementsSection9`, `JsVerifierProofs`, `SignerProofs` with
`JsSignerProofs` and `RoundTripProofs`, and `ReadersProofs`. Next:

1. **Proofs**: every safety property that a run other than `Readers` checks, and that holds, is a
   theorem, and so are those of `Readers` about times, authorities, lengths, keys on the wire and what a
   signature fixes. Next are `FieldsAreRfc8941`, whose scan is one pass over the text, and `FilesHoldTheirKey`.
2. **Limits on both sides**: what a signer can sign that no verifier reads, with `StructuredFields` as
   the message's text.
3. **The JavaScript parsers**, hand-written where Python's are a library's, against the same writers.
4. **Arrays the caller keeps**: `minimum` in the JavaScript signer, the buffer a resolver returns.
5. **The other ports' pipelines**, where a language makes them differ.
