------------------------------ MODULE Components ------------------------------
(***************************************************************************)
(* Component identifiers and covered lists, as py/src/fiki/base.py reads   *)
(* them and py/src/fiki/messages.py measures them against a minimum.       *)
(*                                                                         *)
(* An identifier is a name and a set of parameters.  The code compares     *)
(* identifiers by name and sorted parameters, so a set loses nothing.      *)
(* "other" stands for every component parameter but req, and for a req     *)
(* whose value is not true.                                                *)
(***************************************************************************)
EXTENDS Naturals, Sequences, FiniteSets

\* What a check that has nothing to refuse returns.
None == "none"

\* The first refusal of two checks made in order.  Several are nested to the right.
r ?? s == IF r = None THEN s ELSE r

\* A value that may be absent.
Opt(S) == {{}} \cup {{x} : x \in S}

AtMostOne(opt) == \A x, y \in opt : x = y

OneOf(opt, S) == opt \subseteq S /\ AtMostOne(opt)

\* A record with at least these fields.
IsRecord(r, fields) == r = [f \in DOMAIN r |-> r[f]] /\ fields \subseteq DOMAIN r

Derived == {"@method", "@authority", "@path", "@query"}

ResponseDerived == {"@status"}

ContentDigest == "content-digest"

\* Every derived name a peer can write: the ones fiki builds and one it does not.
AtNames == Derived \cup ResponseDerived \cup {"@other"}

\* A-Z folded to a-z: the names here that hold an uppercase letter.
AsciiLower(name) == IF name = "X-Field" THEN "x-field" ELSE name

\* Field names and methods that are HTTP tokens; "x field" is a name a caller may
\* spell and "P OST" a method, and neither is one.
IsToken(name) == name \notin {"x field", "P OST"}

Item(name) == [name |-> name, params |-> {}]

Req(name) == [name |-> AsciiLower(name), params |-> {"req"}]

\* A component from a caller's spelling of it: lowercased ...
Component(spec) == [spec EXCEPT !.name = AsciiLower(@)]

\* A spelling that opens with a quote and does not parse.
Unparsed == "unparsed"

BadSpec(spec) == spec.name \notin AtNames /\ ~IsToken(spec.name)

\* ... and refused: as a component fiki does not support when it cannot be parsed, and as
\* a mistake in the call when its field name is not a token.
SpecRefusal(spec) ==
    IF spec.name = Unparsed THEN "UnsupportedComponent"
    ELSE IF BadSpec(spec) THEN "ValueError"
    ELSE None

ElementsOf(items) == {items[i] : i \in DOMAIN items}

IsSequence(s) == s \in Seq(ElementsOf(s))

NoDuplicate(items) ==
    \A i, j \in DOMAIN items : items[i] = items[j] => i = j

SupportedDerived(item, response) ==
    IF "req" \in item.params \/ ~response THEN Derived ELSE ResponseDerived

Supported(item, response) ==
    /\ "other" \notin item.params
    /\ "req" \in item.params => response
    /\ item.name \in AtNames => item.name \in SupportedDerived(item, response)

\* Duplicates first, then the unsupported, so a list that is both has one refusal.
CheckCovered(items, response) ==
    IF ~NoDuplicate(items) THEN "DuplicateComponent"
    ELSE IF \E i \in DOMAIN items : ~Supported(items[i], response) THEN "UnsupportedComponent"
    ELSE None

DefaultCovered == <<Item("@method"), Item("@authority"), Item("@path"), Item("@query")>>

RequestMinimum == {Item("@method"), Item("@path"), Item("@query")}

ResponseMinimum == {Item("@status"), Req("@method"), Req("@path"), Req("@query")}

DefaultMinimum == {Item("@method"), Item("@authority"), Item("@path"), Item("@query")}

\* A minimum the caller supplies may only add to the profile's own, which is asked once all
\* of it has been read.  A minimum is a set here and a sequence there: of a spelling that does
\* not parse and one that is no token, the model names the former.
FlooredRefusal(minimum, floor) ==
    LET refusals == {SpecRefusal(spec) : spec \in UNION minimum}
    IN  IF "UnsupportedComponent" \in refusals THEN "UnsupportedComponent"
        ELSE IF \/ "ValueError" \in refusals
                \/ \E given \in minimum : ~(floor \subseteq {Component(spec) : spec \in given})
        THEN "ValueError" ELSE None

BindsRequestDigest(items) == Req(ContentDigest) \in ElementsOf(items)

CoversBody(items) == Item(ContentDigest) \in ElementsOf(items)

\* What a covered list must contain: the minimum, the body's digest when the
\* message has a body, and the request's digest when the answered request had one.
Required(minimum, hasBody, requestHadBody) ==
    {Component(spec) : spec \in minimum}
      \cup (IF hasBody THEN {Item(ContentDigest)} ELSE {})
      \cup (IF requestHadBody THEN {Req(ContentDigest)} ELSE {})

CoversMinimum(items, minimum, hasBody, requestHadBody) ==
    Required(minimum, hasBody, requestHadBody) \subseteq ElementsOf(items)
===============================================================================
