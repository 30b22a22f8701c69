-------------------------- MODULE StructuredFields --------------------------
(***************************************************************************)
(* How one of the three signature headers is parsed (_parse and its        *)
(* checks, py/src/fiki/messages.py): http_sfv reads it leniently, and fiki *)
(* then checks what was parsed, and scans the text for the two spellings   *)
(* RFC 8941 does not have and a parsed value no longer shows.              *)
(*                                                                         *)
(* A header is given as it was written: a sequence of members, each with a *)
(* key, its items, whether they stand in an inner list, and parameters; a  *)
(* bare value is the characters that spell it and its type.  The           *)
(* characters are one of each kind that the scan tells apart.              *)
(***************************************************************************)
EXTENDS Integers, Sequences, FiniteSets, SequencesExt

CONSTANTS MaxFieldBytes, MaxMembers, MaxItems, MaxParameters

ASSUME StructuredFieldsAssumption ==
    {MaxFieldBytes, MaxMembers, MaxItems, MaxParameters} \subseteq Nat \ {0}

Quote == "\""
Backslash == "\\"

\* Base64, and what may stand inside a token.
Base64Chars == {"a", "1", "+", "/"}
TokenChars == {"a", "1", "+", "/", "-", "*", ".", ":"}

-------------------------------------------------------------------------------
(* The text of a header.                                                   *)

JoinedBy(parts, separator) ==
    FoldLeft(LAMBDA text, part : IF text = <<>> THEN part ELSE text \o separator \o part,
             <<>>, parts)

TextOfParams(params) ==
    FlattenSeq([i \in DOMAIN params |-> <<";">> \o params[i].key \o <<"=">> \o params[i].bare.chars])

TextOfItem(item) == item.bare.chars \o TextOfParams(item.params)

TextOfMember(member) ==
    LET items == JoinedBy([i \in DOMAIN member.items |-> TextOfItem(member.items[i])], <<" ">>)
    IN  member.key \o <<"=">>
          \o (IF member.inner THEN <<"(">> \o items \o <<")">> \o TextOfParams(member.params)
              ELSE items)

TextOf(written) ==
    JoinedBy([i \in DOMAIN written |-> TextOfMember(written[i])], <<",", " ">>)

-------------------------------------------------------------------------------
(* What http_sfv makes of it: of two members, or two parameters, with one  *)
(* key, it keeps the last.                                                 *)

LastOfEach(seq) ==
    {seq[i] : i \in {i \in DOMAIN seq : \A j \in i + 1..Len(seq) : seq[j].key # seq[i].key}}

Members(written) == LastOfEach(written)

\* The parts of a member that carry parameters: itself, and the items of its list.
Parameterized(member) ==
    {item.params : item \in ToSet(member.items)} \cup (IF member.inner THEN {member.params} ELSE {})

BareValues(member) ==
    {item.bare : item \in ToSet(member.items)}
      \cup UNION {{param.bare : param \in LastOfEach(params)} : params \in Parameterized(member)}

-------------------------------------------------------------------------------
(* messages.py                                                             *)

OverCounts(written) ==
    \/ Cardinality(Members(written)) > MaxMembers
    \/ \E member \in Members(written) :
         \/ member.inner /\ Len(member.items) > MaxItems
         \/ \E params \in Parameterized(member) : Cardinality(LastOfEach(params)) > MaxParameters

\* A Date or a Display String, which RFC 9651 added.
HasRfc9651(written) ==
    \E member \in Members(written) :
      \E bare \in BareValues(member) : bare.type \in {"date", "display string"}

\* Whole quanta, the last one completed by padding.
PaddedBase64(content) ==
    \E n \in 0..Len(content) :
      /\ n % 4 # 1
      /\ content = SubSeq(content, 1, n) \o [i \in 1..(4 - (n % 4)) % 4 |-> "="]
      /\ \A i \in 1..n : content[i] \in Base64Chars

\* Mutant: a colon inside a token opens a byte sequence.
OpensAnywhere(text, i) == i = 1 \/ text[i - 1] \notin TokenChars \ {":", "/"}

\* A place where a bare value may begin, and no token goes on.
OpensBare(text, i) == i = 1 \/ text[i - 1] \notin TokenChars

\* A number that ends with its point.
PointlessAt(text, i) ==
    LET first == IF text[i] = "-" THEN i + 1 ELSE i
    IN  \E point \in first + 1..Len(text) :
          /\ text[point] = "." /\ \A k \in first..point - 1 : text[k] = "1"
          /\ point < Len(text) => text[point + 1] # "1"

\* The scan, from left to right: a string is skipped, a byte sequence is read up to its
\* closing colon.
ScannedClean(text) ==
    LET end[i \in 1..Len(text) + 2] ==
          IF i > Len(text) \/ text[i] = Quote THEN i
          ELSE IF text[i] = Backslash THEN end[i + 2] ELSE end[i + 1]
        colons(i) == {j \in i + 1..Len(text) : text[j] = ":"}
        clean[i \in 1..Len(text) + 3] ==
          IF i > Len(text) THEN TRUE
          ELSE IF text[i] = Quote THEN clean[end[i + 1] + 1]
          ELSE IF OpensBare(text, i) /\ text[i] = ":" /\ colons(i) # {}
          THEN LET close == CHOOSE j \in colons(i) : \A k \in colons(i) : j <= k
               IN  PaddedBase64(SubSeq(text, i + 1, close - 1)) /\ clean[close + 1]
          ELSE ~(OpensBare(text, i) /\ PointlessAt(text, i)) /\ clean[i + 1]
    IN  clean[1]

\* Whether a header is refused: every reason is the header's malformed class.
ParseRefuses(written) ==
    \/ Len(TextOf(written)) > MaxFieldBytes
    \/ OverCounts(written) \/ HasRfc9651(written) \/ ~ScannedClean(TextOf(written))
===============================================================================
