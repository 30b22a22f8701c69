---------------------------- MODULE RequestHeads ----------------------------
(***************************************************************************)
(* What fiki reads of a request's head as text: its target, its Host and   *)
(* its Content-Length (_split, _port, ip_literal, _authority, _hostport of *)
(* py/src/fiki/base.py, _request_has_body of messages.py).                 *)
(*                                                                         *)
(* A text is a sequence of characters, one of each kind the code tells     *)
(* apart: "kelvin" is U+212A, which str.lower folds to an ASCII "k", and   *)
(* "nbsp" a space that is not ASCII.  A scheme with its "://" is one       *)
(* character.  Numbers are short: a port is at most PortMax, a length of   *)
(* more than LengthDigits digits is not converted.                         *)
(*                                                                         *)
(* Python's urlsplit is external, and a parameter: "3.11.0" refuses only   *)
(* an unbalanced bracket, "3.11.4" also a bracketed host that is no IP     *)
(* literal, "3.14.8" also a bracket anywhere but around the host, and      *)
(* accepts an uppercase V.                                                 *)
(***************************************************************************)
EXTENDS Integers, Sequences, SequencesExt

CONSTANTS
    Addresses,      \* the texts ipaddress.IPv6Address accepts
    Schemes,        \* scheme symbols, each with the scheme it is in lowercase
    DefaultPorts,   \* the schemes that have a default port, with it
    PortMax,        \* 65535
    PortDigits,     \* 5
    LengthDigits,   \* 18
    MaxTargetChars  \* MAX_FIELD_BYTES, for a target

ASSUME RequestHeadsAssumption ==
    /\ {PortMax, PortDigits, LengthDigits, MaxTargetChars} \subseteq Nat \ {0}
    /\ PortMax < 10^PortDigits /\ \A scheme \in DOMAIN DefaultPorts : DefaultPorts[scheme] <= PortMax
    /\ \A address \in Addresses : address # <<>> => address[1] # "V"

Releases == {"3.11.0", "3.11.4", "3.14.8"}

Digits == {"0", "1", "8"}
NotAscii == {"kelvin", "nbsp"}

DigitValue == [c \in Digits |-> CASE c = "0" -> 0 [] c = "1" -> 1 [] c = "8" -> 8]
Decimal(text) == FoldLeft(LAMBDA n, c : n * 10 + DigitValue[c], 0, text)

AllIn(text, chars) == ToSet(text) \subseteq chars

\* The place of the first of some characters, just past the end where there is none.
FirstOf(text, chars) ==
    CHOOSE i \in 1..Len(text) + 1 :
      /\ i <= Len(text) => text[i] \in chars
      /\ \A j \in 1..i - 1 : text[j] \notin chars

Before(text, chars) == SubSeq(text, 1, FirstOf(text, chars) - 1)
After(text, chars) == SubSeq(text, FirstOf(text, chars) + 1, Len(text))

\* Behind the last "@", or everything.
HostOf(netloc) == Reverse(Before(Reverse(netloc), {"@"}))

\* A text without some characters at either end, and at the left only.
LeftStripped(text, chars) ==
    LET kept == {i \in DOMAIN text : text[i] \notin chars}
    IN  IF kept = {} THEN <<>>
        ELSE SubSeq(text, CHOOSE i \in kept : \A j \in kept : i <= j, Len(text))

Stripped(text, chars) == Reverse(LeftStripped(Reverse(LeftStripped(text, chars)), chars))

Ows == {" ", "\t"}

\* str.lower
Lower(text) ==
    [i \in DOMAIN text |-> CASE text[i] = "A" -> "a" [] text[i] = "V" -> "v"
                             [] text[i] = "kelvin" -> "k" [] OTHER -> text[i]]

-------------------------------------------------------------------------------
(* base.py: each gives what it reads, or nothing where the URL is          *)
(* unreadable.                                                             *)

IpvFuture(text) ==
    \E point \in 3..Len(text) - 1 :
      /\ text[1] = "v" /\ text[point] = "."
      /\ \A i \in 2..point - 1 : text[i] \in Digits \cup {"a", "A"}

IpLiteral(text) == IF text # <<>> /\ text[1] = "v" THEN IpvFuture(text) ELSE text \in Addresses

\* What urlsplit refuses of an authority, with any scheme.
UrlsplitRefuses(netloc, release) ==
    LET opens == "[" \in ToSet(netloc)
        closes == "]" \in ToSet(netloc)
        host == HostOf(netloc)
        bracketed == IF release = "3.14.8" THEN Before(After(host, {"["}), {"]"})
                     ELSE Before(After(netloc, {"["}), {"]"})
        behind == After(After(host, {"["}), {"]"})
        literal == IF release = "3.14.8" /\ bracketed # <<>> /\ bracketed[1] = "V"
                   THEN <<"v">> \o Tail(bracketed) ELSE bracketed
    IN  \/ opens # closes
        \/ /\ opens /\ release # "3.11.0"
           /\ \/ ~IpLiteral(literal)
              \/ release = "3.14.8" /\ (~IsPrefix(<<"[">>, host) \/ (behind # <<>> /\ behind[1] # ":"))

Parts(scheme, netloc, rest) ==
    [scheme |-> scheme, netloc |-> netloc, path |-> Before(rest, {"?"}), query |-> After(rest, {"?"})]

\* Mutant: as urlsplit reads it, two slashes begin an authority.
NetworkPathParts(url) ==
    LET netloc == Before(SubSeq(url, 3, Len(url)), {"/", "?"})
    IN  IF Len(url) > 1 /\ url[2] = "/"
        THEN Parts("", netloc, SubSeq(url, 3 + Len(netloc), Len(url))) ELSE Parts("", <<>>, url)

\* A target that begins with a slash has no authority, however many slashes follow.
OriginParts(url) == Parts("", <<>>, url)

\* The parts of a target.
Split(url, release) ==
    LET netloc == Before(Tail(url), {"/", "?"})
        host == HostOf(netloc)
    IN  IF url = <<>> \/ Len(url) > MaxTargetChars \/ ToSet(url) \cap {" ", "\t", "#"} # {} THEN {}
        ELSE IF Head(url) = "/" THEN {OriginParts(url)}
        ELSE IF \/ Head(url) \notin DOMAIN Schemes \/ netloc = <<>>
                \/ /\ host # <<>> /\ host[1] = "[" /\ "]" \in ToSet(host)
                   /\ ~IpLiteral(Before(Tail(host), {"]"}))
                \/ UrlsplitRefuses(netloc, release)
        THEN {} ELSE {Parts(Schemes[Head(url)], netloc, SubSeq(url, 2 + Len(netloc), Len(url)))}

NoPort == -1

Port(text) ==
    LET significant == LeftStripped(text, {"0"})
    IN  IF text = <<>> THEN {NoPort}
        ELSE IF ~AllIn(text, Digits) \/ Len(significant) > PortDigits \/ Decimal(significant) > PortMax
        THEN {} ELSE {Decimal(significant)}

Bracketed(hostport) == hostport # <<>> /\ hostport[1] = "["

HostIn(hostport) ==
    IF Bracketed(hostport) THEN Append(Before(hostport, {"]"}), "]") ELSE Before(hostport, {":"})

BehindHost(hostport) == SubSeq(hostport, Len(HostIn(hostport)) + 1, Len(hostport))

\* Mutant: a bracket is looked for only where a host begins with one.
MisspelledInBrackets(hostport) ==
    \/ ToSet(hostport) \cap NotAscii # {}
    \/ Bracketed(hostport) /\ ("]" \notin ToSet(hostport) \/ ~IpLiteral(Before(Tail(hostport), {"]"})))
    \/ BehindHost(hostport) # <<>> /\ BehindHost(hostport)[1] # ":"

Misspelled(hostport) ==
    \/ ToSet(hostport) \cap NotAscii # {}
    \/ Bracketed(hostport) /\ ("]" \notin ToSet(hostport) \/ ~IpLiteral(Before(Tail(hostport), {"]"})))
    \/ ~Bracketed(hostport) /\ ToSet(HostIn(hostport)) \cap {"[", "]"} # {}
    \/ BehindHost(hostport) # <<>> /\ BehindHost(hostport)[1] # ":"

\* A host in lowercase, and the port that is not the scheme's own.
HostPort(hostport, scheme) ==
    LET default == IF scheme \in DOMAIN DefaultPorts THEN DefaultPorts[scheme] ELSE NoPort
        behind == BehindHost(hostport)
    IN  IF Misspelled(hostport) THEN {}
        ELSE {[host |-> Lower(HostIn(hostport)), port |-> IF port = default THEN NoPort ELSE port] :
                port \in Port(IF behind = <<>> THEN <<>> ELSE Tail(behind))}

\* The authority of a request: its URL's, or its Host header's with no scheme.
AuthorityOf(url, header, release) ==
    UNION {IF parts.netloc # <<>>
           THEN (IF "@" \in ToSet(parts.netloc) THEN {} ELSE HostPort(parts.netloc, parts.scheme))
           ELSE IF ToSet(header) \cap (NotAscii \cup {"@", ","}) # {} THEN {}
           ELSE HostPort(Stripped(header, Ows), "") :
             parts \in Split(url, release)}

\* @path and @query
PathOf(parts) == IF parts.path = <<>> THEN <<"/">> ELSE parts.path
QueryOf(parts) == <<"?">> \o parts.query

-------------------------------------------------------------------------------
(* messages.py                                                             *)

\* Mutant: str.strip, which takes any space.
LengthAnnouncesStripped(text) ==
    LET length == Stripped(text, Ows \cup {"nbsp"})
        significant == LeftStripped(length, {"0"})
    IN  \/ length = <<>> \/ ~AllIn(length, Digits)
        \/ Len(significant) > LengthDigits \/ Decimal(significant) > 0

\* Whether a Content-Length announces a body.
LengthAnnounces(text) ==
    LET length == Stripped(text, Ows)
        significant == LeftStripped(length, {"0"})
    IN  \/ length = <<>> \/ ~AllIn(length, Digits)
        \/ Len(significant) > LengthDigits \/ Decimal(significant) > 0
===============================================================================
