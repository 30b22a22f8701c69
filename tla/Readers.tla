------------------------------- MODULE Readers -------------------------------
(***************************************************************************)
(* Every reader of text, bytes or times in fiki, asked one question at a   *)
(* time: a keyid by each of the three sources of a key, a key spelled in a *)
(* configuration, a private key file, a signature, a signature header, a   *)
(* request's target and Host, a Content-Length, and, of the ports of fixed *)
(* width, the times a signature states.                                    *)
(*                                                                         *)
(* What is asked is a kind and the input of that kind.  The answer is      *)
(* empty until the reader has run.  The properties compare it with what    *)
(* was written, or with points found by trying them all.                   *)
(***************************************************************************)
EXTENDS KeyVectors, StructuredFields, RequestHeads, Windows

CONSTANTS
    Aids,        \* texts given as an expected AID, or as a keyid to resolve
    KeyidTexts,  \* texts given as a keyid, with nothing to resolve it
    KeyTable,    \* the resolver's entries: a keyid and its effective key, or none
    Configured,  \* texts given as a key of any spelling
    Files,       \* private key files: the text, and the bytes it armors or <<>>
    Signatures,  \* crafted signatures, with the torsion of the key and of R
    Fields,      \* signature headers, as written
    Hosts,       \* hosts an authority may have
    Targets,     \* a URL and a Host header, in parts
    Lengths      \* Content-Lengths

\* The two bytes of a key.
Raws == (0..2^ByteBits - 1) \X (0..2^ByteBits - 1)

\* A keyid, a Content-Length and the parts of a target are texts; a key table has an AID
\* or a digest once, with at most one key.
ASSUME ReadersAssumption ==
    /\ Aids \cup KeyidTexts \cup Lengths \subseteq Seq(STRING)
    /\ \A e \in KeyTable :
         /\ \E code \in {"B", "D", "E"}, raw \in Raws : e.keyid = Qb64(code, raw)
         /\ e.effective = {} \/ \E raw \in Raws : e.effective = {raw}
         /\ \A f \in KeyTable : e.keyid = f.keyid => e = f
    /\ \A t \in Targets : {t.scheme, t.user, t.host, t.port, t.path, t.query} \subseteq Seq(STRING)

VARIABLES asked, answer

vars == <<asked, answer>>

Init ==
    /\ \/ asked \in {"expected", "resolved"} \X Aids
       \/ asked \in {"keyid"} \X KeyidTexts
       \/ asked \in {"spelled"} \X Configured
       \/ asked \in {"file"} \X Files
       \/ asked \in {"signature"} \X Signatures
       \/ asked \in {"field"} \X Fields
       \/ asked \in {"target"} \X Targets
       \/ asked \in {"length"} \X Lengths
       \/ asked \in {"times"} \X (Stated \X Allowances \X (MinInt..MaxInt))
    /\ answer = <<>>

Asked(kind) == asked[1] = kind /\ answer = <<>> /\ UNCHANGED asked

ReadExpected == Asked("expected") /\ answer' = <<VerifyingKey(asked[2])>>

ReadKeyid == Asked("keyid") /\ answer' = <<InlineKey(asked[2])>>

ReadResolved == Asked("resolved") /\ answer' = <<ResolvedKey(KeyTable, asked[2])>>

ReadConfigured == Asked("spelled") /\ answer' = <<AidFrom(asked[2])>>

ReadFile == Asked("file") /\ answer' = <<ReadOpenSsh(asked[2].text)>>

ReadField == Asked("field") /\ answer' = <<ParseRefuses(asked[2])>>

ReadLength == Asked("length") /\ answer' = <<LengthAnnounces(asked[2])>>

ReadTimes ==
    LET times == asked[2]
    IN  /\ Asked("times")
        /\ answer' = <<[go |-> GoFreshnessRefusal(times[1], times[2], times[3]),
                       java |-> JavaFreshnessRefusal(times[1], times[2], times[3])]>>

\* The key, the hashes the library takes the signature for, and what the two equations
\* say of the hash it was made for.
CheckSignature ==
    LET sig == asked[2]
    IN  /\ Asked("signature")
        /\ answer' = <<
          [sound |-> KeyReads(sig.key),
           taken |-> {hash \in 0..q - 1 : LibraryVerifies(sig.key, sig.R, sig.s, hash)},
           verifies |-> Verifies(sig.key, sig.R, sig.s, sig.hash),
           cofactored |-> Cofactored(sig.key, sig.R, sig.s, sig.hash)]>>

\* An authority, a URL and a Host header from the parts of a target: an origin-form one
\* has its authority in Host, with t.header around it.
AuthorityText(t) == t.user \o t.host \o (IF t.port = <<>> THEN <<>> ELSE <<":">> \o t.port)

UrlOf(t) ==
    (IF t.scheme = <<>> THEN <<>> ELSE t.scheme \o AuthorityText(t))
      \o t.path \o (IF t.query = <<>> THEN <<>> ELSE <<"?">> \o t.query)

HeaderOf(t) == IF t.scheme = <<>> THEN t.header \o AuthorityText(t) \o t.header ELSE t.header

\* What each release of Python makes of a target.
ReadTarget ==
    LET t == asked[2]
    IN  /\ Asked("target")
        /\ answer' = <<
          [release \in Releases |->
             [authority |-> AuthorityOf(UrlOf(t), HeaderOf(t), release),
              path |-> {PathOf(parts) : parts \in Split(UrlOf(t), release)},
              query |-> {QueryOf(parts) : parts \in Split(UrlOf(t), release)}]]>>

Next ==
    \/ ReadExpected \/ ReadKeyid \/ ReadResolved \/ ReadConfigured \/ ReadFile
    \/ ReadField \/ ReadLength \/ ReadTimes \/ CheckSignature \/ ReadTarget

Spec == Init /\ [][Next]_vars

Read(kind) == asked[1] = kind /\ answer # <<>>

-------------------------------------------------------------------------------
(* Keys.                                                                   *)

OnCurve ==
    {pt \in (0..p - 1) \X (0..p - 1) :
       (pt[2] * pt[2] - pt[1] * pt[1] - 1 - d * (pt[1] * pt[1] % p) * (pt[2] * pt[2] % p)) % p = 0}

AffineAdd(s, t) ==
    LET k == d * (s[1] * t[1] % p) * (s[2] * t[2] % p)
    IN  <<(s[1] * t[2] + t[1] * s[2]) * Inv(1 + k) % p, (s[2] * t[2] + s[1] * t[1]) * Inv(1 - k) % p>>

EightTimes(s) ==
    LET two == AffineAdd(s, s)
        four == AffineAdd(two, two)
    IN  AffineAdd(four, four)

\* The one encoding of each point that is not of small order.
SoundKeys == {pt[2] + (pt[1] % 2) * 2^YBits : pt \in {pt \in OnCurve : EightTimes(pt) # <<0, 1>>}}

\* The multiples of a point that are neutral, up to the order of the group.
Neutrals(pt) == {n \in 0..8 * q : PointEqual(PointMul(n, pt), Neutral)}

\* Of a key that signs, the group has 8q points and what is added can be taken away, from
\* a multiple and from what the library compares; doubled three times is eight times.
ASSUME GroupAssumption ==
    /\ \A sig \in Signatures : sig.key \in Encodings /\ sig.s \in Nat
    /\ \A A \in UNION {PointDecompress(sig.key) : sig \in Signatures} :
         LET neutrals == Neutrals(A)
         IN  /\ 8 * q \in neutrals
             /\ \A m, n \in neutrals : m <= n => n - m \in neutrals
             /\ \A s \in {sig.s : sig \in Signatures} :
                  LET R == [hash \in 0..q - 1 |-> LibraryR(A, s, hash)]
                  IN  \A g, h \in 0..q - 1 : g < h /\ R[g] = R[h] => h - g \in neutrals
    /\ \A k \in SoundKeys : \A A \in PointDecompress(k) : 8 \notin Neutrals(A)

AidOf == [k \in SoundKeys |-> ToAid(RawOf(k))]
KeyidOf == [k \in SoundKeys |-> B64(RawOf(k), Url)]
SpellingsOf == [k \in SoundKeys |-> Spellings(RawOf(k), {})]

\* The sound keys' AIDs behind each spelling with no comment.
AidsSpelled ==
    [text \in UNION {SpellingsOf[k] : k \in SoundKeys} |->
       {AidOf[k] : k \in {k \in SoundKeys : text \in SpellingsOf[k]}}]

\* A text, and an OpenSSH line without its comment.
Commentless(text) ==
    {text}
      \cup {SubSeq(text, 1, i - 1) :
              i \in {i \in 2..Len(text) - 1 :
                       /\ text[1] = "ssh-ed25519 " /\ text[i] = " "
                       /\ text[i + 1] # " " /\ Last(text) # " " /\ "\n" \notin ToSet(text)}}

\* A text from the wire names a key in one spelling and no other, and only a point that
\* is encoded canonically and is not of small order; a D or an E prefix is never read as
\* the key it embeds (_local_key, _resolved, verifying_key, public_key).
WireKeysHaveOneSpelling ==
    /\ Read("expected") =>
         answer[1] = {RawOf(k) : k \in {k \in SoundKeys : AidOf[k] = asked[2]}}
    /\ Read("keyid") =>
         answer[1] = {RawOf(k) : k \in {k \in SoundKeys : KeyidOf[k] = asked[2]}}
    /\ Read("resolved") =>
         answer[1][2] =
           IF asked[2][1] = "B"
           THEN {RawOf(k) : k \in {k \in SoundKeys : AidOf[k] = asked[2]}}
           ELSE UNION {e.effective \cap {RawOf(k) : k \in SoundKeys} :
                         e \in {e \in KeyTable : e.keyid = asked[2]}}

\* A configured key is read in exactly the spellings other software writes for it, and
\* all of them give its one AID (aid_from and every reader under it).
ConfiguredKeysHaveOneSpelling ==
    Read("spelled") =>
      answer[1] =
        IF Len(asked[2]) > MaxPublicChars THEN {}
        ELSE UNION {AidsSpelled[text] : text \in Commentless(asked[2]) \cap DOMAIN AidsSpelled}

\* Where the check integers, the seed and the comment of an OpenSSH key stand.
BeforePrivate(f) == Len(OpenSshKey(f)) - Len(UnpaddedPrivate(f)) - Len(PaddingOf(f))
ChecksAt == 1 + BeforePrivate(Plainly(<<0, 0>>, <<0, 0>>, <<>>, 0))
CheckIn(blob) == Number(SubSeq(blob, ChecksAt, ChecksAt + 1), 2^ByteBits)
SeedIn(blob) == SubSeq(blob, ChecksAt + 15, ChecksAt + 16)
CommentIn(blob) ==
    LET size == Number(SubSeq(blob, ChecksAt + 19, ChecksAt + 20), 2^ByteBits)
    IN  SubSeq(blob, ChecksAt + 21, ChecksAt + 20 + size)

\* The bytes a writer would write, for the seed, comment and check integer in them.
Faithful(blob) ==
    /\ Len(blob) > ChecksAt + 20
    /\ Len(blob) > ChecksAt + 19
         + Number(SubSeq(blob, ChecksAt + 19, ChecksAt + 20), 2^ByteBits)
    /\ ToSet(CommentIn(blob)) \subseteq PrintableBytes
    /\ blob = OpenSshKey(FieldsFor(SeedIn(blob), CommentIn(blob), CheckIn(blob)))

\* A private key file is read exactly where a writer would have written it for the seed
\* in it: no field, length, padding byte or stored public key can be otherwise, and a
\* file that was armored whole is read (read_openssh, _private_section).
FilesHoldTheirKey ==
    Read("file") =>
      LET file == asked[2]
          blobs == IF file.blob # <<>> THEN {file.blob} ELSE Unarmored(file.text)
      IN  answer[1] = {SeedIn(blob) : blob \in {b \in blobs : Faithful(b)}}

\* What the key vectors say of a text is what its reader makes of it (keys.json).
KeyVectorsHold ==
    /\ Read("spelled") =>
         /\ \A c \in PublicAccepts : c.input = asked[2] => answer[1] = {c.aid}
         /\ asked[2] \in PublicRefusals => answer[1] = {}
    /\ Read("file") =>
         /\ \A c \in PrivateAccepts : c.input = asked[2].text => answer[1] = {c.seed}
         /\ asked[2].text \in PrivateRefusals => answer[1] = {}

-------------------------------------------------------------------------------
(* Signatures.                                                             *)

\* Under a key fiki reads, a signature is for one message: what refusing points of
\* small order is for (public_key).
SignatureFixesMessage ==
    Read("signature") => (answer[1].sound => Cardinality(answer[1].taken) <= 1)

\* What the vectors' signatures tell apart: the cofactored equation holds whatever torsion
\* the key and R carry, the cofactorless one and the library only where it cancels, and
\* neither takes an R that is not canonical.
EquationsAreTold ==
    Read("signature") =>
      LET sig == asked[2]
          canonical == sig.R % 2^YBits < p
      IN  /\ answer[1].cofactored = canonical
          /\ answer[1].verifies = (canonical /\ (sig.inR + sig.hash * sig.inKey) % 8 = 0)
          /\ answer[1].verifies = (sig.hash \in answer[1].taken)

-------------------------------------------------------------------------------
(* Signature headers.                                                      *)

ItemBares(item) == {item.bare} \cup {param.bare : param \in ToSet(item.params)}

WrittenBares(written) ==
    UNION {UNION {ItemBares(item) : item \in ToSet(member.items)}
             \cup {param.bare : param \in ToSet(member.params)} : member \in ToSet(written)}

\* The spellings RFC 8941 does not have.
BadBytes(bare) ==
    LET content == SubSeq(bare.chars, 2, Len(bare.chars) - 1)
    IN  /\ bare.type = "bytes"
        /\ \/ Len(content) % 4 # 0
           \/ \E i \in DOMAIN content :
                /\ content[i] = "="
                /\ \/ i < Len(content) - 1
                   \/ i < Len(content) /\ content[i + 1] # "="

BadDecimal(bare) == bare.type = "decimal" /\ Last(bare.chars) = "."

KeysOf(seq) == {seq[i].key : i \in DOMAIN seq}

\* The last member of each key, which is the one that counts.
Kept(seq) == {seq[i] : i \in {i \in DOMAIN seq : seq[i].key \notin KeysOf(SubSeq(seq, i + 1, Len(seq)))}}

Fits(written) ==
    /\ Len(TextOf(written)) <= MaxFieldBytes
    /\ Cardinality(KeysOf(written)) <= MaxMembers
    /\ \A member \in Kept(written) :
         /\ member.inner => Len(member.items) <= MaxItems
         /\ Cardinality(KeysOf(member.params)) <= MaxParameters
         /\ \A item \in ToSet(member.items) : Cardinality(KeysOf(item.params)) <= MaxParameters

\* No bare value among those that are kept is a Date or a Display String.
KeptBares(written) ==
    UNION {UNION {{item.bare} \cup {param.bare : param \in Kept(item.params)} : item \in ToSet(member.items)}
             \cup {param.bare : param \in Kept(member.params)} : member \in Kept(written)}

\* A header is refused exactly where it is over a limit, carries a Date or a Display
\* String that counts, or spells a byte sequence or a decimal as RFC 8941 does not; text
\* that only looks so, inside a token, a key or a string, is no reason (_parse, _SCANNED).
FieldsAreRfc8941 ==
    Read("field") =>
      answer[1] =
        (\/ ~Fits(asked[2])
         \/ \E bare \in WrittenBares(asked[2]) : BadBytes(bare) \/ BadDecimal(bare)
         \/ \E bare \in KeptBares(asked[2]) : bare.type \in {"date", "display string"})

-------------------------------------------------------------------------------
(* Targets and lengths.                                                    *)

\* A target gives the authority, path and query it was written with, and none where a
\* part cannot stand there: an origin-form target has its Host's whatever its path looks
\* like, and user information, a fragment or a port that is not one is unreadable
\* (_split, _authority, _hostport, _port).
TargetIsReadAsWritten ==
    Read("target") =>
      \A release \in Releases :
        LET t == asked[2]
            got == answer[1][release]
            scheme == IF t.scheme = <<>> THEN "" ELSE Schemes[t.scheme[1]]
            port == IF t.port = <<>> THEN NoPort ELSE Decimal(t.port)
            stands == /\ Len(UrlOf(t)) <= MaxTargetChars /\ t.host \in Hosts /\ t.user = <<>>
                      /\ AllIn(t.port, Digits) /\ port <= PortMax
                      /\ ToSet(t.path \o t.query) \cap {" ", "#"} = {}
                      /\ IF t.scheme = <<>> THEN AllIn(t.header, Ows) ELSE AuthorityText(t) # <<>>
        IN  /\ got.authority =
                 IF ~stands THEN {}
                 ELSE {[host |-> Lower(t.host),
                        port |-> IF scheme \in DOMAIN DefaultPorts /\ port = DefaultPorts[scheme]
                                THEN NoPort ELSE port]}
            /\ stands =>
                 /\ got.path = {IF t.path = <<>> THEN <<"/">> ELSE t.path}
                 /\ got.query = {<<"?">> \o t.query}

\* Every release of Python fiki runs on gives a target the same authority (the checks
\* _hostport repeats because urlsplit's differ).
AuthoritySameOnEveryPython ==
    Read("target") => \A r1, r2 \in Releases : answer[1][r1].authority = answer[1][r2].authority

\* Only zero, in any number of digits and with the optional whitespace of HTTP around it,
\* says that there is no body (_request_has_body).
ZeroLengthIsNoBody ==
    Read("length") =>
      (~answer[1] <=>
        \E i \in 1..Len(asked[2]), j \in 1..Len(asked[2]) :
          /\ i <= j /\ AllIn(SubSeq(asked[2], i, j), {"0"})
          /\ AllIn(SubSeq(asked[2], 1, i - 1) \o SubSeq(asked[2], j + 1, Len(asked[2])), Ows))

\* A port whose integers have a width refuses a signature for its times exactly where
\* Python does, however wide the caller's window and wherever its clock; the one
\* exception is Java's largest skew, which limits nothing (checkFreshness, later, sum).
TimesAreComparedInFull ==
    Read("times") =>
      LET times == asked[2]
          refusal == Python!FreshnessRefusal(times[1], times[2], times[3])
      IN  /\ answer[1].go = refusal
          /\ ~NoLimit(times[2], times[3]) => answer[1].java = refusal

-------------------------------------------------------------------------------
(* What the documentation says and the code does not do.                   *)

\* A resolver is asked only about a well-formed AID: "44 characters, B, D or E, then the
\* canonical base64url spelling of 32 bytes" (_local_key), by the vectors' own test.
WellFormedIsAnAid ==
    Read("resolved") => (~KeriWellFormed(asked[2]) => answer[1][1] = "MalformedKey")

\* A header that carries a Date or a Display String is refused (_check_rfc_8941).
DatesAreRefused ==
    Read("field") =>
      ((\E bare \in WrittenBares(asked[2]) : bare.type \in {"date", "display string"}) => answer[1])
===============================================================================
