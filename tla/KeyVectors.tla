----------------------------- MODULE KeyVectors -----------------------------
(***************************************************************************)
(* The key vectors every port runs (vectors/keys/generate.py): texts with  *)
(* what aid_from and Key.from_openssh make of them.                        *)
(*                                                                         *)
(* A text that other software wrote in a format fiki does not read is one  *)
(* character: its own prefix.                                              *)
(***************************************************************************)
EXTENDS OpenSshKeys

SeedA == <<0, 1>>
SeedB == <<1, 2>>

A32 == DerivedRaw(SeedA)
Other32 == DerivedRaw(SeedB)
Identity == RawOf(1)
YIsP == RawOf(p)

X25519Pub == <<12, 1>>
Secp256k1Pub == <<7, 1>>

\* The character whose value has the bit n stands for as well.
WithBit(c, alphabet, n) ==
    LET index == IndexIn(alphabet, c) IN alphabet[IF index \div n % 2 = 1 THEN index + 1 ELSE index + n + 1]

FlipSpareBits(text, alphabet) == Append(Front(text), WithBit(Last(text), alphabet, 1))

\* The pad bit under the code of an AID.
WithPadBit(aid) == [aid EXCEPT ![2] = WithBit(@, Url, 4)]

LongComment(n) == [i \in 1..n |-> "x"]

-------------------------------------------------------------------------------
(* Public spellings.                                                       *)

\* The clamped seeds give too few keys for one to begin with each code: the last cases
\* take those of any secret.
PublicAccepts ==
    LET line == SshLine(A32, <<>>)
        texts == Spellings(A32, {<<"c">>, <<"c", " ", "c">>, LongComment(MaxPublicChars - Len(line) - 1)})
    IN  {[input |-> text, aid |-> ToAid(A32)] : text \in texts}
          \cup {[input |-> <<"did:key:">> \o Multibase(Ed25519Pub \o Other32), aid |-> ToAid(Other32)]}
          \cup {[input |-> B64(raw, Url), aid |-> ToAid(raw)] :
                  raw \in {raw \in {RawOf(PublicOf(a)) : a \in 1..q - 1} :
                             B64(raw, Url)[1] \in {"B", "D", "E"}}}

AidRefusals ==
    LET aid == ToAid(A32)
    IN  {<<>>, <<" ">> \o aid, Append(aid, "\n"), <<"hello">>, WithPadBit(aid), ToAid(Identity)}
          \cup {<<code>> \o Tail(text) : code \in {"D", "E"},
                                         text \in {aid, Append(Front(aid), "!"), WithPadBit(aid)}}
          \cup {Append(Front(aid), "astral")}

RawRefusals ==
    LET keyid == B64(A32, Url)
    IN  {Append(keyid, "="), B64([i \in 1..RawLen |-> 13 + (i % 2)], Std), FlipSpareBits(keyid, Url), Front(keyid),
         B64(Identity, Url), B64(YIsP, Url), Append(Front(keyid), "astral"), Append(Front(keyid), "fullwidth")}

DidRefusals ==
    LET good == Multibase(Ed25519Pub \o A32)
        u == <<"u">> \o B64(Ed25519Pub \o A32, Url)
    IN  {<<scheme>> \o good : scheme \in {"DID:KEY:", "did:peer:1", "did:peer:2", "did:peer:"}}
          \cup {<<"did:key:">> \o value :
                  value \in {Tail(good), <<"f">> \o Tail(good), Append(Front(good), "0"), <<"z", "1">> \o Tail(good),
                             good \o <<"#">> \o good, good \o <<"?", "x">>, u, Front(u), u \o <<"=", "=">>,
                             FlipSpareBits(u, Url), <<>>, <<"z">> \o [i \in 1..MaxPublicChars |-> "1"]}}
          \cup {<<did>> \o Multibase(data) : did \in {"did:key:", "did:peer:0"},
                  data \in {X25519Pub \o A32, Secp256k1Pub \o <<2>> \o A32, <<13, 8, 0>> \o A32,
                            Ed25519Pub \o Front(A32), Ed25519Pub \o A32 \o <<0>>, <<13, 2>> \o A32,
                            Ed25519Pub \o Identity, Ed25519Pub \o YIsP}}
          \cup {<<"did:peer:0">> \o u}

SshRefusals ==
    LET line == SshLine(A32, <<>>)
        bytes(data) == <<"ssh-ed25519 ">> \o B64Padded(data, Std)
    IN  {<<type>> \o Tail(line) : type \in {"ssh-rsa ", "ecdsa ", "sk-ssh-ed25519 ", "ssh-ed25519\t", "SSH-ED25519 "}}
          \cup {bytes(data) : data \in {String(<<9, 12, 8>>) \o String(A32), Append(SshBlob(A32), 0),
                                        String(SshType) \o String(Front(A32)),
                                        String(SshType) \o Uint32(2 * RawLen) \o A32, SshBlob(Identity)}}
          \cup {<<"restrict ">> \o line, <<"ssh-ed25519 ", " ">> \o Tail(line),
                SshLine(A32, LongComment(MaxPublicChars - Len(line)))}
          \cup {line \o more :
                  more \in {<<"\r", "\n">>, <<" ">>, <<" ", "\n">>, <<" ", "c", "\n">> \o SshLine(Other32, <<>>),
                            <<" ", " ", "c">>, <<" ", "c", " ">>, <<" ", " ">>, <<"=">>, <<"=", "A", "A">>}}
          \cup {<<"ssh-ed25519 ">> \o B64(String(SshType) \o String(<<15, 15>>), Url)}
          \cup {<<"BEGIN", "\n">>, <<"BEGIN PRIVATE KEY", "\n">>}

PublicRefusals == AidRefusals \cup RawRefusals \cup DidRefusals \cup SshRefusals

-------------------------------------------------------------------------------
(* OpenSSH private keys.                                                   *)

Written(comment) == OpenSshKey(FieldsFor(SeedA, comment, 6))

Armored(blob) == Armor(blob, 70, TRUE)

\* The longest comment with which the key stays within the bound.
NearBound ==
    LET comment(n) == [i \in 1..n |-> 3]
    IN  comment(CHOOSE n \in 0..MaxPrivateChars :
                  /\ Len(Armored(Written(comment(n)))) <= MaxPrivateChars
                  /\ Len(Armored(Written(comment(n + 1)))) > MaxPrivateChars)

PrivateAccepts ==
    {[input |-> Armored(Written(comment)), seed |-> SeedA] : comment \in {<<>>, <<3, 4>>, NearBound}}
      \cup {[input |-> Armor(Written(<<>>), 70, FALSE), seed |-> SeedA],
            [input |-> Armor(OpenSshKey(FieldsFor(SeedB, <<>>, 6)), 8, TRUE), seed |-> SeedB]}

\* One field each, or the public keys together; natural is the padding a writer writes,
\* other another key.
MisWritten(good, natural, other) ==
    {[good EXCEPT !.magic = <<10, 15>>], [good EXCEPT !.cipher = <<6>>], [good EXCEPT !.kdf = <<6>>],
     [good EXCEPT !.cipher = <<6>>, !.kdf = <<6>>], [good EXCEPT !.kdfoptions = <<0>>],
     [good EXCEPT !.nkeys = 2], [good EXCEPT !.nkeys = 0], [good EXCEPT !.checks = <<1, 2>>],
     [good EXCEPT !.padding = {Append(Front(natural), 4)}],
     [good EXCEPT !.padding = {[i \in 1..Block + Len(natural) - 1 |-> i]}],
     [good EXCEPT !.padding = {[i \in 1..Len(natural) + Block |-> i]}],
     [good EXCEPT !.padding = {<<1, 2>>}], [good EXCEPT !.ktype = <<9, 12, 8>>],
     [good EXCEPT !.public = other], [good EXCEPT !.inner = other], [good EXCEPT !.tail = other],
     [good EXCEPT !.trailing = <<0, 0>>], [good EXCEPT !.extra = <<0, 0>>],
     [good EXCEPT !.comment = <<7>>], [good EXCEPT !.comment = <<3, 1, 3>>]}
      \cup {[good EXCEPT !.public = raw, !.inner = raw, !.tail = raw] : raw \in {other, Identity}}

\* A file that was written well, with its armor otherwise.
MisArmored(good) ==
    LET lineEnds(end) == FlattenSeq([i \in DOMAIN good |-> IF good[i] = "\n" THEN end ELSE <<good[i]>>])
    IN  {<<"key:", "\n">> \o good, good \o <<"more", "\n">>,
         SubSeq(good, 1, Len(good) - 2), InsertAt(good, 8, " "), InsertAt(good, 2, "\n"),
         lineEnds(<<"\r">>), lineEnds(<<"\r", "\n">>), InsertAt(good, 2, "\r"), InsertAt(good, 3, "\t"),
         [i \in DOMAIN good |-> IF good[i] = "+" THEN "-" ELSE IF good[i] = "/" THEN "_" ELSE good[i]]}

\* The body of a file whose base64 ends in padding, with no padding or in another spelling.
MisPadded(body) ==
    LET between(lines) == <<"BEGIN", "\n">> \o lines \o <<"\n", "END", "\n">>
    IN  {between(body), between(FlipSpareBits(body, Std) \o PadFor(Len(body)))}

PrivateRefusals ==
    LET header == Magic \o String(NoneBytes) \o String(NoneBytes) \o String(<<>>)
        padded == CHOOSE blob \in {Written([i \in 1..Block * n |-> 3]) : n \in 0..3} : Len(blob) % 3 # 0
    IN  {Armored(OpenSshKey(f)) :
           f \in UNION {MisWritten(good, PaddingOf(good), Other32) : good \in {FieldsFor(SeedA, <<>>, 6)}}}
          \cup MisArmored(Armored(Written(<<>>))) \cup MisPadded(B64(padded, Std))
          \cup {<<>>, Armored(Written([i \in 1..MaxPrivateChars |-> 3])), <<"BEGIN PRIVATE KEY", "\n">>,
                SshLine(A32, <<>>), Armored(header),
                Armored(header \o Uint32(1) \o Uint32(11) \o SubSeq(SshBlob(A32), 1, 6)),
                Armored(header \o Uint32(1) \o String(SshBlob(A32)) \o String(<<>>))}
===============================================================================
