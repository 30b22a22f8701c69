------------------------------ MODULE KeyTexts ------------------------------
(***************************************************************************)
(* The spellings of an Ed25519 key: an AID and a raw keyid, as             *)
(* py/src/fiki/keys.py and messages.py read them on every message, the     *)
(* others of py/src/fiki/formats.py, read from a configuration, and what   *)
(* vectors/keys/generate.py and vectors/keri/generate.py write.            *)
(*                                                                         *)
(* A text is a sequence of characters, a byte string one of bytes.  To     *)
(* keep them short a byte has four bits, a base64 character three and a    *)
(* base58 digit one of five values.  A key is then two bytes, and the      *)
(* proportions that matter stay: three bytes are four characters, a key    *)
(* behind one pad byte fills its characters exactly, a key alone leaves    *)
(* spare bits in the last, and the code stands for all but one bit of the  *)
(* pad.  A fixed prefix, such as "did:key:", is one character.             *)
(***************************************************************************)
EXTENDS Curve

ByteBits == 4
CharBits == 3

RawLen == 2        \* bytes of a key: 32
AidLen == 4        \* characters of an AID: 44
RawKeyidLen == 3   \* characters of a raw keyid: 43
MaxMultibase == 8  \* characters of a multibase value: 48
MaxPublicChars == 17  \* characters of any spelling: 1024

\* The bits of a key's bytes are those of an encoding.
ASSUME KeyTextsAssumption == YBits + 1 = RawLen * ByteBits

Url == <<"A", "B", "C", "D", "E", "F", "-", "_">>
Std == <<"A", "B", "C", "D", "E", "F", "+", "/">>
B58 == <<"1", "2", "3", "4", "5">>

SshType == <<9, 12, 7>>
Ed25519Pub == <<13, 1>>

Control == {"\n"}  \* characters that are not printable ASCII

Over(alphabet, text) == \A i \in DOMAIN text : text[i] \in ToSet(alphabet)

\* The value of a character, from 0.
IndexIn(alphabet, c) == (CHOOSE i \in DOMAIN alphabet : alphabet[i] = c) - 1

\* A number from digits in a base, the first the highest.
Number(digits, base) == FoldLeft(LAMBDA n, digit : n * base + digit, 0, digits)

\* The same bits in digits of another size: missing bits are 0, bits that do not fill a
\* digit are dropped.
Regroup(digits, from, to, n) ==
    LET bit[k \in 0..to * n - 1] ==
          IF k \div from + 1 \in DOMAIN digits
          THEN digits[k \div from + 1] \div 2^(from - 1 - (k % from)) % 2 ELSE 0
    IN  [i \in 1..n |-> Number([j \in 1..to |-> bit[(i - 1) * to + j - 1]], 2)]

RawOf(encoding) == <<encoding % 2^ByteBits, encoding \div 2^ByteBits>>

EncodingOf(raw) == raw[1] + raw[2] * 2^ByteBits

-------------------------------------------------------------------------------
(* Python's base64 module.                                                 *)

\* Without padding.
B64(data, alphabet) ==
    LET values == Regroup(data, ByteBits, CharBits, (Len(data) * 4 + 2) \div 3)
    IN  [i \in DOMAIN values |-> alphabet[values[i] + 1]]

PadFor(n) == [i \in 1..(4 - (n % 4)) % 4 |-> "="]

B64Padded(data, alphabet) == LET text == B64(data, alphabet) IN text \o PadFor(Len(text))

\* b64decode with validate=True: the characters, then the padding they need.  Spare
\* bits are not looked at.
Bodies(text, alphabet) ==
    {body \in {SubSeq(text, 1, n) : n \in 0..Len(text)} :
       text = body \o PadFor(Len(body)) /\ Len(body) % 4 # 1 /\ Over(alphabet, body)}

B64Decode(text, alphabet) ==
    {Regroup([i \in DOMAIN body |-> IndexIn(alphabet, body[i])],
             CharBits, ByteBits, (Len(body) * 3) \div 4) : body \in Bodies(text, alphabet)}

-------------------------------------------------------------------------------
(* keys.py and messages.py                                                 *)

\* A code, then a zero byte and the bytes without their first character.
Qb64(code, raw) == <<code>> \o Tail(B64Padded(<<0>> \o raw, Url))

ToAid(raw) == Qb64("B", raw)

\* What is behind the code of an AID, its pad byte first.
Behind(text) == B64Decode(<<"A">> \o Tail(text), Url)

\* well_formed_aid
WellFormed(text) ==
    /\ Len(text) = AidLen /\ text[1] \in {"B", "D", "E"}
    /\ \E bytes \in Behind(text) : text = Qb64(text[1], Tail(bytes))

\* The keys a reader may give back, of the bytes it read: none or one.
Readable(raws) == {raw \in raws : Len(raw) = RawLen /\ KeyReads(EncodingOf(raw))}

\* Mutant: the pad byte may be anything.
VerifyingAnyPad(text) ==
    IF Len(text) # AidLen \/ text[1] # "B" THEN {}
    ELSE Readable({Tail(bytes) : bytes \in {b \in Behind(text) : Len(b) = 1 + RawLen}})

VerifyingKey(text) ==
    IF Len(text) # AidLen \/ text[1] # "B" THEN {}
    ELSE Readable({Tail(bytes) : bytes \in {b \in Behind(text) :
                                              Len(b) = 1 + RawLen /\ ToAid(Tail(b)) = text}})

\* The key a keyid is, for a verifier with no resolver and no expected AID.
InlineKey(keyid) ==
    IF Len(keyid) # RawKeyidLen \/ ~Over(Url, keyid) THEN {}
    ELSE Readable({raw \in B64Decode(Append(keyid, "="), Url) : B64(raw, Url) = keyid})

-------------------------------------------------------------------------------
(* RFC 4251 wire fields (_Reader of openssh.py): what is read and what is  *)
(* left, or nothing where a length overruns.                               *)

Uint32Bytes == 2

Uint32(n) == <<n \div 2^ByteBits, n % 2^ByteBits>>

ReadUint32(data) ==
    IF Len(data) < Uint32Bytes THEN {}
    ELSE {[value |-> Number(SubSeq(data, 1, Uint32Bytes), 2^ByteBits),
           rest |-> SubSeq(data, Uint32Bytes + 1, Len(data))]}

ReadString(data) ==
    {[value |-> SubSeq(r.rest, 1, r.value), rest |-> SubSeq(r.rest, r.value + 1, Len(r.rest))] :
       r \in {u \in ReadUint32(data) : u.value <= Len(u.rest)}}

String(data) == Uint32(Len(data)) \o data

SshBlob(raw) == String(SshType) \o String(raw)

\* The key of a public blob with nothing after it.
SshPublicBlob(blob) ==
    UNION {{r.value : r \in {s \in ReadString(t.rest) : Len(s.value) = RawLen /\ s.rest = <<>>}} :
             t \in {s \in ReadString(blob) : s.value = SshType}}

-------------------------------------------------------------------------------
(* formats.py                                                              *)

\* Mutant: the bits left over are ignored.
B64UrlLenient(text) ==
    IF Len(text) % 4 = 1 THEN {} ELSE B64Decode(text \o PadFor(Len(text)), Url)

B64Url(text) ==
    IF Len(text) % 4 = 1 THEN {}
    ELSE {data \in B64Decode(text \o PadFor(Len(text)), Url) : B64(data, Url) = text}

B64Std(text) == {data \in B64Decode(text, Std) : B64Padded(data, Std) = text}

\* As many bytes as a number needs.
ToBytes(number) ==
    LET size == CHOOSE n \in 0..2 * MaxMultibase :
                  /\ number < 2^(ByteBits * n)
                  /\ n > 0 => number >= 2^(ByteBits * (n - 1))
    IN  [i \in 1..size |-> number \div 2^(ByteBits * (size - i)) % 2^ByteBits]

\* The leading digits that are zero.
LeadingOnes(text) ==
    CHOOSE n \in 0..Len(text) :
      /\ \A i \in 1..n : text[i] = "1"
      /\ n < Len(text) => text[n + 1] # "1"

Base58(text) ==
    IF text = <<>> \/ ~Over(B58, text) THEN {}
    ELSE {[i \in 1..LeadingOnes(text) |-> 0]
            \o ToBytes(Number([i \in DOMAIN text |-> IndexIn(B58, text[i])], Len(B58)))}

\* Mutant: the header's first byte says what the key is.
MultibaseAnyEd(value) ==
    IF Len(value) > MaxMultibase \/ value = <<>> \/ Head(value) # "z" THEN {}
    ELSE {SubSeq(bytes, 3, Len(bytes)) :
            bytes \in {b \in Base58(Tail(value)) :
                         Len(b) = Len(Ed25519Pub) + RawLen /\ b[1] = Ed25519Pub[1]}}

MultibaseEd25519(value) ==
    IF Len(value) > MaxMultibase \/ value = <<>> \/ Head(value) # "z" THEN {}
    ELSE {SubSeq(bytes, 3, Len(bytes)) :
            bytes \in {b \in Base58(Tail(value)) :
                         Len(b) = Len(Ed25519Pub) + RawLen /\ SubSeq(b, 1, 2) = Ed25519Pub}}

AidBody(text) ==
    IF Len(text) # AidLen \/ text[1] \notin {"B", "D", "E"} THEN {}
    ELSE {Tail(bytes) : bytes \in {b \in B64Url(<<"A">> \o Tail(text)) :
                                     Tail(ToAid(Tail(b))) = Tail(text)}}

\* The blob of an OpenSSH public line: up to the first space, with a comment after it
\* that neither begins nor ends with one.
SshLineBlob(rest) ==
    LET space == {i \in DOMAIN rest : rest[i] = " "}
        at == IF space = {} THEN Len(rest) + 1 ELSE CHOOSE i \in space : \A j \in space : i <= j
        blob == SubSeq(rest, 1, at - 1)
        comment == SubSeq(rest, at + 1, Len(rest))
    IN  IF /\ blob # <<>> /\ \A i \in DOMAIN blob : blob[i] \in ToSet(Std) \cup {"="}
           /\ at <= Len(rest) =>
                /\ comment # <<>> /\ ToSet(comment) \cap Control = {}
                /\ comment[1] # " " /\ Last(comment) # " "
        THEN {blob} ELSE {}

\* The key a text spells, by its shape.
KeyOf(text) ==
    IF Len(text) = AidLen /\ text[1] = "B" THEN AidBody(text)
    ELSE IF Len(text) = RawKeyidLen THEN B64Url(text)
    ELSE IF text = <<>> THEN {}
    ELSE IF Head(text) \in {"did:key:", "did:peer:0"} THEN MultibaseEd25519(Tail(text))
    ELSE IF Head(text) = "ssh-ed25519 "
    THEN UNION {SshPublicBlob(bytes) : bytes \in UNION {B64Std(b) : b \in SshLineBlob(Tail(text))}}
    ELSE {}

\* The AID of the key a text spells: a transferable AID or a digest spells none.
AidFrom(text) ==
    IF \/ Len(text) > MaxPublicChars
       \/ text # <<>> /\ text[1] \in {"D", "E"} /\ AidBody(text) # {}
    THEN {} ELSE {ToAid(raw) : raw \in Readable(KeyOf(text))}

-------------------------------------------------------------------------------
(* vectors/keys/generate.py: the spellings as other software writes them.  *)

Multibase(data) ==
    LET number == Number(data, 2^ByteBits)
        width == CHOOSE n \in 1..MaxMultibase + 3 : number < Len(B58)^n /\ number >= Len(B58)^(n - 1)
    IN  <<"z">> \o [i \in 1..width |-> B58[(number \div Len(B58)^(width - i) % Len(B58)) + 1]]

SshLine(raw, comment) ==
    <<"ssh-ed25519 ">> \o B64Padded(SshBlob(raw), Std)
      \o (IF comment = <<>> THEN <<>> ELSE <<" ">> \o comment)

Spellings(raw, comments) ==
    {ToAid(raw), B64(raw, Url)}
      \cup {<<did>> \o Multibase(Ed25519Pub \o raw) : did \in {"did:key:", "did:peer:0"}}
      \cup {SshLine(raw, comment) : comment \in comments \cup {<<>>}}

-------------------------------------------------------------------------------
(* vectors/keri/generate.py                                                *)

\* The vectors' own test of a keyid.
KeriWellFormed(keyid) ==
    /\ Len(keyid) = AidLen /\ keyid[1] \in {"B", "D", "E"}
    /\ \E bytes \in Behind(keyid) : Len(bytes) = 1 + RawLen /\ Qb64(keyid[1], Tail(bytes)) = keyid

\* A key table's lookup, <<refusal, keys>>: the bytes of a B prefix, unexamined, and
\* otherwise the effective key of the entry, never one the prefix embeds.
Resolve(table, keyid) ==
    LET entries == {e \in table : e.keyid = keyid}
    IN  IF keyid[1] = "B" THEN <<"none", {Tail(bytes) : bytes \in Behind(keyid)}>>
        ELSE IF entries = {} THEN <<"UnknownKey", {}>>
        ELSE IF \E e \in entries : e.effective = {} THEN <<"UnsupportedSigner", {}>>
        ELSE <<"none", UNION {e.effective : e \in entries}>>

\* What a verifier with that resolver makes of a keyid.
ResolvedKey(table, keyid) ==
    IF ~WellFormed(keyid) THEN <<"MalformedKey", {}>>
    ELSE LET said == Resolve(table, keyid)
         IN  IF said[1] # "none" \/ Readable(said[2]) # {} THEN said ELSE <<"MalformedKey", {}>>
===============================================================================
