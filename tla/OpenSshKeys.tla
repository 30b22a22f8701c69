----------------------------- MODULE OpenSshKeys -----------------------------
(***************************************************************************)
(* The reader of unencrypted OpenSSH private keys                          *)
(* (py/src/fiki/openssh.py, Key.from_openssh), and the writer of the       *)
(* vectors, whose fields can each be overridden                            *)
(* (vectors/keys/generate.py).                                             *)
(*                                                                         *)
(* Bytes and characters are KeyTexts'.  "BEGIN" and "END" are the two      *)
(* lines of armor, "none" and the magic are shorter, a length takes two    *)
(* bytes, and a block is four bytes.  Every refusal is MalformedKey.       *)
(***************************************************************************)
EXTENDS KeyTexts

MaxPrivateChars == 96   \* 4096
Block == 4              \* 8
Magic == <<10, 14>>
NoneBytes == <<5>>
PrintableBytes == 2..6  \* 0x20 to 0x7e: 1 and below are control bytes, 7 is DEL

\* The key pair of a seed, which is hashed to a scalar.
DerivedRaw(seed) == RawOf(PublicOf(SecretExpand(EncodingOf(seed))))

-------------------------------------------------------------------------------
(* openssh.py                                                              *)

\* The lines of a text, without its final newline.
LinesOf(text) ==
    LET ended == IF text # <<>> /\ Last(text) = "\n" THEN Front(text) ELSE text
    IN  FoldLeft(LAMBDA lines, c : IF c = "\n" THEN Append(lines, <<>>)
                                   ELSE Append(Front(lines), Append(Last(lines), c)),
                 <<<<>>>>, ended)

\* Characters, then at most two of padding.
ShapedStd(line) ==
    \E n \in 0..2 : /\ n <= Len(line)
                    /\ Over(Std, SubSeq(line, 1, Len(line) - n))
                    /\ \A i \in Len(line) - n + 1..Len(line) : line[i] = "="

\* The bytes an armored block holds.
Unarmored(text) ==
    LET lines == LinesOf(text)
        body == SubSeq(lines, 2, Len(lines) - 1)
    IN  IF \/ Len(text) > MaxPrivateChars
           \/ Len(lines) < 3 \/ lines[1] # <<"BEGIN">> \/ Last(lines) # <<"END">>
           \/ \E i \in DOMAIN body : body[i] = <<>> \/ ~ShapedStd(body[i])
        THEN {} ELSE B64Std(FlattenSeq(body))

\* Several strings, one after another.
ReadStrings(n, data) ==
    FoldLeft(LAMBDA read, k :
               UNION {{[values |-> Append(r.values, s.value), rest |-> s.rest] :
                         s \in ReadString(r.rest)} : r \in read},
             {[values |-> <<>>, rest |-> data]}, [k \in 1..n |-> k])

\* Mutant: the public key stored with the seed is not compared with the one named.
PrivateSectionUnmatched(private, raw) ==
    {SubSeq(r.values[3], 1, RawLen) : r \in
       {r \in ReadStrings(4, SubSeq(private, 2 * Uint32Bytes + 1, Len(private))) :
          /\ Len(private) % Block = 0
          /\ SubSeq(private, 1, Uint32Bytes) = SubSeq(private, Uint32Bytes + 1, 2 * Uint32Bytes)
          /\ r.values[1] = SshType /\ Len(r.values[3]) = 2 * RawLen
          /\ DerivedRaw(SubSeq(r.values[3], 1, RawLen)) = raw
          /\ ToSet(r.values[4]) \subseteq PrintableBytes
          /\ Len(r.rest) < Block /\ \A i \in DOMAIN r.rest : r.rest[i] = i}}

\* The seed in the private section: the check integers agree, and the public key is the
\* one outside, in both places it is stored, and the one the seed derives.
PrivateSection(private, raw) ==
    {SubSeq(r.values[3], 1, RawLen) : r \in
       {r \in ReadStrings(4, SubSeq(private, 2 * Uint32Bytes + 1, Len(private))) :
          /\ Len(private) % Block = 0
          /\ SubSeq(private, 1, Uint32Bytes) = SubSeq(private, Uint32Bytes + 1, 2 * Uint32Bytes)
          /\ r.values[1] = SshType /\ r.values[2] = raw /\ Len(r.values[3]) = 2 * RawLen
          /\ SubSeq(r.values[3], RawLen + 1, 2 * RawLen) = raw
          /\ DerivedRaw(SubSeq(r.values[3], 1, RawLen)) = raw
          /\ ToSet(r.values[4]) \subseteq PrintableBytes
          /\ Len(r.rest) < Block /\ \A i \in DOMAIN r.rest : r.rest[i] = i}}

\* What follows the magic: the header of exactly one unencrypted key, its public blob
\* and its private section, and nothing more.
UnencryptedKey(data) ==
    UNION {
      UNION {
        UNION {PrivateSection(parts.values[2], raw) : raw \in SshPublicBlob(parts.values[1])} :
          parts \in {r \in ReadStrings(2, count.rest) : r.rest = <<>>}} :
      count \in UNION {{u \in ReadUint32(h.rest) : u.value = 1} :
                         h \in {r \in ReadStrings(3, data) :
                                  r.values = <<NoneBytes, NoneBytes, <<>>>>}}}

\* The seed of the key in a text.
ReadOpenSsh(text) ==
    UNION {UnencryptedKey(SubSeq(blob, Len(Magic) + 1, Len(blob))) :
             blob \in {b \in Unarmored(text) : IsPrefix(Magic, b)}}

-------------------------------------------------------------------------------
(* vectors/keys/generate.py                                                *)

\* What a writer puts in a file for a seed, its public key, a comment and a check
\* integer; padding left out is the padding the block needs.
Plainly(seed, raw, comment, check) ==
    [seed |-> seed, comment |-> comment, cipher |-> NoneBytes, kdf |-> NoneBytes,
     kdfoptions |-> <<>>, nkeys |-> 1, checks |-> <<check, check>>, ktype |-> SshType,
     public |-> raw, inner |-> raw, tail |-> raw, padding |-> {}, extra |-> <<>>,
     trailing |-> <<>>, magic |-> Magic]

FieldsFor(seed, comment, check) == Plainly(seed, DerivedRaw(seed), comment, check)

UnpaddedPrivate(f) ==
    Uint32(f.checks[1]) \o Uint32(f.checks[2]) \o String(f.ktype) \o String(f.inner)
      \o String(f.seed \o f.tail) \o String(f.comment) \o f.extra

PaddingOf(f) ==
    IF f.padding # {} THEN CHOOSE padding \in f.padding : TRUE
    ELSE [i \in 1..(-Len(UnpaddedPrivate(f))) % Block |-> i]

OpenSshKey(f) ==
    f.magic \o String(f.cipher) \o String(f.kdf) \o String(f.kdfoptions) \o Uint32(f.nkeys)
      \o String(String(f.ktype) \o String(f.public))
      \o String(UnpaddedPrivate(f) \o PaddingOf(f)) \o f.trailing

\* In lines of a width, with or without the final newline.
Armor(blob, width, final) ==
    LET body == B64Padded(blob, Std)
        lines == (Len(body) + width - 1) \div width
    IN  <<"BEGIN", "\n">>
          \o FlattenSeq([k \in 1..lines |->
               Append(SubSeq(body, (k - 1) * width + 1, IF k = lines THEN Len(body) ELSE k * width),
                      "\n")])
          \o (IF final THEN <<"END", "\n">> ELSE <<"END">>)
===============================================================================
