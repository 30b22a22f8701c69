------------------------------ MODULE ReadersMC ------------------------------
(***************************************************************************)
(* Inputs for Readers: what a writer writes, and that with one place       *)
(* changed.  The curve has 104 points, and every encoding of a key is      *)
(* asked about.                                                            *)
(***************************************************************************)
EXTENDS Readers

\* A text with one place changed, added or removed.
Edits(texts, chars) ==
    texts
      \cup UNION {{[text EXCEPT ![i] = c] : i \in DOMAIN text, c \in chars} : text \in texts}
      \cup UNION {{InsertAt(text, i, c) : i \in 1..Len(text) + 1, c \in chars} : text \in texts}
      \cup UNION {{RemoveAt(text, i) : i \in DOMAIN text} : text \in texts}

-------------------------------------------------------------------------------
(* Keys: a sound one, one with torsion, the neutral point, its second      *)
(* spelling, and a number that is no point.                                *)

EditedKeys == {PublicOf(32), MixedKey(32, 1), 1, p + 1, 2}

Characters == ToSet(Url) \cup {"+", "=", "1", "z", " ", "\n"}

MCAids ==
    {ToAid(RawOf(k)) : k \in Encodings}
      \cup Edits(UNION {{Qb64(code, RawOf(k)) : k \in EditedKeys} : code \in {"B", "D", "E"}}, Characters)

MCKeyidTexts == {B64(RawOf(k), Url) : k \in Encodings} \cup Edits({B64(RawOf(k), Url) : k \in EditedKeys}, Characters)

\* A rotated key, a key of small order, a key that no longer has one signer, and a digest.
MCTable ==
    {[keyid |-> Qb64("D", RawOf(PublicOf(32))), effective |-> {RawOf(PublicOf(40))}],
     [keyid |-> Qb64("D", RawOf(1)), effective |-> {RawOf(1)}],
     [keyid |-> Qb64("E", RawOf(2)), effective |-> {}],
     [keyid |-> Qb64("E", RawOf(PublicOf(32))), effective |-> {RawOf(PublicOf(32))}]}

MCConfigured ==
    PublicRefusals \cup {c.input : c \in PublicAccepts} \cup
    UNION {Spellings(RawOf(k), {<<"c">>}) : k \in Encodings}
      \cup UNION {{Qb64(code, RawOf(k)) : k \in EditedKeys} : code \in {"D", "E"}}
      \cup Edits(Spellings(RawOf(PublicOf(32)), {<<"c", " ", "c">>}), Characters)
      \cup Edits(Spellings(RawOf(1), {}), Characters)

-------------------------------------------------------------------------------
(* Private key files.                                                      *)

Plain == FieldsFor(<<9, 1>>, <<3, 4>>, 9)

\* Every field overridden, as the vectors override it, with another key where there is one.
Overridden(plain, other) ==
    {[plain EXCEPT !.cipher = <<6>>], [plain EXCEPT !.kdf = <<6>>], [plain EXCEPT !.kdfoptions = <<1>>],
     [plain EXCEPT !.checks[2] = 8], [plain EXCEPT !.ktype = <<9, 12, 8>>],
     [plain EXCEPT !.public = other], [plain EXCEPT !.inner = other], [plain EXCEPT !.tail = other],
     [plain EXCEPT !.seed = <<10, 2>>], [plain EXCEPT !.public = other, !.tail = other],
     [plain EXCEPT !.public = other, !.inner = other, !.tail = other],
     [plain EXCEPT !.extra = <<0, 1, 3>>], [plain EXCEPT !.trailing = <<0>>],
     [plain EXCEPT !.magic = <<10, 15>>], [plain EXCEPT !.public = Append(other, 0)]}
      \cup {[plain EXCEPT !.nkeys = n] : n \in {0, 2}}
      \cup {[plain EXCEPT !.padding = {padding}] :
              padding \in {<<>>, <<1>>, <<1, 2>>, <<2, 1>>, <<0, 0, 0>>, <<1, 2, 4>>,
                           <<1, 2, 3, 4>>, <<1, 2, 3, 4, 5, 6, 7>>}}

OtherKeys ==
    {FieldsFor(<<s, 1>>, comment, 77) : s \in {0, 5, 15}, comment \in {<<>>, <<2>>, <<2, 6, 3>>, <<7>>, <<1>>}}

\* A key with a byte changed, or cut short, and otherwise written.
Around(blob) ==
    {[blob EXCEPT ![i] = (@ + k) % 2^ByteBits] : i \in DOMAIN blob, k \in {1, 15}}
      \cup {SubSeq(blob, 1, n) : n \in 1..Len(blob)}

OtherwiseArmored(blob) ==
    {[text |-> Armor(blob, width, final), blob |-> blob] : width \in {4, 5, 13}, final \in BOOLEAN}
      \cup {[text |-> edit, blob |-> <<>>] :
              edit \in UNION {Edits({text}, {"A", "=", "\n", "END"}) \ {text} : text \in {Armor(blob, 60, TRUE)}}}

MCFiles ==
    {[text |-> text, blob |-> <<>>] : text \in PrivateRefusals \cup {c.input : c \in PrivateAccepts}}
      \cup {[text |-> Armor(blob, 70, TRUE), blob |-> blob] :
              blob \in {OpenSshKey(f) : f \in Overridden(Plain, DerivedRaw(<<10, 2>>)) \cup OtherKeys}
                         \cup Around(OpenSshKey(Plain))}
      \cup OtherwiseArmored(OpenSshKey(Plain))

-------------------------------------------------------------------------------
(* Signatures: by no key at all or by one of two, with and without torsion *)
(* in the key and in R.                                                    *)

MCSignatures ==
    {[inKey |-> n, inR |-> t] @@ MixedSign(a, n, 1, t, hash) :
       a \in {0, 32}, n \in 0..7, t \in {0, 1, 4, 6}, hash \in {0, 1, 8, q - 1}}
      \cup {[inKey |-> 0, inR |-> 0] @@ NonCanonicalR(40, hash) : hash \in {0, 5}}

-------------------------------------------------------------------------------
(* Headers.                                                                *)

Typed(type, spellings) == {[chars |-> chars, type |-> type] : chars \in spellings}

A == [chars |-> <<"a">>, type |-> "token"]

Bares ==
    Typed("token", {<<"a">>, <<"a", ":", "1", ":">>, <<"a", "/", "1", ".">>, <<"*", "-", "1", ".">>})
      \cup Typed("string", {<<Quote, ":", "a", ":", Quote>>,
                            <<Quote, Backslash, Quote, ":", "1", ".", Quote>>})
      \cup Typed("integer", {<<"1">>, <<"-", "1">>})
      \cup Typed("decimal", {<<"1", ".", "1">>, <<"1", ".">>, <<"-", "1", "1", ".">>})
      \cup Typed("bytes", {<<":", ":">>, <<":", "a", "1", "=", "=", ":">>, <<":", "a", "+", "/", "=", ":">>,
                           <<":", "a", ":">>, <<":", "a", "1", "=", ":">>,
                           <<":", "a", "1", "=", "=", "a", "1", "1", "1", ":">>})
      \cup Typed("date", {<<"@", "1">>})
      \cup Typed("display string", {<<"%", Quote, ":", "1", ".", Quote>>})

Item(bare, params) == [bare |-> bare, params |-> params]
Param(key, bare) == [key |-> key, bare |-> bare]
Single(key, item) == [key |-> key, items |-> <<item>>, inner |-> FALSE, params |-> <<>>]
List(key, items, params) == [key |-> key, items |-> items, inner |-> TRUE, params |-> params]
Numbered == <<"a", "1", ".">>
K == <<"a">>

MCFields ==
    {<<Single(Numbered, Item(b1, <<Param(K, b2)>>))>> : b1 \in Bares, b2 \in Bares}
      \cup {<<Single(K, Item(b1, <<>>)), Single(key, Item(b2, <<>>))>> :
              b1 \in Bares, b2 \in Bares, key \in {K, Numbered}}
      \cup {<<List(K, <<Item(b1, <<>>), Item(A, <<Param(K, b2)>>)>>, <<Param(Numbered, A)>>)>> :
              b1 \in Bares, b2 \in Bares}
      \cup {<<List(K, <<>>, <<Param(K, b1), Param(K, b2)>>)>> : b1 \in Bares, b2 \in Bares}
      \cup {[i \in 1..n |-> Single(keys[i], Item(A, <<>>))] :
              n \in 1..3, keys \in [1..3 -> {K, Numbered, <<"*">>}]}
      \cup {<<List(K, [i \in 1..n |-> Item(A, <<>>)], <<>>), Single(key, Item(A, <<>>))>> :
              n \in 0..9, key \in {K, Numbered}}
      \cup {<<List(K, <<Item(A, [i \in 1..n |-> Param(keys[i], A)])>>, [i \in 1..m |-> Param(keys[i], A)])>> :
              n \in 0..3, m \in 0..3, keys \in [1..3 -> {K, Numbered, <<"*">>}]}

-------------------------------------------------------------------------------
(* Targets.                                                                *)

MCAddresses == {<<":", ":">>, <<":", ":", "1">>, <<":", ":", "%", "a">>}
MCSchemes == [s \in {"http://", "HTTPS://", "x://"} |->
                CASE s = "http://" -> "http" [] s = "HTTPS://" -> "https" [] s = "x://" -> "x"]
MCDefaultPorts == [s \in {"http", "https"} |-> IF s = "http" THEN 80 ELSE 18]

InBrackets(text) == <<"[">> \o text \o <<"]">>
GoodLiterals == MCAddresses \cup {<<"v", "8", ".", "a">>, <<"v", "a", "1", ".", ":">>}
BadLiterals == {<<>>, <<"a">>, <<"V", "8", ".", "a">>, <<"v", ".", "a">>, <<"v", "8", ".">>}

MCHosts == {<<>>, <<"a">>, <<"A", ".", "a">>} \cup {InBrackets(text) : text \in GoodLiterals}
BadHosts ==
    {<<"kelvin">>, <<"[", ":", ":", "1">>, <<"]">>, <<"a">> \o InBrackets(<<":", ":">>),
     <<"a">> \o InBrackets(<<"v", "8", ".", "a">>),
     InBrackets(<<":", ":">>) \o <<"a">>, InBrackets(<<":", ":">>) \o InBrackets(<<"a">>)}
      \cup {InBrackets(text) : text \in BadLiterals}

Ports == {<<>>, <<"0">>, <<"8">>, <<"8", "0">>, <<"1", "8">>, <<"8", "1">>, <<"8", "8">>,
          <<"0", "0", "8", "0">>, <<"1", "0", "0">>, <<"a">>, <<"nbsp", "8">>, <<"[", "]">>}

Paths == {<<"/">>, <<"/", "/", "a">>, <<"/", "/", "a", "@", "8", "/">>, <<"/", "a", ":", "8">>}

Target(scheme, user, host, port, path, query, header) ==
    [scheme |-> scheme, user |-> user, host |-> host, port |-> port,
     path |-> path, query |-> query, header |-> header]

MCTargets ==
    {Target(<<scheme>>, <<>>, host, port, path, query, <<"8">>) :
       scheme \in DOMAIN MCSchemes, host \in MCHosts \cup BadHosts, port \in Ports,
       path \in {<<>>, <<"/", "/", "a">>}, query \in {<<>>, <<"?", "/">>}}
      \cup {Target(<<>>, <<>>, host, port, path, <<"a">>, <<>>) :
              host \in MCHosts \cup BadHosts, port \in Ports, path \in Paths}
      \cup {Target(<<>>, user, <<"a">>, <<"8">>, path, query, around) :
              user \in {<<>>, <<"a", "@">>}, path \in Paths,
              query \in {<<>>, <<"?">>, <<"#">>}, around \in {<<>>, <<" ">>, <<"\t", " ">>, <<"nbsp">>, <<",">>}}
      \cup {Target(<<"http://">>, user, host, <<"8">>, path, query, <<>>) :
              user \in {<<>>, <<"@">>, <<"a", "@">>, <<"[", "]", "@">>, <<"a", "@", "8", "@">>},
              host \in MCHosts \cup BadHosts, path \in Paths, query \in {<<>>, <<" ">>, <<"a", "#">>}}

MCLengths == UNION {[1..n -> {"0", "1", "8", "-", " ", "\t", "nbsp"}] : n \in 0..4}
===============================================================================
