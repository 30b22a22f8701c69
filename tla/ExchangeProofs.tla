---------------------------- MODULE ExchangeProofs ----------------------------
(***************************************************************************)
(* Proofs about Exchange, for any number of callers and of the clients'    *)
(* keys, any requests to one authority and any network: what the server    *)
(* does and what a caller takes, and that this is what RequestReply        *)
(* promises.                                                               *)
(*                                                                         *)
(* The argument is what a signature on its way says.  One by a key of the  *)
(* clients' is over what somebody has begun to ask, and one by the         *)
(* server's is over its answer to something it has done (Genuine): nobody  *)
(* on the way can make either, and the two ends sign nothing else.  A      *)
(* verifier that refuses nothing then holds the lines that were signed,    *)
(* and the digest among them the body.  That a caller takes only the       *)
(* answer to its own request needs the whole of what is bound: a response  *)
(* covers the method, path, query and digest of the request but not its    *)
(* authority, so the callers must all ask one.                             *)
(***************************************************************************)
EXTENDS Exchange, SequenceTheorems, TLAPS

Fields == {"response", "method", "url", "status", "headers", "body", "request"}

\* What a client signs of a request, and what a server signs of an answer and the
\* request it answers.
RequestLines(what) ==
    << <<Item("@method"), what.method>>, <<Item("@authority"), what.authority>>,
       <<Item("@path"), what.path>>, <<Item("@query"), what.query>>,
       <<Item(ContentDigest), DigestOf(The(what.body))>> >>

AnswerLines(what) ==
    << <<Item("@status"), Answer(what).status>>, <<Req("@method"), what.method>>,
       <<Req("@path"), what.path>>, <<Req("@query"), what.query>>,
       <<Item(ContentDigest), DigestOf(The(Answer(what).body))>>,
       <<Req(ContentDigest), DigestOf(The(what.body))>> >>

-------------------------------------------------------------------------------
(* Operators. *)

\* The member of a set of one.
LEMMA TheOne ==
  ASSUME NEW x
  PROVE  The({x}) = x
BY DEF The

\* What a caller asks for is what it describes, in the server's form.
LEMMA AskingIs ==
  ASSUME NEW c \in Callers
  PROVE  /\ Asking(c) = [method |-> Asked[c].method, path |-> Asked[c].url.path,
                         query |-> Asked[c].url.query, authority |-> Asked[c].url.authority,
                         body |-> Asked[c].body]
         /\ \E b : b # EmptyBody /\ Asked[c].body = {b}
<1> DEFINE r == Asked[c]
<1>1. Described(r)
  BY ExchangeAssumption
<1> DEFINE url == [r.url EXCEPT !.form = "origin", !.authority = "none"]
           headers == [r.headers EXCEPT !.host = {r.url.authority}]
<1>2. /\ url.form = "origin" /\ url.path = r.url.path /\ url.query = r.url.query
      /\ headers.host = {r.url.authority}
  BY <1>1 DEF Described, NoHeaders
<1>3. /\ OriginForm(r).method = r.method /\ OriginForm(r).body = r.body
      /\ OriginForm(r).url = url /\ OriginForm(r).headers = headers
  <2>0. r.response = FALSE /\ r.url.form = "absolute" /\ r.headers.host = {}
    BY <1>1 DEF Described, NoHeaders
  <2>1. OriginForm(r) = [r EXCEPT !.url = url, !.headers = headers]
    BY <2>0 DEF OriginForm
  <2> HIDE DEF url, headers
  <2>2. QED
    BY <1>1, <2>1 DEF Described
<1>4. Authority(OriginForm(r)) = r.url.authority
  BY <1>2, <1>3 DEF Authority, The
<1>5. QED
  BY <1>1, <1>2, <1>3, <1>4 DEF Asking, What, Described

\* The default list with one more component.
LEMMA FourAndOne ==
  ASSUME NEW a, NEW b, NEW c, NEW d, NEW e
  PROVE  <<a, b, c, d>> \o <<e>> \o << >> = <<a, b, c, d, e>>
<1> DEFINE S == {a, b, c, d, e}
           s == <<a, b, c, d>>
           t == <<e>>
<1>1. s \in Seq(S) /\ t \in Seq(S) /\ <<a, b, c, d, e>> \in Seq(S) /\ Len(s) = 4 /\ Len(t) = 1
  OBVIOUS
<1>2. s \o t = <<a, b, c, d, e>>
  <2>1. s \o t \in Seq(S) /\ Len(s \o t) = 5
    BY <1>1, ConcatProperties
  <2>2. (s \o t)[1] = a /\ (s \o t)[2] = b /\ (s \o t)[3] = c /\ (s \o t)[4] = d
    BY <1>1, ConcatProperties
  <2>3. (s \o t)[5] = e
    BY <1>1, ConcatProperties
  <2>4. \A i \in 1..5 : (s \o t)[i] = <<a, b, c, d, e>>[i]
    BY <2>2, <2>3
  <2>5. QED
    BY <1>1, <2>1, <2>4, SeqEqual
<1>3. <<a, b, c, d, e>> \o << >> = <<a, b, c, d, e>>
  OBVIOUS
<1>4. QED
  BY <1>2, <1>3

\* What a caller's signing call covers, and the message it signs.
LEMMA RequestSigned ==
  ASSUME NEW c \in Callers, NEW k, NEW id
  PROVE  /\ ItemsSigned(Draft(Asked[c], k, id)) =
              <<Item("@method"), Item("@authority"), Item("@path"), Item("@query"), Item(ContentDigest)>>
         /\ Sending(Draft(Asked[c], k, id)) =
              [Asked[c] EXCEPT !.headers.digest = {DigestOf(The(Asked[c].body))}]
<1> DEFINE r == Asked[c]
           d == Draft(r, k, id)
<1>1. Described(r)
  BY ExchangeAssumption
<1>2. d.m = r /\ d.covered = {}
  BY DEF Draft
<1>3. Named(d) = DefaultCovered
  BY <1>1, <1>2 DEF Named, DefaultItems, Described
<1>4. ~RequestHadBody(d.m) /\ d.m.body # {}
  BY <1>1, <1>2 DEF RequestHadBody, Described
<1>5. ItemsSigned(d) = DefaultCovered \o <<Item(ContentDigest)>> \o << >>
  BY <1>2, <1>3, <1>4 DEF ItemsSigned
<1>6. DefaultCovered \o <<Item(ContentDigest)>> \o << >> =
        <<Item("@method"), Item("@authority"), Item("@path"), Item("@query"), Item(ContentDigest)>>
  BY FourAndOne DEF DefaultCovered
<1>7. r.headers.digest = {}
  BY <1>1 DEF Described, NoHeaders
<1>8. QED
  BY <1>2, <1>4, <1>5, <1>6, <1>7 DEF Sending

\* And what the signature is over.
LEMMA RequestLinesSigned ==
  ASSUME NEW c \in Callers, NEW k, NEW id
  PROVE  LinesFor(ItemsSigned(Draft(Asked[c], k, id)), Sending(Draft(Asked[c], k, id)))
           = RequestLines(Asking(c))
<1> DEFINE r == Asked[c]
           n == Sending(Draft(r, k, id))
           items == <<Item("@method"), Item("@authority"), Item("@path"), Item("@query"), Item(ContentDigest)>>
<1>1. Described(r)
  BY ExchangeAssumption
<1>2. n = [r EXCEPT !.headers.digest = {DigestOf(The(r.body))}]
  BY RequestSigned
<1>3. /\ n.method = r.method /\ n.url = r.url
      /\ n.headers.digest = {DigestOf(The(r.body))}
  BY <1>1, <1>2 DEF Described, NoHeaders
<1>4. Authority(n) = r.url.authority
  BY <1>1, <1>3 DEF Authority, Described
<1>5. The(n.headers.digest) = DigestOf(The(r.body))
  BY <1>3 DEF The
<1> HIDE DEF n
<1>6. /\ ValueOf(Item("@method"), n) = r.method
      /\ ValueOf(Item("@authority"), n) = r.url.authority
      /\ ValueOf(Item("@path"), n) = r.url.path
      /\ ValueOf(Item("@query"), n) = r.url.query
      /\ ValueOf(Item(ContentDigest), n) = DigestOf(The(r.body))
  BY <1>3, <1>4, <1>5 DEF ValueOf, Subject, Item, ContentDigest, FieldOf
<1>7. LinesFor(items, n) = << <<items[1], ValueOf(items[1], n)>>, <<items[2], ValueOf(items[2], n)>>,
                              <<items[3], ValueOf(items[3], n)>>, <<items[4], ValueOf(items[4], n)>>,
                              <<items[5], ValueOf(items[5], n)>> >>
  BY DEF LinesFor
<1>8. LinesFor(items, n) = RequestLines(Asking(c))
  BY <1>6, <1>7, AskingIs DEF RequestLines
<1>9. QED
  BY <1>8, RequestSigned DEF n

\* The default list of an answer.
LEMMA FourAndTwo ==
  ASSUME NEW a, NEW b, NEW c, NEW d, NEW e, NEW f
  PROVE  <<a, b, c, d>> \o <<e>> \o <<f>> = <<a, b, c, d, e, f>>
<1> DEFINE S == {a, b, c, d, e, f}
           s == <<a, b, c, d, e>>
           t == <<f>>
           st == <<a, b, c, d, e, f>>
<1>1. s \in Seq(S) /\ t \in Seq(S) /\ st \in Seq(S) /\ Len(s) = 5 /\ Len(t) = 1 /\ Len(st) = 6
  OBVIOUS
<1>2. <<a, b, c, d>> \o <<e>> = s
  BY <1>1, FourAndOne, ConcatEmptySeq
<1>3. s \o t \in Seq(S) /\ Len(s \o t) = 6
  BY <1>1, ConcatProperties
<1>4. (s \o t)[1] = a /\ (s \o t)[2] = b /\ (s \o t)[3] = c /\ (s \o t)[4] = d /\ (s \o t)[5] = e
  BY <1>1, ConcatProperties
<1>5. (s \o t)[6] = f
  BY <1>1, ConcatProperties
<1>6. \A i \in 1..6 : (s \o t)[i] = st[i]
  BY <1>4, <1>5
<1>7. s \o t = st
  BY <1>1, <1>3, <1>6, SeqEqual
<1>8. QED
  BY <1>2, <1>7

\* What the server is to sign for an answer.
Reply(m) ==
    Draft(Response(Answer(What(m)).status, Answer(What(m)).body, {m}), ServerKey, RawKeyid(ServerKey))

\* What it signs when it answers a request with content and its digest.
LEMMA AnswerLinesSigned ==
  ASSUME NEW m, NEW b, m.body = {b}, b # EmptyBody, The(m.headers.digest) = DigestOf(b)
  PROVE  /\ LinesFor(ItemsSigned(Reply(m)), Sending(Reply(m))) = AnswerLines(What(m))
         /\ DOMAIN Sending(Reply(m)) = Fields
         /\ {"signature", "input"} \subseteq DOMAIN Sending(Reply(m)).headers
<1> DEFINE d == Reply(m)
           n == Sending(d)
           digest == DigestOf(The(Answer(What(m)).body))
           items == <<Item("@status"), Req("@method"), Req("@path"), Req("@query"), Item(ContentDigest), Req(ContentDigest)>>
<1>1. /\ d.m = Response(Answer(What(m)).status, Answer(What(m)).body, {m})
      /\ d.covered = {}
  BY DEF Draft, Reply
<1>2. d.m.request = {m} /\ d.m.response = TRUE /\ d.m.body = Answer(What(m)).body
      /\ d.m.headers.digest = {} /\ d.m.status = Answer(What(m)).status
  BY <1>1 DEF Response, NoHeaders
<1>3. d.m.body # {}
  BY <1>2 DEF Answer, What
<1>4. RequestHadBody(d.m)
  BY <1>2 DEF RequestHadBody, HasContent
<1>5. ItemsSigned(d) = items
  <2>1. Named(d) = <<Item("@status"), Req("@method"), Req("@path"), Req("@query")>>
    BY <1>1, <1>2 DEF Named, DefaultItems
  <2>2. ItemsSigned(d) = Named(d) \o <<Item(ContentDigest)>> \o <<Req(ContentDigest)>>
    BY <1>1, <1>2, <1>3, <1>4 DEF ItemsSigned
  <2>3. QED
    BY <2>1, <2>2, FourAndTwo
<1>6. n = [d.m EXCEPT !.headers.digest = {digest}]
  BY <1>2, <1>3 DEF Sending
<1>7. n.request = {m} /\ n.status = Answer(What(m)).status /\ n.headers.digest = {digest}
      /\ DOMAIN n = Fields /\ {"signature", "input"} \subseteq DOMAIN n.headers
  BY <1>1, <1>6 DEF Response, NoHeaders, Fields
<1>8. The(n.request) = m /\ The(n.headers.digest) = digest
  BY <1>7 DEF The
<1> HIDE DEF n
<1>9. /\ ValueOf(Item("@status"), n) = Answer(What(m)).status
      /\ ValueOf(Req("@method"), n) = m.method
      /\ ValueOf(Req("@path"), n) = m.url.path
      /\ ValueOf(Req("@query"), n) = m.url.query
      /\ ValueOf(Item(ContentDigest), n) = digest
      /\ ValueOf(Req(ContentDigest), n) = DigestOf(b)
  BY <1>7, <1>8 DEF ValueOf, Subject, Item, Req, AsciiLower, ContentDigest, FieldOf
<1>10. LinesFor(items, n) = << <<items[1], ValueOf(items[1], n)>>, <<items[2], ValueOf(items[2], n)>>,
                               <<items[3], ValueOf(items[3], n)>>, <<items[4], ValueOf(items[4], n)>>,
                               <<items[5], ValueOf(items[5], n)>>, <<items[6], ValueOf(items[6], n)>> >>
  BY DEF LinesFor
<1>11. /\ What(m).method = m.method /\ What(m).path = m.url.path /\ What(m).query = m.url.query
       /\ The(What(m).body) = b
  BY DEF What, The
<1>12. LinesFor(items, n) = AnswerLines(What(m))
  BY <1>9, <1>10, <1>11 DEF AnswerLines
<1>13. QED
  BY <1>5, <1>7, <1>12 DEF n

\* What a signed message carries, and what signing leaves of it.
LEMMA SignedCarries ==
  ASSUME NEW d, NEW now, DOMAIN Sending(d) = Fields,
         {"signature", "input"} \subseteq DOMAIN Sending(d).headers
  PROVE  /\ Carried(SignedMessage(d, now)) =
              {Sign(d.key, Base(ItemsSigned(d), Sending(d), ParamsSigned(d, now)))}
         /\ DOMAIN SignedMessage(d, now) = Fields
         /\ \A f \in Fields \ {"headers"} : SignedMessage(d, now)[f] = Sending(d)[f]
         /\ \A h \in DOMAIN Sending(d).headers \ {"signature", "input"} :
              SignedMessage(d, now).headers[h] = Sending(d).headers[h]
<1> DEFINE n == Sending(d)
           value == Sign(d.key, Base(ItemsSigned(d), n, ParamsSigned(d, now)))
           signature == [shape |-> "dict",
                         members |-> <<[label |-> "sig", bytes |-> TRUE, full |-> TRUE, value |-> value]>>]
           input == [shape |-> "dict",
                     members |-> <<[label |-> "sig", list |-> TRUE, items |-> ItemsSigned(d),
                                    params |-> ParamsSigned(d, now)]>>]
           headers == [n.headers EXCEPT !.signature = {signature}, !.input = {input}]
           m == SignedMessage(d, now)
<1>1. m = [n EXCEPT !.headers = headers]
  BY DEF SignedMessage, WithSignature
<1>2. signature.shape = "dict" /\ signature.members[1].value = value
  OBVIOUS
<1> HIDE DEF value, signature, input
<1>3. /\ headers.signature = {signature}
      /\ \A h \in DOMAIN n.headers \ {"signature", "input"} : headers[h] = n.headers[h]
  OBVIOUS
<1> HIDE DEF m, n, headers
<1>4. /\ DOMAIN m = Fields /\ m.headers = headers
      /\ \A f \in Fields \ {"headers"} : m[f] = n[f]
  BY <1>1 DEF n, Fields
<1>5. Carried(m) = {value}
  BY <1>2, <1>3, <1>4 DEF Carried, Signature, Missing, The
<1>6. QED
  BY <1>3, <1>4, <1>5 DEF m, n, value

-------------------------------------------------------------------------------
(* What verification shows.                                                *)

\* A call that refuses nothing has verified a signature over the message as it came, by
\* the key the call works out, and compared what the digests say.
LEMMA NothingRefused ==
  ASSUME NEW m, NEW p, NEW known, NEW now, Refusal(m, p, known, now) = None
  PROVE  /\ ReadRefusal(m, p) = None /\ KeyStageRefusal(m, p, known) = None
         /\ Signature(m) = Sign(KeyFor(ParamsOf(m).keyid, p, known),
                               Base(ItemsOf(m), m, ParamsOf(m)))
         /\ ~TooOld(ParamsOf(m), p, now) /\ DigestRefusal(m) = None
<1>1. /\ ReadRefusal(m, p) = None /\ KeyStageRefusal(m, p, known) = None
      /\ SignatureRefusal(m, KeyFor(ParamsOf(m).keyid, p, known)) = None
      /\ FreshnessRefusal(ParamsOf(m), p, now) = None /\ DigestRefusal(m) = None
  BY DEF Refusal, ??
<1>2. SignatureVerifies(KeyFor(ParamsOf(m).keyid, p, known), Signature(m),
                        Base(ItemsOf(m), m, ParamsOf(m)))
  BY <1>1 DEF SignatureRefusal, ??, None
<1>3. ~TooOld(ParamsOf(m), p, now)
  BY <1>1 DEF FreshnessRefusal, None
<1>4. QED
  BY <1>1, <1>2, <1>3 DEF SignatureVerifies

\* The signature that was verified is one the message carries.
LEMMA VerifiedIsCarried ==
  ASSUME NEW m, NEW p, ReadRefusal(m, p) = None
  PROVE  Signature(m) \in Carried(m)
BY DEF ReadRefusal, Carried, None

\* Equal lines are of the same components with the same values.
LEMMA SameLines ==
  ASSUME NEW items, NEW m, NEW lines, LinesFor(items, m) = lines
  PROVE  \A i \in DOMAIN lines :
           i \in DOMAIN items /\ lines[i] = <<items[i], ValueOf(items[i], m)>>
BY DEF LinesFor

\* A message whose lines are those a client signs is the request it asks for, up to the
\* body, which is that of a digest the list covers.
LEMMA RequestBound ==
  ASSUME NEW items, NEW m, NEW what, LinesFor(items, m) = RequestLines(what)
  PROVE  /\ m.method = what.method /\ Authority(m) = what.authority
         /\ m.url.path = what.path /\ m.url.query = what.query
         /\ The(m.headers.digest) = DigestOf(The(what.body))
         /\ CoversBody(items)
<1> DEFINE lines == RequestLines(what)
<1>1. /\ 1 \in DOMAIN items /\ 2 \in DOMAIN items /\ 3 \in DOMAIN items /\ 4 \in DOMAIN items
      /\ 5 \in DOMAIN items
      /\ \A i \in 1..5 : lines[i] = <<items[i], ValueOf(items[i], m)>>
  BY SameLines DEF RequestLines
<1>2. /\ items[1] = Item("@method") /\ ValueOf(items[1], m) = what.method
      /\ items[2] = Item("@authority") /\ ValueOf(items[2], m) = what.authority
      /\ items[3] = Item("@path") /\ ValueOf(items[3], m) = what.path
      /\ items[4] = Item("@query") /\ ValueOf(items[4], m) = what.query
      /\ items[5] = Item(ContentDigest) /\ ValueOf(items[5], m) = DigestOf(The(what.body))
  BY <1>1 DEF RequestLines
<1>3. /\ ValueOf(items[1], m) = m.method /\ ValueOf(items[2], m) = Authority(m)
      /\ ValueOf(items[3], m) = m.url.path /\ ValueOf(items[4], m) = m.url.query
      /\ ValueOf(items[5], m) = The(m.headers.digest)
  BY <1>2 DEF ValueOf, Subject, Item, ContentDigest, FieldOf
<1>4. CoversBody(items)
  BY <1>1, <1>2 DEF CoversBody, ElementsOf
<1>5. QED
  BY <1>2, <1>3, <1>4

\* And one whose lines are those the server signs is the answer to the request beside it.
LEMMA AnswerBound ==
  ASSUME NEW items, NEW m, NEW r, m.request = {r}, NEW what, LinesFor(items, m) = AnswerLines(what)
  PROVE  /\ m.status = Answer(what).status
         /\ r.method = what.method /\ r.url.path = what.path /\ r.url.query = what.query
         /\ The(m.headers.digest) = DigestOf(The(Answer(what).body))
         /\ The(r.headers.digest) = DigestOf(The(what.body))
         /\ CoversBody(items)
<1> DEFINE lines == AnswerLines(what)
<1>0. The(m.request) = r
  BY DEF The
<1>1. \A i \in 1..6 : i \in DOMAIN items /\ lines[i] = <<items[i], ValueOf(items[i], m)>>
  BY SameLines DEF AnswerLines
<1>2. /\ items[1] = Item("@status") /\ ValueOf(items[1], m) = Answer(what).status
      /\ items[2] = Req("@method") /\ ValueOf(items[2], m) = what.method
      /\ items[3] = Req("@path") /\ ValueOf(items[3], m) = what.path
      /\ items[4] = Req("@query") /\ ValueOf(items[4], m) = what.query
      /\ items[5] = Item(ContentDigest)
      /\ ValueOf(items[5], m) = DigestOf(The(Answer(what).body))
      /\ items[6] = Req(ContentDigest) /\ ValueOf(items[6], m) = DigestOf(The(what.body))
  BY <1>1 DEF AnswerLines
<1>3. /\ ValueOf(items[1], m) = m.status /\ ValueOf(items[2], m) = r.method
      /\ ValueOf(items[3], m) = r.url.path /\ ValueOf(items[4], m) = r.url.query
      /\ ValueOf(items[5], m) = The(m.headers.digest)
      /\ ValueOf(items[6], m) = The(r.headers.digest)
  BY <1>0, <1>2 DEF ValueOf, Subject, Item, Req, AsciiLower, ContentDigest, FieldOf
<1>4. CoversBody(items)
  BY <1>1, <1>2 DEF CoversBody, ElementsOf
<1>5. QED
  BY <1>2, <1>3, <1>4

\* A digest that was compared is of the body the message has.
LEMMA DigestBinds ==
  ASSUME NEW m, NEW b, DigestRefusal(m) = None, CoversBody(ItemsOf(m)),
         The(m.headers.digest) = DigestOf(b)
  PROVE  m.body = {b}
<1>0. <<The(m.headers.digest), m.body>> \in DigestsCovered(m)
  BY DEF DigestsCovered
<1>1. CompareDigestRefusal(DigestOf(b), m.body) = None
  <2>1. \A x \in DigestsCovered(m) : CompareDigestRefusal(x[1], x[2]) = None
    BY Zenon DEF DigestRefusal, None
  <2>2. QED
    BY <1>0, <2>1
<1>2. \A x \in Recognized(DigestOf(b)) : {x.of} = m.body
  BY <1>1 DEF CompareDigestRefusal, None
<1>3. [alg |-> "sha-256", bytes |-> TRUE, of |-> b] \in Recognized(DigestOf(b))
  BY DEF Recognized, DigestOf, DigestAlgorithms
<1>4. QED
  BY <1>2, <1>3

\* Digests are equal only of equal bodies.
LEMMA DigestsDiffer ==
  ASSUME NEW a, NEW b, DigestOf(a) = DigestOf(b)
  PROVE  a = b
<1>1. DigestOf(a).members = {[alg |-> "sha-256", bytes |-> TRUE, of |-> a]}
  BY DEF DigestOf
<1>2. DigestOf(b).members = {[alg |-> "sha-256", bytes |-> TRUE, of |-> b]}
  BY DEF DigestOf
<1> DEFINE x == [alg |-> "sha-256", bytes |-> TRUE, of |-> a]
           y == [alg |-> "sha-256", bytes |-> TRUE, of |-> b]
<1>3. x = y
  BY <1>1, <1>2
<1>4. x.of = a /\ y.of = b
  OBVIOUS
<1>5. QED
  BY <1>3, <1>4

-------------------------------------------------------------------------------
(* The invariant.                                                          *)

\* A signature by a key of the clients' is of a request somebody has begun to ask, and
\* one by the server's of its answer to something it has done, made when it was done.
Genuine(v) ==
    /\ v.by \in Signers => \E c \in Callers : Begun(c) /\ v.over.lines = RequestLines(Asking(c))
    /\ v.by = ServerKey =>
         \E s \in served : v.over.lines = AnswerLines(s.what) /\ v.over.params.created = {s.at}

Counters ==
    /\ waiting = [c \in Callers |-> waiting[c]] /\ answer = [c \in Callers |-> answer[c]]
    /\ clock \in 0..MaxClock /\ faults \in 0..MaxFaults
    /\ key \in 1..Len(ClientKeys) /\ resolved \in 1..key

OnItsWay(e) ==
    /\ e = [via |-> e.via, msg |-> e.msg] /\ e.via \in Callers /\ DOMAIN e.msg = Fields
    /\ \A v \in Carried(e.msg) : Genuine(v)

NetworkIsGenuine == \A e \in network : OnItsWay(e)

\* What a caller waits on is what it was asked to send, with its digest.
Waits(c, r) ==
    /\ r.method = Asked[c].method /\ r.url = Asked[c].url
    /\ r.headers.digest = {DigestOf(The(Asked[c].body))}

WaitingIsAsked == \A c \in Callers : waiting[c] # {} => \E r : waiting[c] = {r} /\ Waits(c, r)

\* What TypeOK says of the callers.
CallersAreTyped ==
    /\ \A c \in Callers : answer[c] # {} => Begun(c)
    /\ \A c \in Callers : \A m \in waiting[c] : ReadRefusal(m, ServerPolicy) = None

ServedAtATime == \A s \in served : s.at \in Int

Inv ==
    /\ Counters /\ CallersAreTyped /\ NetworkIsGenuine /\ WaitingIsAsked /\ ServedAtATime
    /\ ServedWasAsked /\ ServedUnderCurrentKey /\ AnswerIsMine

\* The server takes only what a caller has begun to ask, signed with the key that its
\* resolver knows.
LEMMA ServerTakes ==
  ASSUME Inv, NEW m, \A v \in Carried(m) : Genuine(v), NEW now,
         Refusal(m, ServerPolicy, {ClientKeys[resolved]}, now) = None
  PROVE  /\ Signature(m).by = ClientKeys[resolved]
         /\ \E c \in Callers : Begun(c) /\ What(m) = Asking(c)
         /\ \E b : m.body = {b} /\ b # EmptyBody /\ The(m.headers.digest) = DigestOf(b)
<1> DEFINE params == ParamsOf(m)
           signer == ClientKeys[resolved]
<1>1. /\ ReadRefusal(m, ServerPolicy) = None /\ DigestRefusal(m) = None
      /\ Signature(m) = Sign(KeyFor(params.keyid, ServerPolicy, {signer}), Base(ItemsOf(m), m, params))
  BY NothingRefused
<1>2. KeyFor(params.keyid, ServerPolicy, {signer}) = signer
  BY ExchangeAssumption DEF KeyFor, The
<1>3. Signature(m).by = signer /\ Signature(m).over.lines = LinesFor(ItemsOf(m), m)
  BY <1>1, <1>2 DEF Sign, Base
<1>4. signer \in Signers
  BY ExchangeAssumption DEF Inv, Counters, Signers
<1>5. PICK c \in Callers : Begun(c) /\ LinesFor(ItemsOf(m), m) = RequestLines(Asking(c))
  BY <1>1, <1>3, <1>4, VerifiedIsCarried DEF Genuine
<1>6. /\ m.method = Asking(c).method /\ Authority(m) = Asking(c).authority
      /\ m.url.path = Asking(c).path /\ m.url.query = Asking(c).query
      /\ The(m.headers.digest) = DigestOf(The(Asking(c).body)) /\ CoversBody(ItemsOf(m))
  BY <1>5, RequestBound
<1>7. PICK b : b # EmptyBody /\ Asked[c].body = {b}
  BY AskingIs
<1>8. Asking(c).body = {b} /\ The(Asking(c).body) = b
  BY <1>7, AskingIs DEF The
<1>9. m.body = {b}
  BY <1>1, <1>6, <1>8, DigestBinds
<1>10. What(m) = Asking(c)
  BY <1>6, <1>8, <1>9, AskingIs DEF What
<1>11. QED
  BY <1>3, <1>5, <1>6, <1>7, <1>8, <1>9, <1>10

\* A caller takes only an answer the server made to what this caller asked.
LEMMA CallerTakes ==
  ASSUME Inv, NEW c \in Callers, NEW m, DOMAIN m = Fields,
         \A v \in Carried(m) : Genuine(v), Taken(c, m)
  PROVE  \E s \in served :
           /\ s.what = Asking(c)
           /\ [status |-> m.status, body |-> m.body] = Answer(Asking(c))
           /\ \A age \in ClientPolicy.maxAge : clock <= s.at + age + ClientPolicy.skew
<1> DEFINE n == [m EXCEPT !.request = waiting[c]]
           params == ParamsOf(n)
<1>1. PICK r : waiting[c] = {r} /\ Waits(c, r)
  BY DEF Taken, Inv, WaitingIsAsked
<1>2. n.request = {r} /\ n.headers = m.headers /\ n.status = m.status /\ n.body = m.body
  BY <1>1 DEF Fields
<1>3. Refusal(n, ClientPolicy, {}, clock) = None
  BY DEF Taken
<1> HIDE DEF n
<1>4. /\ ReadRefusal(n, ClientPolicy) = None /\ DigestRefusal(n) = None
      /\ KeyStageRefusal(n, ClientPolicy, {}) = None /\ ~TooOld(params, ClientPolicy, clock)
      /\ Signature(n) = Sign(KeyFor(params.keyid, ClientPolicy, {}), Base(ItemsOf(n), n, params))
  BY <1>3, NothingRefused
<1>5. params.keyid = {RawKeyid(ServerKey)}
  <2>1. UnexpectedKeyidRefusal(params.keyid, ClientPolicy) = None
    BY <1>4 DEF KeyStageRefusal, ??
  <2>2. QED
    BY <2>1, ExchangeAssumption DEF UnexpectedKeyidRefusal, None
<1>6. KeyFor(params.keyid, ClientPolicy, {}) = ServerKey
  <2>1. KeyFor(params.keyid, ClientPolicy, {}) = The(params.keyid).id
    BY ExchangeAssumption DEF KeyFor
  <2>2. The(params.keyid) = RawKeyid(ServerKey)
    BY <1>5, TheOne
  <2>3. QED
    BY <2>1, <2>2 DEF RawKeyid
<1>7. /\ Signature(n).by = ServerKey /\ Signature(n).over.lines = LinesFor(ItemsOf(n), n)
      /\ Signature(n).over.params = params
  BY <1>4, <1>6 DEF Sign, Base
<1>8. Signature(n) \in Carried(m)
  BY <1>2, <1>4, VerifiedIsCarried DEF Carried, Signature
<1>9. PICK s \in served : /\ LinesFor(ItemsOf(n), n) = AnswerLines(s.what)
                          /\ params.created = {s.at}
  BY <1>7, <1>8 DEF Genuine
<1>10. PICK other \in Callers : s.what = Asking(other)
  BY DEF Inv, ServedWasAsked
<1>11. /\ n.status = Answer(s.what).status
       /\ r.method = s.what.method /\ r.url.path = s.what.path /\ r.url.query = s.what.query
       /\ The(n.headers.digest) = DigestOf(The(Answer(s.what).body))
       /\ The(r.headers.digest) = DigestOf(The(s.what.body)) /\ CoversBody(ItemsOf(n))
  BY <1>2, <1>9, AnswerBound
<1>12. PICK a, b : Asked[c].body = {a} /\ Asked[other].body = {b}
  BY AskingIs
<1>13. a = b
  <2>1. The(r.headers.digest) = DigestOf(a)
    BY <1>1, <1>12 DEF Waits, The
  <2>2. The(s.what.body) = b
    BY <1>10, <1>12, AskingIs DEF The
  <2>3. QED
    BY <1>11, <2>1, <2>2, DigestsDiffer
<1>14. s.what = Asking(c)
  <2>1. Asked[c].url.authority = Asked[other].url.authority
    BY ExchangeAssumption
  <2>2. /\ Asked[c].method = Asked[other].method /\ Asked[c].url.path = Asked[other].url.path
        /\ Asked[c].url.query = Asked[other].url.query
    BY <1>1, <1>10, <1>11, AskingIs DEF Waits
  <2>3. Asked[c].body = Asked[other].body
    BY <1>12, <1>13
  <2>4. Asking(c) = Asking(other)
    <3>1. Asking(c) = [method |-> Asked[c].method, path |-> Asked[c].url.path,
                       query |-> Asked[c].url.query, authority |-> Asked[c].url.authority,
                       body |-> Asked[c].body]
      BY AskingIs
    <3>2. Asking(other) = [method |-> Asked[other].method, path |-> Asked[other].url.path,
                           query |-> Asked[other].url.query,
                           authority |-> Asked[other].url.authority, body |-> Asked[other].body]
      BY AskingIs
    <3>3. QED
      BY <2>1, <2>2, <2>3, <3>1, <3>2, Zenon
  <2>5. QED
    BY <1>10, <2>4
<1>15. Answer(s.what).status = 200 /\ Answer(s.what).body = {Application[a]}
       /\ Answer(s.what) = [status |-> 200, body |-> {Application[a]}]
  BY <1>12, <1>14, AskingIs DEF Answer
<1>16. n.body = {Application[a]}
  <2>1. The(n.headers.digest) = DigestOf(Application[a])
    BY <1>11, <1>15 DEF The
  <2>2. QED
    BY <1>4, <1>11, <2>1, DigestBinds
<1>17. [status |-> m.status, body |-> m.body] = Answer(Asking(c))
  BY <1>2, <1>11, <1>14, <1>15, <1>16
<1>18. \A age \in ClientPolicy.maxAge : clock <= s.at + age + ClientPolicy.skew
  <2>1. s.at \in Int /\ clock \in Int /\ ClientPolicy.skew \in Int /\ ClientPolicy.maxAge \subseteq Int
    BY ExchangeAssumption DEF Inv, ServedAtATime, Counters
  <2>2. \A age \in ClientPolicy.maxAge : ~(clock - s.at > age + ClientPolicy.skew)
    BY <1>4, <1>9 DEF TooOld
  <2>3. QED
    BY <2>1, <2>2
<1>19. QED
  BY <1>14, <1>17, <1>18

-------------------------------------------------------------------------------
(* What is sent.                                                           *)

\* A request on its way carries one signature, by the key the caller signed with, over what
\* it asks for.
LEMMA RequestSent ==
  ASSUME NEW c \in Callers, NEW k, NEW id, NEW now,
         NEW m, m = SignedMessage(Draft(Asked[c], k, id), now)
  PROVE  /\ Waits(c, m) /\ DOMAIN OriginForm(m) = Fields
         /\ \E v : /\ Carried(OriginForm(m)) = {v}
                   /\ v.by = k /\ v.over.lines = RequestLines(Asking(c))
<1> DEFINE d == Draft(Asked[c], k, id)
           n == Sending(d)
           v == Sign(d.key, Base(ItemsSigned(d), n, ParamsSigned(d, now)))
<1>1. Described(Asked[c])
  BY ExchangeAssumption
<1>2. n = [Asked[c] EXCEPT !.headers.digest = {DigestOf(The(Asked[c].body))}]
  BY RequestSigned
<1>3. /\ DOMAIN n = Fields /\ {"signature", "input", "digest", "host"} \subseteq DOMAIN n.headers
      /\ n.method = Asked[c].method /\ n.url = Asked[c].url /\ n.response = FALSE
      /\ n.headers.digest = {DigestOf(The(Asked[c].body))}
  <2> DEFINE headers == [Asked[c].headers EXCEPT !.digest = {DigestOf(The(Asked[c].body))}]
  <2>1. /\ DOMAIN Asked[c] = Fields /\ Asked[c].headers = NoHeaders /\ Asked[c].response = FALSE
    BY <1>1 DEF Described, Fields
  <2>2. /\ {"signature", "input", "digest", "host"} \subseteq DOMAIN headers
        /\ headers.digest = {DigestOf(The(Asked[c].body))}
    BY <2>1 DEF NoHeaders
  <2>3. n = [Asked[c] EXCEPT !.headers = headers]
    BY <1>2
  <2> HIDE DEF headers, n
  <2>4. QED
    BY <2>1, <2>2, <2>3 DEF Fields
<1>4. LinesFor(ItemsSigned(d), n) = RequestLines(Asking(c))
  BY RequestLinesSigned
<1>5. v.by = k /\ v.over.lines = RequestLines(Asking(c))
  <2>1. d.key = k
    BY DEF Draft
  <2>2. QED
    BY <1>4, <2>1 DEF Sign, Base
<1> HIDE DEF d, n
<1>6. /\ Carried(m) = {v} /\ DOMAIN m = Fields
      /\ \A f \in Fields \ {"headers"} : m[f] = n[f]
      /\ \A h \in DOMAIN n.headers \ {"signature", "input"} : m.headers[h] = n.headers[h]
  BY <1>3, SignedCarries DEF d, n
<1> HIDE DEF v
<1>7. /\ m.method = Asked[c].method /\ m.url = Asked[c].url /\ m.response = FALSE
      /\ m.headers.digest = {DigestOf(The(Asked[c].body))}
  BY <1>3, <1>6 DEF Fields
<1>8. DOMAIN OriginForm(m) = Fields /\ OriginForm(m).headers.signature = m.headers.signature
  <2> DEFINE url == [m.url EXCEPT !.form = "origin", !.authority = "none"]
             headers == [m.headers EXCEPT !.host =
                           IF m.headers.host = {} THEN {m.url.authority} ELSE m.headers.host]
  <2>1. m.url.form = "absolute"
    BY <1>1, <1>7 DEF Described
  <2>2. OriginForm(m) = [m EXCEPT !.url = url, !.headers = headers]
    BY <1>7, <2>1 DEF OriginForm
  <2>3. headers.signature = m.headers.signature
    OBVIOUS
  <2> HIDE DEF url, headers
  <2>4. QED
    BY <1>6, <2>2, <2>3 DEF Fields
<1>9. Carried(OriginForm(m)) = {v}
  BY <1>6, <1>8 DEF Carried, Signature
<1>10. QED
  BY <1>5, <1>7, <1>8, <1>9 DEF Waits

\* What is signed has a signature and a list that a verifier reads.
LEMMA SentReads ==
  ASSUME NEW c \in Callers, NEW k, NEW id, NEW now, NEW p
  PROVE  ReadRefusal(SignedMessage(Draft(Asked[c], k, id), now), p) = None
<1> DEFINE d == Draft(Asked[c], k, id)
           n == Sending(d)
           m == SignedMessage(d, now)
           signed == [label |-> "sig", bytes |-> TRUE, full |-> TRUE,
                      value |-> Sign(d.key, Base(ItemsSigned(d), n, ParamsSigned(d, now)))]
           listed == [label |-> "sig", list |-> TRUE, items |-> ItemsSigned(d),
                      params |-> ParamsSigned(d, now)]
           signature == [shape |-> "dict", members |-> <<signed>>]
           input == [shape |-> "dict", members |-> <<listed>>]
           headers == [n.headers EXCEPT !.signature = {signature}, !.input = {input}]
<1>1. m = [n EXCEPT !.headers = headers]
  BY DEF SignedMessage, WithSignature
<1>2. "headers" \in DOMAIN n /\ {"signature", "input"} \subseteq DOMAIN n.headers
  <2>1. Described(Asked[c])
    BY ExchangeAssumption
  <2>2. n = [Asked[c] EXCEPT !.headers.digest = {DigestOf(The(Asked[c].body))}]
    BY RequestSigned
  <2>3. QED
    BY <2>1, <2>2 DEF Described, NoHeaders
<1>3. listed.list /\ listed.label = "sig" /\ listed.items = ItemsSigned(d)
      /\ listed.params = ParamsSigned(d, now)
  OBVIOUS
<1>4. signed.bytes /\ signed.full /\ signed.label = "sig"
  OBVIOUS
<1> HIDE DEF signed, listed
<1>5. /\ signature.shape = "dict" /\ DOMAIN signature.members = {1} /\ Len(signature.members) = 1
      /\ signature.members[1] = signed
      /\ input.shape = "dict" /\ DOMAIN input.members = {1} /\ Len(input.members) = 1
      /\ input.members[1] = listed
  OBVIOUS
<1> HIDE DEF signature, input
<1>6. headers.signature = {signature} /\ headers.input = {input}
  BY <1>2
<1> HIDE DEF headers, n, m
<1>7. The(m.headers.signature) = signature /\ The(m.headers.input) = input
      /\ ~Missing(m.headers.signature) /\ ~Missing(m.headers.input)
  BY <1>1, <1>2, <1>5, <1>6, TheOne DEF Missing
<1>8. SignatureParses(signature)
  BY <1>4, <1>5 DEF SignatureParses
<1>9. InputMemberRefusal(listed, p) = None
  <2>1. \A i \in DOMAIN listed.items : ~BadlyNamed(listed.items[i])
    <3>1. listed.items = <<Item("@method"), Item("@authority"), Item("@path"), Item("@query"),
                           Item(ContentDigest)>>
      BY <1>3, RequestSigned
    <3>2. QED
      BY <3>1 DEF BadlyNamed, Item, AsciiLower, ContentDigest
  <2>2. listed.params.keyid # {} /\ listed.params.created # {} /\ ~listed.params.bad
    BY <1>3 DEF ParamsSigned
  <2>3. QED
    BY <1>3, <2>1, <2>2 DEF InputMemberRefusal
<1>10. InputsRefusal(input, p) = None
  <2>1. \A i \in DOMAIN input.members : InputMemberRefusal(input.members[i], p) = None
    BY <1>5, <1>9
  <2>2. QED
    BY <1>5, <2>1 DEF InputsRefusal, FirstRefusal
<1>11. PairRefusal(signature, input) = None
  BY <1>3, <1>4, <1>5 DEF PairRefusal
<1>12. QED
  BY <1>7, <1>8, <1>10, <1>11 DEF ReadRefusal, ??, m

\* What is sent of a signed answer.
Sent(m, now) == [SignedMessage(Reply(m), now) EXCEPT !.request = {}]

\* And an answer carries one by the server's key, over its answer to what it took, made now.
LEMMA AnswerSent ==
  ASSUME NEW m, NEW b, m.body = {b}, b # EmptyBody, The(m.headers.digest) = DigestOf(b),
         NEW now
  PROVE  /\ DOMAIN Sent(m, now) = Fields
         /\ \E v : /\ Carried(Sent(m, now)) = {v}
                   /\ v.by = ServerKey /\ v.over.lines = AnswerLines(What(m))
                   /\ v.over.params.created = {now}
<1> DEFINE d == Reply(m)
           n == Sending(d)
           sent == Sent(m, now)
           reply == SignedMessage(d, now)
           v == Sign(d.key, Base(ItemsSigned(d), n, ParamsSigned(d, now)))
<1>1. d.key = ServerKey /\ d.created = {}
  BY DEF Reply, Draft
<1>2. /\ LinesFor(ItemsSigned(d), n) = AnswerLines(What(m))
      /\ DOMAIN n = Fields /\ {"signature", "input"} \subseteq DOMAIN n.headers
  BY AnswerLinesSigned
<1>3. ParamsSigned(d, now).created = {now}
  BY <1>1 DEF ParamsSigned
<1>4. v.by = ServerKey /\ v.over.lines = AnswerLines(What(m)) /\ v.over.params.created = {now}
  BY <1>1, <1>2, <1>3 DEF Sign, Base
<1>5. Carried(reply) = {v} /\ DOMAIN reply = Fields
  BY <1>2, SignedCarries
<1> HIDE DEF d, n, reply, v, sent
<1>6. DOMAIN sent = Fields /\ sent.headers = reply.headers
  BY <1>5 DEF Fields, d, reply, sent, Sent
<1>7. Carried(sent) = {v}
  BY <1>5, <1>6 DEF Carried, Signature
<1>8. QED
  BY <1>4, <1>6, <1>7 DEF sent

\* A refusal carries none.
LEMMA RefusalSent == DOMAIN Response(401, {}, {}) = Fields /\ Carried(Response(401, {}, {})) = {}
BY DEF Response, NoHeaders, Fields, Carried, Missing

-------------------------------------------------------------------------------
(* Every step keeps the invariant.                                         *)

\* What is genuine stays so: nothing begun or done is undone.
LEMMA GenuineStays ==
  ASSUME served \subseteq served', \A c \in Callers : Begun(c) => Begun(c)', NEW v, Genuine(v)
  PROVE  Genuine(v)'
BY DEF Genuine

\* What was answered was, however much more is done.
LEMMA AnswersStay ==
  ASSUME AnswerIsMine, answer' = answer, served \subseteq served'
  PROVE  AnswerIsMine'
<1> SUFFICES ASSUME NEW c \in Callers, NEW a \in answer[c]
             PROVE  \E s \in served' :
                      /\ s.what = Asking(c)
                      /\ [status |-> a.status, body |-> a.body] = Answer(Asking(c))
                      /\ \A age \in ClientPolicy.maxAge : a.at <= s.at + age + ClientPolicy.skew
  BY Zenon DEF AnswerIsMine
<1>1. PICK s \in served :
        /\ s.what = Asking(c)
        /\ [status |-> a.status, body |-> a.body] = Answer(Asking(c))
        /\ \A age \in ClientPolicy.maxAge : a.at <= s.at + age + ClientPolicy.skew
  BY Zenon DEF AnswerIsMine
<1>2. QED
  BY <1>1, Zenon

\* Nothing has been sent, done or answered.
LEMMA InitInv == Init => Inv
<1> SUFFICES ASSUME Init PROVE Inv
  OBVIOUS
<1>1. Counters
  <2>1. Len(ClientKeys) \in Nat /\ Len(ClientKeys) >= 1
    BY ExchangeAssumption
  <2>2. QED
    BY <2>1, ExchangeAssumption DEF Init, Counters
<1>2. QED
  BY <1>1 DEF Init, Inv, CallersAreTyped, NetworkIsGenuine, WaitingIsAsked, ServedAtATime, ServedWasAsked,
     ServedUnderCurrentKey, AnswerIsMine

\* A caller signs what it was asked to send.
LEMMA SendInv ==
  ASSUME Inv, NEW c \in Callers, Send(c)
  PROVE  Inv'
<1> DEFINE m == SignedMessage(Draft(Asked[c], ClientKeys[key], Aid(Client)), clock)
<1>1. /\ waiting' = [waiting EXCEPT ![c] = {m}]
      /\ network' = network \cup {[via |-> c, msg |-> OriginForm(m)]}
      /\ UNCHANGED <<answer, faults, key, resolved, served, clock>>
  BY DEF Send
<1> HIDE DEF m
<1>2. PICK v : /\ Waits(c, m) /\ DOMAIN OriginForm(m) = Fields /\ Carried(OriginForm(m)) = {v}
              /\ v.by = ClientKeys[key] /\ v.over.lines = RequestLines(Asking(c))
  BY RequestSent DEF m
<1>3. Counters'
  BY <1>1 DEF Inv, Counters
<1>4. waiting'[c] = {m} /\ \A d \in Callers \ {c} : waiting'[d] = waiting[d]
  BY <1>1 DEF Inv, Counters
<1>5. \A d \in Callers : Begun(d) => Begun(d)'
  BY <1>4 DEF Begun
<1>6. Genuine(v)'
  <2>1. Begun(c)'
    BY <1>4 DEF Begun
  <2>2. v.by \in Signers
    BY <1>2, ExchangeAssumption DEF Inv, Counters, Signers
  <2>3. v.by # ServerKey
    BY <2>2, ExchangeAssumption
  <2>4. QED
    BY <1>2, <2>1, <2>3 DEF Genuine
<1>7. NetworkIsGenuine'
  <2> SUFFICES ASSUME NEW e \in network' PROVE OnItsWay(e)'
    BY DEF NetworkIsGenuine
  <2>1. CASE e \in network
    BY <1>1, <1>5, <2>1, GenuineStays DEF Inv, NetworkIsGenuine, OnItsWay
  <2>2. CASE e = [via |-> c, msg |-> OriginForm(m)]
    BY <1>2, <1>6, <2>2 DEF OnItsWay
  <2>3. QED
    BY <1>1, <2>1, <2>2
<1>8. WaitingIsAsked'
  BY <1>2, <1>4 DEF Inv, WaitingIsAsked, Waits
<1>9. ServedAtATime' /\ ServedUnderCurrentKey' /\ AnswerIsMine'
  BY <1>1, AnswersStay DEF Inv, ServedAtATime, ServedUnderCurrentKey
<1>10. ServedWasAsked'
  BY <1>1, <1>5 DEF Inv, ServedWasAsked, Asking
<1>11. CallersAreTyped'
  <2>1. ReadRefusal(m, ServerPolicy) = None
    BY SentReads DEF m
  <2>2. QED
    BY <1>1, <1>4, <1>5, <2>1 DEF Inv, CallersAreTyped
<1>12. QED
  BY <1>3, <1>7, <1>8, <1>9, <1>10, <1>11 DEF Inv

\* The server's step, from a message on its way, whether or not it arrives again.
LEMMA HandleInv ==
  ASSUME Inv, NEW e \in network, NEW rest, rest \subseteq network, Handle(e, rest),
         UNCHANGED <<waiting, answer, key, resolved, clock>>, faults' \in 0..MaxFaults
  PROVE  Inv'
<1> DEFINE m == e.msg
           sent == Sent(m, ServerClock)
           done == [what |-> What(m), at |-> ServerClock,
                    by |-> Signature(m).by, resolver |-> ClientKeys[resolved]]
           accepted == Refusal(m, ServerPolicy, {ClientKeys[resolved]}, ServerClock) = None
<1>1. /\ e.via \in Callers /\ \A v \in Carried(m) : Genuine(v)
      /\ \A d \in Callers : Begun(d) => Begun(d)'
  BY DEF Inv, NetworkIsGenuine, OnItsWay, Begun
<1>2. /\ accepted => served' = served \cup {done} /\ network' = rest \cup {[via |-> e.via, msg |-> sent]}
      /\ ~accepted => served' = served /\ network' = rest \cup {[via |-> e.via, msg |-> Response(401, {}, {})]}
  BY DEF Handle, Reply, Sent
<1> HIDE DEF sent, done, accepted
<1>3. Counters' /\ WaitingIsAsked' /\ CallersAreTyped'
  BY DEF Inv, Counters, WaitingIsAsked, CallersAreTyped, Begun
<1>4. served \subseteq served'
  BY <1>2
<1>5. \A x \in rest : OnItsWay(x)'
  BY <1>1, <1>4, GenuineStays DEF Inv, NetworkIsGenuine, OnItsWay
<1>6. AnswerIsMine'
  BY <1>4, AnswersStay DEF Inv
<1>7. CASE ~accepted
  <2>1. NetworkIsGenuine'
    <3> SUFFICES ASSUME NEW x \in network' PROVE OnItsWay(x)'
      BY DEF NetworkIsGenuine
    <3>1. CASE x = [via |-> e.via, msg |-> Response(401, {}, {})]
      BY <1>1, <3>1, RefusalSent DEF OnItsWay
    <3>2. QED
      BY <1>2, <1>5, <1>7, <3>1
  <2>2. ServedAtATime' /\ ServedUnderCurrentKey' /\ ServedWasAsked'
    BY <1>1, <1>2, <1>7 DEF Inv, ServedAtATime, ServedUnderCurrentKey, ServedWasAsked, Asking
  <2>3. QED
    BY <1>3, <1>6, <2>1, <2>2 DEF Inv
<1>8. CASE accepted
  <2>1. /\ Signature(m).by = ClientKeys[resolved]
        /\ \E c \in Callers : Begun(c) /\ What(m) = Asking(c)
        /\ \E b : m.body = {b} /\ b # EmptyBody /\ The(m.headers.digest) = DigestOf(b)
    BY <1>1, <1>8, ServerTakes DEF accepted
  <2>2. done.what = What(m) /\ done.at = ServerClock /\ done.by = done.resolver
    BY <2>1 DEF done
  <2>3. PICK v : /\ DOMAIN sent = Fields /\ Carried(sent) = {v}
                /\ v.by = ServerKey /\ v.over.lines = AnswerLines(What(m))
                /\ v.over.params.created = {ServerClock}
    <3>1. PICK b : m.body = {b} /\ b # EmptyBody /\ The(m.headers.digest) = DigestOf(b)
      BY <2>1
    <3> HIDE DEF m
    <3>2. /\ DOMAIN Sent(m, ServerClock) = Fields
          /\ \E v : /\ Carried(Sent(m, ServerClock)) = {v}
                    /\ v.by = ServerKey /\ v.over.lines = AnswerLines(What(m))
                    /\ v.over.params.created = {ServerClock}
      <4> DEFINE now == ServerClock
      <4> HIDE DEF now
      <4>1. /\ DOMAIN Sent(m, now) = Fields
            /\ \E v : /\ Carried(Sent(m, now)) = {v}
                      /\ v.by = ServerKey /\ v.over.lines = AnswerLines(What(m))
                      /\ v.over.params.created = {now}
        BY <3>1, AnswerSent, Zenon
      <4>2. QED
        BY <4>1 DEF now
    <3>3. QED
      BY <3>2 DEF sent
  <2>4. Genuine(v)'
    <3>1. done \in served'
      BY <1>2, <1>8
    <3>2. v.by \notin Signers
      BY <2>3, ExchangeAssumption
    <3>3. v.over.lines = AnswerLines(done.what) /\ v.over.params.created = {done.at}
      BY <2>2, <2>3
    <3>4. QED
      BY <3>1, <3>2, <3>3 DEF Genuine, AnswerLines, Answer
  <2>5. NetworkIsGenuine'
    <3> SUFFICES ASSUME NEW x \in network' PROVE OnItsWay(x)'
      BY DEF NetworkIsGenuine
    <3>1. CASE x = [via |-> e.via, msg |-> sent]
      BY <1>1, <2>3, <2>4, <3>1 DEF OnItsWay
    <3>2. QED
      BY <1>2, <1>5, <1>8, <3>1
  <2>6. ServerClock \in Int
    BY ExchangeAssumption DEF ServerClock, Inv, Counters
  <2>7. ServedAtATime' /\ ServedUnderCurrentKey'
    BY <1>2, <1>8, <2>2, <2>6 DEF Inv, ServedAtATime, ServedUnderCurrentKey
  <2>8. ServedWasAsked'
    BY <1>1, <1>2, <1>8, <2>1, <2>2 DEF Inv, ServedWasAsked, Asking
  <2>9. QED
    BY <1>3, <1>6, <2>5, <2>7, <2>8 DEF Inv
<1>9. QED
  BY <1>7, <1>8

\* A caller's step, from a response that reaches it.
LEMMA DeliverInv ==
  ASSUME Inv, NEW e \in network, Deliver(e)
  PROVE  Inv'
<1> DEFINE c == e.via
           taken == [status |-> e.msg.status, body |-> e.msg.body, at |-> clock]
<1>1. /\ c \in Callers /\ DOMAIN e.msg = Fields /\ \A v \in Carried(e.msg) : Genuine(v)
      /\ network' \subseteq network /\ UNCHANGED <<waiting, faults, key, resolved, served, clock>>
  BY DEF Inv, NetworkIsGenuine, OnItsWay, Deliver
<1>2. /\ answer' = [d \in Callers |-> answer'[d]]
      /\ \A d \in Callers : \A a \in answer'[d] :
           a \in answer[d] \/ (d = c /\ a = taken /\ Taken(c, e.msg))
  BY <1>1 DEF Deliver, Inv, Counters
<1>3. Counters' /\ WaitingIsAsked' /\ ServedAtATime' /\ ServedUnderCurrentKey'
  BY <1>1, <1>2 DEF Inv, Counters, WaitingIsAsked, ServedAtATime, ServedUnderCurrentKey
<1>4. ServedWasAsked'
  BY <1>1 DEF Inv, ServedWasAsked, Begun
<1>5. NetworkIsGenuine'
  <2>1. \A d \in Callers : Begun(d) => Begun(d)'
    BY <1>1 DEF Begun
  <2>2. \A v : Genuine(v) => Genuine(v)'
    BY <1>1, <2>1, GenuineStays
  <2>3. QED
    BY <1>1, <2>2 DEF Inv, NetworkIsGenuine, OnItsWay
<1>6. AnswerIsMine'
  <2> SUFFICES ASSUME NEW d \in Callers, NEW a \in answer'[d]
               PROVE  \E s \in served' :
                        /\ s.what = Asking(d)
                        /\ [status |-> a.status, body |-> a.body] = Answer(Asking(d))
                        /\ \A age \in ClientPolicy.maxAge : a.at <= s.at + age + ClientPolicy.skew
    BY Zenon DEF AnswerIsMine
  <2>1. CASE a \in answer[d]
    BY <1>1, <2>1 DEF Inv, AnswerIsMine
  <2>2. CASE d = c /\ a = taken /\ Taken(c, e.msg)
    <3>1. PICK s \in served :
            /\ s.what = Asking(d)
            /\ [status |-> e.msg.status, body |-> e.msg.body] = Answer(Asking(d))
            /\ \A age \in ClientPolicy.maxAge : clock <= s.at + age + ClientPolicy.skew
      BY <1>1, <2>2, CallerTakes
    <3>2. a.status = e.msg.status /\ a.body = e.msg.body /\ a.at = clock
      BY <2>2
    <3>3. QED
      BY <1>1, <3>1, <3>2
  <2>3. QED
    BY <1>2, <2>1, <2>2
<1>7. CallersAreTyped'
  BY <1>1, <1>2 DEF Inv, CallersAreTyped, Begun, Taken
<1>8. QED
  BY <1>3, <1>4, <1>5, <1>6, <1>7 DEF Inv

\* What the network does wrong: a message is lost, changes connections, or becomes one
\* whose signature, if it is by a key of the clients' or the server's, was on its way.
LEMMA FaultInv ==
  ASSUME Inv, NEW e \in network, Lose(e) \/ Change(e) \/ Misdeliver(e)
  PROVE  Inv'
<1>1. UNCHANGED <<waiting, answer, key, resolved, served, clock>> /\ faults' \in 0..MaxFaults
  BY ExchangeAssumption DEF Lose, Change, Misdeliver, Fault, Inv, Counters
<1>2. Counters' /\ WaitingIsAsked' /\ ServedAtATime' /\ ServedUnderCurrentKey' /\ CallersAreTyped'
  BY <1>1 DEF Inv, Counters, WaitingIsAsked, ServedAtATime, ServedUnderCurrentKey, CallersAreTyped, Begun
<1>3. ServedWasAsked' /\ AnswerIsMine'
  BY <1>1, AnswersStay DEF Inv, ServedWasAsked, Begun
<1>4. \A v : Genuine(v) => Genuine(v)'
  <2>1. \A d \in Callers : Begun(d) => Begun(d)'
    BY <1>1 DEF Begun
  <2>2. QED
    BY <1>1, <2>1, GenuineStays
<1>5. \A x \in network : OnItsWay(x)'
  BY <1>4 DEF Inv, NetworkIsGenuine, OnItsWay
<1>6. \A x \in network' : x \in network \/ OnItsWay(x)'
  <2>1. CASE Lose(e)
    BY <2>1 DEF Lose
  <2>2. CASE Change(e)
    <3>1. PICK m \in Changes(e.msg) :
            /\ DOMAIN m = DOMAIN e.msg
            /\ \A v \in Carried(m) :
                 v.by \in Signers \cup {ServerKey} => \E f \in network : v \in Carried(f.msg)
            /\ network' = (network \ {e}) \cup {[e EXCEPT !.msg = m]}
      BY <2>2 DEF Change
    <3>2. \A v \in Carried(m) : Genuine(v)'
      <4>1. \A v \in Carried(m) : v.by \in Signers \cup {ServerKey} => Genuine(v)'
        BY <1>5, <3>1 DEF OnItsWay
      <4>2. \A v : v.by \notin Signers \cup {ServerKey} => Genuine(v)'
        BY DEF Genuine
      <4>3. QED
        BY <4>1, <4>2
    <3> DEFINE changed == [via |-> e.via, msg |-> m]
    <3>3. [e EXCEPT !.msg = m] = changed
      BY DEF Inv, NetworkIsGenuine, OnItsWay
    <3>4. OnItsWay(changed)'
      BY <1>5, <3>1, <3>2 DEF OnItsWay
    <3>5. QED
      BY <3>1, <3>3, <3>4
  <2>3. CASE Misdeliver(e)
    <3>1. PICK c \in Callers : network' = (network \ {e}) \cup {[e EXCEPT !.via = c]}
      BY <2>3 DEF Misdeliver
    <3> DEFINE crossed == [via |-> c, msg |-> e.msg]
    <3>2. [e EXCEPT !.via = c] = crossed
      BY DEF Inv, NetworkIsGenuine, OnItsWay
    <3>3. OnItsWay(crossed)'
      BY <1>5, <3>1 DEF OnItsWay
    <3>4. QED
      BY <3>1, <3>2, <3>3
  <2>4. QED
    BY <2>1, <2>2, <2>3
<1>7. NetworkIsGenuine'
  BY <1>5, <1>6 DEF NetworkIsGenuine
<1>8. QED
  BY <1>2, <1>3, <1>7 DEF Inv

\* The clock, a rotation and the resolver's hearing of it touch no message.
LEMMA QuietInv ==
  ASSUME Inv, Tick \/ Rotate \/ Learn \/ UNCHANGED vars
  PROVE  Inv'
<1>1. UNCHANGED <<waiting, answer, network, faults, served>>
  BY DEF Tick, Rotate, Learn, vars
<1>2. Counters'
  BY ExchangeAssumption DEF Inv, Counters, Tick, Rotate, Learn, vars
<1>3. WaitingIsAsked' /\ ServedAtATime' /\ ServedUnderCurrentKey' /\ CallersAreTyped'
  BY <1>1 DEF Inv, WaitingIsAsked, ServedAtATime, ServedUnderCurrentKey, CallersAreTyped, Begun
<1>4. ServedWasAsked' /\ AnswerIsMine'
  BY <1>1, AnswersStay DEF Inv, ServedWasAsked, Begun
<1>5. NetworkIsGenuine'
  <2>1. \A v : Genuine(v) => Genuine(v)'
    BY <1>1, GenuineStays DEF Begun
  <2>2. QED
    BY <1>1, <2>1 DEF Inv, NetworkIsGenuine, OnItsWay
<1>6. QED
  BY <1>2, <1>3, <1>4, <1>5 DEF Inv

\* Every step keeps it.
LEMMA NextInv == Inv /\ [Next]_vars => Inv'
<1> SUFFICES ASSUME Inv, [Next]_vars PROVE Inv'
  OBVIOUS
<1>1. ASSUME NEW c \in Callers, Send(c) PROVE Inv'
  BY <1>1, SendInv
<1>2. ASSUME NEW e \in network, Receive(e) PROVE Inv'
  <2>1. Handle(e, network \ {e}) /\ UNCHANGED <<waiting, answer, key, resolved, clock>>
        /\ faults' \in 0..MaxFaults
    BY <1>2 DEF Receive, Inv, Counters
  <2>2. QED
    BY <2>1, HandleInv
<1>3. ASSUME NEW e \in network, Repeat(e) PROVE Inv'
  <2>1. Handle(e, network) /\ UNCHANGED <<waiting, answer, key, resolved, clock>>
        /\ faults' \in 0..MaxFaults
    BY <1>3, ExchangeAssumption DEF Repeat, Fault, Inv, Counters
  <2>2. QED
    BY <2>1, HandleInv
<1>4. ASSUME NEW e \in network, Deliver(e) PROVE Inv'
  BY <1>4, DeliverInv
<1>5. ASSUME NEW e \in network, Lose(e) \/ Change(e) \/ Misdeliver(e) PROVE Inv'
  BY <1>5, FaultInv
<1>6. QED
  BY <1>1, <1>2, <1>3, <1>4, <1>5, QuietInv DEF Next

\* And so it holds throughout.
LEMMA InvHolds == Spec => []Inv
BY InitInv, NextInv, PTL DEF Spec

-------------------------------------------------------------------------------
(* The theorems.                                                           *)

\* Types, for any number of callers: nothing is answered that was not sent, and what a
\* caller sends has a signature and a covered list that the server reads (_read).
THEOREM ExchangeIsTyped == Spec => []TypeOK
<1>1. Inv => TypeOK
  BY DEF Inv, Counters, CallersAreTyped, NetworkIsGenuine, OnItsWay, TypeOK
<1>2. QED
  BY <1>1, InvHolds, PTL

\* Whatever a network and those who hold other keys make of it, for any number of callers
\* and keys, the server does only what somebody asked for (verify_request).
THEOREM OnlyTheAskedIsServed == Spec => []ServedWasAsked
<1>1. Inv => ServedWasAsked
  BY DEF Inv
<1>2. QED
  BY <1>1, InvHolds, PTL

\* And under no key but the one its resolver knows when it does it (_resolved).
THEOREM OnlyTheCurrentKeyIsServed == Spec => []ServedUnderCurrentKey
<1>1. Inv => ServedUnderCurrentKey
  BY DEF Inv
<1>2. QED
  BY <1>1, InvHolds, PTL

\* And a caller takes only the server's answer to what it asked, no older than its window
\* (verify_response).
THEOREM AnswersAreOnesOwn == Spec => []AnswerIsMine
<1>1. Inv => AnswerIsMine
  BY DEF Inv
<1>2. QED
  BY <1>1, InvHolds, PTL

-------------------------------------------------------------------------------
(* The refinement.                                                         *)

AskedNow == {Asking(c) : c \in {d \in Callers : Begun(d)}}
DoneNow == {s.what : s \in served}
GotNow == [c \in Callers |-> {[status |-> a.status, body |-> a.body] : a \in answer[c]}]

\* The beginning is RequestReply's.
LEMMA BeginsAbstractly == Init => Abstract!Begin
BY DEF Init, Abstract!Begin, Begun

\* Sending is asking.
LEMMA SendAsks ==
  ASSUME Inv, NEW c \in Callers, Send(c)
  PROVE  Abstract!Ask(c)
<1>1. UNCHANGED <<answer, served>>
  BY DEF Send
<1>2. \A d \in Callers : Begun(d)' <=> (Begun(d) \/ d = c)
  BY DEF Send, Begun, Inv, Counters
<1>3. AskedNow' = AskedNow \cup {Asking(c)}
  BY <1>2 DEF AskedNow
<1>4. DoneNow' = DoneNow /\ GotNow' = GotNow
  BY <1>1 DEF DoneNow, GotNow
<1>5. QED
  BY <1>3, <1>4 DEF Abstract!Ask, AskedNow, DoneNow, GotNow

\* Handling does what was asked, or nothing.
LEMMA HandleDoes ==
  ASSUME Inv, NEW e \in network, NEW rest, Handle(e, rest), UNCHANGED <<waiting, answer>>
  PROVE  \/ \E what \in AskedNow : Abstract!Do(what)
         \/ UNCHANGED <<AskedNow, DoneNow, GotNow>>
<1>1. AskedNow' = AskedNow /\ GotNow' = GotNow
  BY DEF AskedNow, GotNow, Begun
<1>2. CASE Refusal(e.msg, ServerPolicy, {ClientKeys[resolved]}, ServerClock) = None
  <2>1. PICK c \in Callers : Begun(c) /\ What(e.msg) = Asking(c)
    BY <1>2, ServerTakes DEF Inv, NetworkIsGenuine, OnItsWay
  <2>2. DoneNow' = DoneNow \cup {What(e.msg)}
    <3>1. PICK s : s.what = What(e.msg) /\ served' = served \cup {s}
      BY <1>2 DEF Handle
    <3>2. QED
      BY <3>1 DEF DoneNow
  <2>3. What(e.msg) \in AskedNow
    BY <2>1 DEF AskedNow
  <2>4. Abstract!Do(What(e.msg))
    BY <1>1, <2>2 DEF Abstract!Do, AskedNow, DoneNow, GotNow
  <2>5. QED
    BY <2>3, <2>4
<1>3. CASE Refusal(e.msg, ServerPolicy, {ClientKeys[resolved]}, ServerClock) # None
  BY <1>1, <1>3 DEF Handle, DoneNow
<1>4. QED
  BY <1>2, <1>3

\* A delivery is a caller's taking its answer, or nothing.
LEMMA DeliverGets ==
  ASSUME Inv, NEW e \in network, Deliver(e)
  PROVE  \/ \E c \in Callers : Abstract!Get(c)
         \/ UNCHANGED <<AskedNow, DoneNow, GotNow>>
<1> DEFINE c == e.via
           taken == [status |-> e.msg.status, body |-> e.msg.body, at |-> clock]
<1>1. /\ c \in Callers /\ DOMAIN e.msg = Fields /\ \A v \in Carried(e.msg) : Genuine(v)
      /\ UNCHANGED <<waiting, served>>
  BY DEF Inv, NetworkIsGenuine, OnItsWay, Deliver
<1>2. AskedNow' = AskedNow /\ DoneNow' = DoneNow
  BY <1>1 DEF AskedNow, DoneNow, Begun
<1>3. CASE Taken(c, e.msg)
  <2>1. PICK s \in served : /\ s.what = Asking(c)
                            /\ [status |-> e.msg.status, body |-> e.msg.body] = Answer(Asking(c))
    BY <1>1, <1>3, CallerTakes
  <2>2. Asking(c) \in DoneNow
    BY <2>1 DEF DoneNow
  <2>3. answer[c] = {} /\ answer' = [answer EXCEPT ![c] = {taken}]
    BY <1>3 DEF Deliver, Taken
  <2>4. [status |-> taken.status, body |-> taken.body] = Answer(Asking(c))
    BY <2>1
  <2> HIDE DEF taken
  <2>5. GotNow[c] = {} /\ GotNow' = [GotNow EXCEPT ![c] = {Answer(Asking(c))}]
    <3>1. answer'[c] = {taken} /\ \A d \in Callers \ {c} : answer'[d] = answer[d]
      BY <1>1, <2>3 DEF Inv, Counters
    <3>2. {[status |-> a.status, body |-> a.body] : a \in answer'[c]} = {Answer(Asking(c))}
      BY <2>4, <3>1
    <3>3. QED
      BY <1>1, <2>3, <3>1, <3>2 DEF GotNow
  <2>6. Abstract!Get(c)
    BY <1>1, <1>2, <2>2, <2>5 DEF Abstract!Get, AskedNow, DoneNow, GotNow
  <2>7. QED
    BY <1>1, <2>6
<1>4. CASE ~Taken(c, e.msg)
  BY <1>2, <1>4 DEF Deliver, GotNow
<1>5. QED
  BY <1>3, <1>4

\* Every step is RequestReply's, or none of its.
LEMMA StepsAbstractly == Inv /\ [Next]_vars => [Abstract!Next]_<<AskedNow, DoneNow, GotNow>>
<1> SUFFICES ASSUME Inv, [Next]_vars PROVE [Abstract!Next]_<<AskedNow, DoneNow, GotNow>>
  OBVIOUS
<1>1. ASSUME NEW c \in Callers, Send(c) PROVE Abstract!Next
  BY <1>1, SendAsks DEF Abstract!Next
<1>2. ASSUME NEW e \in network, Receive(e) \/ Repeat(e)
      PROVE  [Abstract!Next]_<<AskedNow, DoneNow, GotNow>>
  <2>1. (Handle(e, network \ {e}) \/ Handle(e, network)) /\ UNCHANGED <<waiting, answer>>
    BY <1>2 DEF Receive, Repeat, Fault
  <2>2. QED
    BY <2>1, HandleDoes DEF Abstract!Next, AskedNow
<1>3. ASSUME NEW e \in network, Deliver(e)
      PROVE  [Abstract!Next]_<<AskedNow, DoneNow, GotNow>>
  BY <1>3, DeliverGets DEF Abstract!Next
<1>4. ASSUME UNCHANGED <<waiting, answer, served>>
      PROVE  UNCHANGED <<AskedNow, DoneNow, GotNow>>
  BY <1>4 DEF AskedNow, DoneNow, GotNow, Begun
<1>5. QED
  BY <1>1, <1>2, <1>3, <1>4 DEF Next, Lose, Change, Misdeliver, Fault, Tick, Rotate, Learn, vars

\* For any callers, requests and network, what clients and a server that use fiki do is what
\* RequestReply promises: an answer is taken only for what was asked, once it was done.
THEOREM ExchangeImplementsRequestReply == Spec => ImplementsRequestReply
<1>1. Abstract!Spec <=> Abstract!Begin /\ [][Abstract!Next]_<<AskedNow, DoneNow, GotNow>>
  BY DEF Abstract!Spec, AskedNow, DoneNow, GotNow
<1>2. QED
  BY <1>1, InvHolds, BeginsAbstractly, StepsAbstractly, PTL DEF Spec, ImplementsRequestReply
===============================================================================
