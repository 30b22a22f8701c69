--------------------------------- MODULE Drafts ---------------------------------
(***************************************************************************)
(* The signing calls of the runs: calls that differ from an ordinary one   *)
(* in up to two of their arguments.  Nothing here models code.             *)
(***************************************************************************)
EXTENDS Signer, SequencesExt

CONSTANTS K1, K2, Weak, E1, E2

Headers ==
    [signature |-> {}, input |-> {}, digest |-> {}, host |-> {}, field |-> {},
     length |-> {}, te |-> FALSE, twice |-> FALSE]

Url(form) == [form |-> form, authority |-> "api", path |-> "/a", query |-> "?q"]

Asked ==
    [response |-> FALSE, method |-> "POST", url |-> Url("absolute"), status |-> 0,
     headers |-> Headers, body |-> {"b1"}, request |-> {}]

Answered ==
    [response |-> TRUE, method |-> "none", url |-> Url("origin"), status |-> 200,
     headers |-> Headers, body |-> {"b2"},
     request |-> {[Asked EXCEPT !.headers.digest = {DigestOf("b1")}]}]

Ordinary(m) ==
    [m |-> m, key |-> K1, covered |-> {}, minimum |-> {}, keyid |-> {}, created |-> {},
     expires |-> {}, badLabel |-> FALSE, badText |-> FALSE]

\* The list a caller writes out when it chooses the components itself.
Full(m) ==
    (IF m.response THEN <<Item("@status"), Req("@method"), Req("@path"), Req("@query"), Req(ContentDigest)>>
     ELSE DefaultCovered) \o <<Item(ContentDigest)>>

Without(items, name) == SelectSeq(items, LAMBDA item : item.name # name)

DigestFor(alg, b) ==
    [raw |-> "ok", shape |-> "dict", members |-> {[alg |-> alg, bytes |-> TRUE, of |-> b]}]

Changed(change, d) ==
    CASE change = "none" -> d
      [] change = "chosen" -> [d EXCEPT !.covered = {Full(d.m)}]
      [] change = "chosen in another order" -> [d EXCEPT !.covered = {Reverse(Full(d.m))}]
      [] change = "chosen without body" -> [d EXCEPT !.covered = {Without(Full(d.m), ContentDigest)}]
      [] change = "chosen without authority" -> [d EXCEPT !.covered = {Without(Full(d.m), "@authority")}]
      [] change = "chosen without query" -> [d EXCEPT !.covered = {Without(Full(d.m), "@query")}]
      [] change = "chosen with a field" -> [d EXCEPT !.covered = {Full(d.m) \o <<Item("X-Field")>>}]
      [] change = "chosen with a host" -> [d EXCEPT !.covered = {Full(d.m) \o <<Item("host")>>}]
      [] change = "chosen twice" -> [d EXCEPT !.covered = {Full(d.m) \o <<Item("@method")>>}]
      [] change = "chosen unknown" -> [d EXCEPT !.covered = {Full(d.m) \o <<Item("@other")>>}]
      [] change = "chosen unspellable" -> [d EXCEPT !.covered = {Full(d.m) \o <<Item("x field")>>}]
      [] change = "chosen unparsed" -> [d EXCEPT !.covered = {Full(d.m) \o <<Item(Unparsed)>>}]
      [] change = "chosen in two mistakes" ->
            [d EXCEPT !.covered = {<<Item("x field"), Item(Unparsed)>> \o Full(d.m)}]
      [] change = "field" -> [d EXCEPT !.m.headers.field = {"v"}]
      [] change = "bad field" -> [d EXCEPT !.m.headers.field = {Bad}]
      [] change = "no body" -> [d EXCEPT !.m.body = {}]
      [] change = "empty body" -> [d EXCEPT !.m.body = {EmptyBody}]
      [] change = "length without body" -> [d EXCEPT !.m.body = {}, !.m.headers.length = {"positive"}]
      [] change = "digest" -> [d EXCEPT !.m.headers.digest = {DigestFor("sha-256", b) : b \in d.m.body}]
      [] change = "stronger digest" -> [d EXCEPT !.m.headers.digest = {DigestFor("sha-512", b) : b \in d.m.body}]
      [] change = "wrong digest" -> [d EXCEPT !.m.headers.digest = {DigestFor("sha-256", "b0")}]
      [] change = "unknown digest" -> [d EXCEPT !.m.headers.digest = {DigestFor("md5", b) : b \in d.m.body}]
      [] change = "origin form" -> [d EXCEPT !.m.url.form = "origin"]
      [] change = "origin form and host" -> [d EXCEPT !.m.url.form = "origin", !.m.headers.host = {"api"}]
      [] change = "host" -> [d EXCEPT !.m.headers.host = {"api"}]
      [] change = "other host" -> [d EXCEPT !.m.headers.host = {"files"}]
      [] change = "bad host" -> [d EXCEPT !.m.headers.host = {Bad}]
      [] change = "no single host" -> [d EXCEPT !.m.headers.host = {NotAHost}]
      [] change = "user in url" -> [d EXCEPT !.m.url.authority = NotAHost]
      [] change = "unreadable url" -> [d EXCEPT !.m.url.form = "unreadable"]
      [] change = "bad path" -> [d EXCEPT !.m.url.path = Bad]
      [] change = "bad method" -> [d EXCEPT !.m.method = "P OST"]
      [] change = "bad status" -> [d EXCEPT !.m.status = 42]
      [] change = "bad label" -> [d EXCEPT !.badLabel = TRUE]
      [] change = "bad text" -> [d EXCEPT !.badText = TRUE]
      [] change = "headers twice" -> [d EXCEPT !.m.headers.twice = TRUE]
      [] change = "aid" -> [d EXCEPT !.keyid = {Aid(E1)}]
      [] change = "unknown aid" -> [d EXCEPT !.keyid = {Aid(E2)}]
      [] change = "empty keyid" -> [d EXCEPT !.keyid = {EmptyKeyid}]
      [] change = "created earlier" -> [d EXCEPT !.created = {0}]
      [] change = "expires" -> [d EXCEPT !.expires = {2}]
      [] change = "profile minimum" ->
            [d EXCEPT !.minimum = {IF d.m.response THEN ResponseMinimum ELSE DefaultMinimum}]
      [] change = "too small a minimum" -> [d EXCEPT !.minimum = {{Item("@method")}}]
      [] change = "unparsed minimum" -> [d EXCEPT !.minimum = {{Item(Unparsed)}}]
      [] change = "no request" -> [d EXCEPT !.m.request = {}]
      [] change = "request without digest" -> [d EXCEPT !.m.request = {[r EXCEPT !.headers.digest = {}] : r \in @}]
      [] change = "request with wrong digest" ->
            [d EXCEPT !.m.request = {[r EXCEPT !.headers.digest = {DigestOf("b0")}] : r \in @}]
      [] change = "request without body" -> [d EXCEPT !.m.request = {[r EXCEPT !.body = {}] : r \in @}]
      [] change = "request announcing a body" ->
            [d EXCEPT !.m.request = {[r EXCEPT !.body = {}, !.headers.length = {"positive"}] : r \in @}]
      [] change = "request with empty body" ->
            [d EXCEPT !.m.request = {[r EXCEPT !.body = {EmptyBody}, !.headers.digest = {}] : r \in @}]

OwnLists ==
    {"chosen", "chosen in another order", "chosen without body", "chosen with a field",
     "chosen twice", "chosen unknown", "chosen unspellable", "chosen unparsed", "chosen in two mistakes"}

Both ==
    {"none", "field", "bad field", "no body", "length without body", "empty body", "digest", "stronger digest", "wrong digest",
     "unknown digest", "bad label", "bad text", "headers twice", "aid", "unknown aid",
     "empty keyid", "created earlier", "expires", "profile minimum", "too small a minimum",
     "unparsed minimum"}

ForRequests ==
    {"chosen without authority", "chosen without query", "chosen with a host", "origin form",
     "origin form and host", "host", "other host", "bad host", "no single host", "user in url",
     "unreadable url", "bad path", "bad method"} \cup OwnLists \cup Both

ForResponses ==
    {"chosen without query", "bad status", "no request", "request without digest",
     "request with wrong digest", "request without body", "request announcing a body",
     "request with empty body"} \cup OwnLists \cup Both

ChangedBy(changes, drafts) == {Changed(c, d) : c \in changes, d \in drafts}

\* Each call made with and without the profile's minimum, and with two changes.
RequestDrafts == ChangedBy(ForRequests, ChangedBy(ForRequests,
                   ChangedBy({"none", "profile minimum"}, {Ordinary(Asked)})))

ResponseDrafts == ChangedBy(ForResponses, ChangedBy(ForResponses,
                    ChangedBy({"none", "profile minimum"}, {Ordinary(Answered)})))
=================================================================================
