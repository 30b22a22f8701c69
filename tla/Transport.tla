------------------------------- MODULE Transport -------------------------------
(***************************************************************************)
(* What HTTP does to a message between a signer and a verifier when        *)
(* nothing goes wrong.  External: fiki neither sends nor receives, and     *)
(* base.py reads both forms a message can take.                            *)
(***************************************************************************)
EXTENDS Signer

\* A client sends the authority of an absolute URL as Host, and the server sees an
\* origin-form target.
OriginForm(m) ==
    IF m.response \/ m.url.form # "absolute" THEN m
    ELSE [m EXCEPT !.url = [m.url EXCEPT !.form = "origin", !.authority = "none"],
                   !.headers = [m.headers EXCEPT !.host =
                                  IF m.headers.host = {} THEN {m.url.authority} ELSE m.headers.host]]

\* A body is sent with its length or in chunks, and a body that was not there is an
\* empty one to a server that reads it.
Framed(m) ==
    IF HasContent(m.body)
    THEN {[m EXCEPT !.headers.length = {"positive"}], [m EXCEPT !.headers.te = TRUE]}
    ELSE {m, [m EXCEPT !.body = {EmptyBody}]}

\* In either form of the URL, and either framing of the body.
Arrivals(m) == Framed(m) \cup Framed(OriginForm(m))
===============================================================================
