------------------------------ MODULE ExchangeMC ------------------------------
(***************************************************************************)
(* Exchange with two callers whose requests differ in nothing but what     *)
(* their bodies hold, or in nothing at all.                                *)
(***************************************************************************)
EXTENDS Exchange, TLC

CONSTANTS K1, K2, KS, E1, C1, C2

Post(b) ==
    [response |-> FALSE, method |-> "POST",
     url |-> [form |-> "absolute", authority |-> "api", path |-> "/a", query |-> "?q"],
     status |-> 0, headers |-> NoHeaders, body |-> {b}, request |-> {}]

TwoBodies == (C1 :> Post("b1")) @@ (C2 :> Post("b2"))

Replies == [b1 |-> "r1", b2 |-> "r2"]

\* What an intermediary makes of a message: another body, with a digest to match or
\* without, another target, another status, or no signature.
Altered(m) ==
    LET other == IF m.body \in {{"b1"}, {"r1"}} THEN {IF m.response THEN "r2" ELSE "b2"}
                 ELSE {IF m.response THEN "r1" ELSE "b1"}
    IN  {[m EXCEPT !.body = other],
         [m EXCEPT !.body = other, !.headers.digest = {DigestOf(b) : b \in other}],
         [m EXCEPT !.headers.signature = {}]}
          \cup (IF m.response THEN {[m EXCEPT !.status = 500]}
                ELSE {[m EXCEPT !.url.path = "/b"], [m EXCEPT !.headers.host = {"files"}]})

Serving ==
    [minimum |-> {DefaultMinimum}, authorities |-> {{"api"}}, expectedAid |-> {},
     resolving |-> TRUE, expectedKeyid |-> {}, maxAge |-> {1}, skew |-> 1]

Asking1 ==
    [minimum |-> {ResponseMinimum}, authorities |-> {}, expectedAid |-> {},
     resolving |-> FALSE, expectedKeyid |-> {RawKeyid(KS)}, maxAge |-> {1}, skew |-> 1]

OneBody == (C1 :> Post("b1"))

Settled == <<K1>>

Rotating == <<K1, K2>>
===============================================================================
