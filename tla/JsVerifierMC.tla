----------------------------- MODULE JsVerifierMC -----------------------------
(***************************************************************************)
(* JsVerifier over the calls of VerifierMC's runs, and over calls whose    *)
(* caller refills the buffers it handed over.                              *)
(***************************************************************************)
EXTENDS JsVerifier, Samples

\* Calls made with buffers shared or not, at some times, while the key state moves.
Made(calls, shared, states, starts, until) ==
    {[msg |-> c.msg, policy |-> c.policy, shared |-> shared,
      states |-> states, starts |-> starts, until |-> until] : c \in calls}

JsDefectiveCalls == Made(DefectiveCalls, FALSE, Settled, {4}, 4)

\* The key of E1 moves, and the other AIDs are those of Settled.
JsRotating == {[s EXCEPT ![E1] = {k}] : s \in Settled, k \in {K1, K2}}

\* The races of Verifier, and one over a body that is not the one signed.
RacingCalls ==
    LET other == MessagesWith({"other body"}, SignedDrafts({RequestDraft(K1, Aid(E1))}))
    IN  Made(RaceCalls \cup Pairings(other, AidPolicies(FALSE)), FALSE, JsRotating, {2, 6}, 8)

\* Requests and responses with a digest in one algorithm or two, or a defect that
\* competes with a digest's.
RefilledCalls ==
    LET changes == {"none", "second digest", "other digest", "garbled digest", "stale", "body uncovered"}
        two(d) == [d EXCEPT !.m.headers.digest =
                    {[x EXCEPT !.members = @ \cup {[alg |-> "sha-512", bytes |-> TRUE, of |-> b] : b \in d.m.body}]
                       : x \in @}]
        request == RequestDraft(K1, RawKeyid(K1))
        response == ResponseDraft(K1, RawKeyid(K1))
    IN  Made(
          Pairings(MessagesWith({"none", "other body", "no body", "path"},
                     SignedDrafts(DraftsWith(changes, {request, two(request)}))), RawPolicies(FALSE))
          \cup Pairings(MessagesWith({"none", "other body", "asked with other body", "asked with no body"},
                     SignedDrafts(DraftsWith(changes, {response, two(response)}))), RawPolicies(TRUE)),
          TRUE, Settled, {7}, 8)

JsCalls == JsDefectiveCalls \cup RacingCalls \cup RefilledCalls
===============================================================================
