------------------------------ MODULE RoundTripMC ------------------------------
(***************************************************************************)
(* RoundTrip over calls that differ from an ordinary one in up to two of   *)
(* their arguments, made with and without the profile's minimum.           *)
(***************************************************************************)
EXTENDS RoundTrip, Drafts

ASSUME ResolverAnswers == DOMAIN Resolver \subseteq Ids \cup Keys

Verifying(response, resolving) ==
    [minimum |-> {IF response THEN ResponseMinimum ELSE DefaultMinimum},
     authorities |-> IF response THEN {} ELSE {{"api"}},
     expectedAid |-> {}, resolving |-> resolving, expectedKeyid |-> {},
     maxAge |-> {1}, skew |-> 1]

\* A draft that names an AID goes to a verifier that resolves it.
AllExchanges ==
    {[draft |-> d, policy |-> Verifying(d.m.response, \E k \in d.keyid : k.form = "aid")]
       : d \in RequestDrafts \cup ResponseDrafts}

Known == (E1 :> {K1})
===============================================================================
