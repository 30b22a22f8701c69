------------------------------ MODULE VerifierMC ------------------------------
(***************************************************************************)
(* Verifier over honest messages with up to two defects, so that every two *)
(* checks compete for the answer; and over a few messages with the clock   *)
(* running and the key state rotating.                                     *)
(***************************************************************************)
EXTENDS Verifier, Samples

\* A component that cannot be built, covered ahead of one that is absent.
DisputedCalls ==
    LET drafts == DraftsWith({"absent field"}, {RequestDraft(K1, RawKeyid(K1))})
    IN  Pairings(MessagesWith({"bad path", "path"}, SignedDrafts(drafts)), RawPolicies(FALSE))
===============================================================================
