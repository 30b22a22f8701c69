------------------------------ MODULE JsSignerMC ------------------------------
(***************************************************************************)
(* JsSigner over the calls of RoundTripMC, and over calls whose caller     *)
(* refills the buffers it handed over.                                     *)
(***************************************************************************)
EXTENDS JsSigner, Drafts

Sharing(drafts, shared) == {[draft |-> d, shared |-> shared] : d \in drafts}

OrdinarySignings == Sharing(UNION {RequestDrafts, ResponseDrafts}, FALSE)

InTwoAlgorithms(d) ==
    [d EXCEPT !.m.headers.digest =
       {[DigestOf(b) EXCEPT !.members = @ \cup {[alg |-> "sha-512", bytes |-> TRUE, of |-> b]}] : b \in d.m.body}]

RefilledSignings ==
    LET changes == {"none", "digest", "wrong digest", "chosen", "empty body", "profile minimum"}
        drafts == ChangedBy(changes, {Ordinary(Asked), InTwoAlgorithms(Ordinary(Asked))})
                    \cup ChangedBy(changes \cup {"no request", "request without body"},
                                   {Ordinary(Answered), InTwoAlgorithms(Ordinary(Answered))})
    IN  Sharing(drafts, TRUE)

AllSignings == OrdinarySignings \cup RefilledSignings
===============================================================================
