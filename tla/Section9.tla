------------------------------- MODULE Section9 -------------------------------
(***************************************************************************)
(* What docs/keri-profile.md section 9 promises of a verification: the     *)
(* checks have one order, the first that fails is reported, so every       *)
(* message has exactly one correct code.  Here the whole decision is one   *)
(* step.  Verifier must decide the same for the key state and the clock of *)
(* some moments within the call.                                           *)
(*                                                                         *)
(* This is the abstract specification, written from the document; nothing  *)
(* in it models code.                                                      *)
(***************************************************************************)
EXTENDS Integers

CONSTANTS
    None,           \* no code yet
    Code(_,_,_,_)   \* the code of a message, a policy, a resolver's answer and a clock

VARIABLES
    call,     \* the message and the arguments of the call
    outcome,  \* the code it ends with, or None
    clock,
    held      \* what a lookup of the keyid has answered since the call began, and since when

Begin == outcome = None /\ held = {[answer |-> h.answer, at |-> clock] : h \in held}

Tick == clock' = clock + 1 /\ UNCHANGED <<call, outcome, held>>

\* The key state moves on; what it said before stays possible for a call under way.
Rotate ==
    /\ held \subseteq held'
    /\ \A h \in held' \ held : h.at = clock
    /\ UNCHANGED <<call, outcome, clock>>

\* The call is decided, once, by what held at a moment of it and a clock no earlier.
Decide ==
    /\ outcome = None
    /\ \E h \in held : \E now \in h.at..clock :
         outcome' = Code(call.msg, call.policy, h.answer, now)
    /\ UNCHANGED <<call, clock, held>>

Next == Tick \/ Rotate \/ Decide

Spec == Begin /\ [][Next]_<<call, outcome, clock, held>>
===============================================================================
