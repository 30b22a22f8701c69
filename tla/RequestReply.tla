----------------------------- MODULE RequestReply -----------------------------
(***************************************************************************)
(* What a client and a server that sign and verify with fiki are promised: *)
(* the server does only what somebody asked for, and a client takes only   *)
(* the answer to what it asked, once the server has done it.  Nothing is   *)
(* promised about how often: a request may be done again, and an answer    *)
(* may be given to everybody who asked the same.                           *)
(*                                                                         *)
(* The abstract specification of Exchange; it models no code.              *)
(***************************************************************************)
CONSTANTS
    Callers,
    Want(_),   \* what a caller asks for
    Reply(_)   \* the answer to it

VARIABLES
    asked,  \* what has been asked for
    done,   \* what the server has done
    got     \* the answer each caller has taken, if it has

Begin == asked = {} /\ done = {} /\ got = [c \in Callers |-> {}]

Ask(c) == asked' = asked \cup {Want(c)} /\ UNCHANGED <<done, got>>

Do(what) == done' = done \cup {what} /\ UNCHANGED <<asked, got>>

Get(c) ==
    /\ Want(c) \in done /\ got[c] = {}
    /\ got' = [got EXCEPT ![c] = {Reply(Want(c))}]
    /\ UNCHANGED <<asked, done>>

Next == (\E c \in Callers : Ask(c) \/ Get(c)) \/ (\E what \in asked : Do(what))

Spec == Begin /\ [][Next]_<<asked, done, got>>
===============================================================================
