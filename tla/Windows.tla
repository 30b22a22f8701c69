------------------------------- MODULE Windows -------------------------------
(***************************************************************************)
(* The freshness check of the ports whose integers have a width            *)
(* (go/messages.go, java Fiki.java), as the Python one is in Verification. *)
(* A time on the wire has at most fifteen digits; the clock and the        *)
(* caller's window may be any number the width holds.  Rust and C# compare *)
(* in a type wide enough for every sum, as Python does.                    *)
(***************************************************************************)
EXTENDS Integers

CONSTANTS
    MaxInt,  \* the largest number of the width: 2^63 - 1
    MaxTime  \* the latest time a signature can carry: 10^15 - 1

ASSUME WindowsAssumption == MaxInt \in Nat /\ MaxTime \in 0..MaxInt

Python == INSTANCE Verification WITH Keys <- {}, SoundKeys <- {}, Ids <- {}

MinInt == -MaxInt - 1

\* What a signature and a caller can state of times: the window is positive and the
\* skew always there (checkWindow).
Times == {{}} \cup {{t} : t \in 0..MaxTime}

Stated == [created : Times, expires : Times]

Allowances == [maxAge : {{}} \cup {{a} : a \in 1..MaxInt}, skew : 1..MaxInt]

-------------------------------------------------------------------------------
(* go/messages.go: sums that saturate, and nothing subtracted.             *)

\* Mutant: a sum that is too large wraps.
LaterWrapped(a, b) == ((a + b - MinInt) % (2 * (MaxInt + 1))) + MinInt

Later(a, b) == IF a > MaxInt - b THEN MaxInt ELSE a + b

GoTooOld(params, p, now) ==
    \E age \in p.maxAge :
      \/ params.created = {}
      \/ \E c \in params.created : Later(c, Later(age, p.skew)) < now \/ Later(now, p.skew) < c

GoFreshnessRefusal(params, p, now) ==
    IF GoTooOld(params, p, now) THEN "SignatureTooOld"
    ELSE IF \E e \in params.expires : now > Later(e, p.skew) THEN "SignatureExpired"
    ELSE Python!None

-------------------------------------------------------------------------------
(* Fiki.java: sums and differences that saturate.                          *)

SumHeld(a, b) == IF a + b \in MinInt..MaxInt THEN a + b ELSE MaxInt

DifferenceHeld(a, b) ==
    IF a - b \in MinInt..MaxInt THEN a - b ELSE IF b < 0 THEN MaxInt ELSE MinInt

JavaTooOld(params, p, now) ==
    \E age \in p.maxAge :
      \/ params.created = {}
      \/ \E c \in params.created :
           DifferenceHeld(now, c) > SumHeld(age, p.skew) \/ DifferenceHeld(c, now) > p.skew

JavaFreshnessRefusal(params, p, now) ==
    IF JavaTooOld(params, p, now) THEN "SignatureTooOld"
    ELSE IF \E e \in params.expires : now > SumHeld(e, p.skew) THEN "SignatureExpired"
    ELSE Python!None

\* The largest skew is no limit at all: it is told apart from a true one only by a clock
\* before the epoch.
NoLimit(p, now) == p.skew = MaxInt /\ now < 0
===============================================================================
