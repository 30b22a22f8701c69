----------------------------- MODULE ReadersProofs -----------------------------
(***************************************************************************)
(* What Readers promises of times, authorities, Content-Lengths, keys on   *)
(* the wire and signatures, for every text, every width and every clock.   *)
(*                                                                         *)
(* Times: a sum held at the largest number is compared only with a number  *)
(* of the width, which no true sum past the width is below either; a       *)
(* difference can only fall short of the width, where it is above no       *)
(* window.                                                                 *)
(*                                                                         *)
(* Authorities: what one release's urlsplit refuses and another's does not *)
(* is a bracket.  A host and port that fiki reads either has its brackets  *)
(* around an IP literal and a port behind them, which no release refuses,  *)
(* or has none.                                                            *)
(*                                                                         *)
(* Lengths: what is stripped of a text and what is folded from its digits  *)
(* is found by induction over its places, by the least place where it      *)
(* would fail; a fold is the one function that satisfies its equation.     *)
(*                                                                         *)
(* Keys: base64 regroups bits.  Two bytes behind a pad byte fill four      *)
(* characters, and alone leave spare bits in the third; either way what    *)
(* was written is what is read, and what is read, written again, is the    *)
(* text only if it was written so.                                         *)
(*                                                                         *)
(* Signatures: two hashes for one would make a multiple of the key below q *)
(* neutral, and the least such multiple divides 8, for q is prime.         *)
(***************************************************************************)
EXTENDS Readers, FiniteSetTheorems, SequenceTheorems, WellFoundedInduction, TLAPS

-------------------------------------------------------------------------------
(* The window of a signature in the ports of fixed width.                  *)

\* A saturated sum is below a number of the width exactly where the sum is.
LEMMA LaterCompares ==
  ASSUME NEW a \in MinInt..MaxInt, NEW b \in 0..MaxInt, NEW n \in MinInt..MaxInt
  PROVE  /\ Later(a, b) \in MinInt..MaxInt
         /\ Later(a, b) < n <=> a + b < n
BY WindowsAssumption DEF Later, MinInt

\* And so is a saturated sum of two sums.
LEMMA LaterTwiceCompares ==
  ASSUME NEW c \in 0..MaxTime, NEW a \in 1..MaxInt, NEW b \in 1..MaxInt,
         NEW n \in MinInt..MaxInt
  PROVE  Later(c, Later(a, b)) < n <=> n - c > a + b
BY WindowsAssumption DEF Later, MinInt

\* Go refuses a signature for its times exactly where Python does (checkFreshness).
THEOREM GoWindowIsPythons ==
  ASSUME NEW params \in Stated, NEW allowed \in Allowances, NEW now \in MinInt..MaxInt
  PROVE  GoFreshnessRefusal(params, allowed, now) = Python!FreshnessRefusal(params, allowed, now)
<1>1. /\ allowed.skew \in 1..MaxInt /\ allowed.maxAge \subseteq 1..MaxInt
      /\ params.created \subseteq 0..MaxTime /\ params.expires \subseteq 0..MaxTime
  BY DEF Stated, Allowances, Times
<1>2. ASSUME NEW age \in allowed.maxAge, NEW c \in params.created
      PROVE  /\ Later(c, Later(age, allowed.skew)) < now <=> now - c > age + allowed.skew
             /\ Later(now, allowed.skew) < c <=> c - now > allowed.skew
  <2>1. Later(c, Later(age, allowed.skew)) < now <=> now - c > age + allowed.skew
    BY <1>1, LaterTwiceCompares
  <2>2. c \in MinInt..MaxInt
    BY <1>1, WindowsAssumption DEF MinInt
  <2>3. Later(now, allowed.skew) < c <=> now + allowed.skew < c
    BY <1>1, <2>2, LaterCompares, WindowsAssumption
  <2>4. QED
    BY <1>1, <2>1, <2>2, <2>3, WindowsAssumption DEF MinInt
<1>3. GoTooOld(params, allowed, now) <=> Python!TooOld(params, allowed, now)
  BY <1>2 DEF GoTooOld, Python!TooOld
<1>4. ASSUME NEW e \in params.expires
      PROVE  now > Later(e, allowed.skew) <=> now > e + allowed.skew
  <2>1. e \in MinInt..MaxInt
    BY <1>1, WindowsAssumption DEF MinInt
  <2>2. allowed.skew \in 0..MaxInt
    BY <1>1, WindowsAssumption
  <2>3. Later(e, allowed.skew) \in MinInt..MaxInt
    BY <2>1, <2>2, LaterCompares
  <2>4. Later(e, allowed.skew) < now <=> e + allowed.skew < now
    BY <2>1, <2>2, LaterCompares
  <2>5. QED
    BY <1>1, <2>3, <2>4, WindowsAssumption DEF MinInt
<1>5. QED
  BY <1>3, <1>4 DEF GoFreshnessRefusal, Python!FreshnessRefusal

\* Java's sums and differences compare as the true ones do, but for a skew with no limit.
LEMMA JavaCompares ==
  ASSUME NEW c \in 0..MaxTime, NEW a \in 1..MaxInt, NEW b \in 1..MaxInt,
         NEW n \in MinInt..MaxInt, ~(b = MaxInt /\ n < 0)
  PROVE  /\ DifferenceHeld(n, c) > SumHeld(a, b) <=> n - c > a + b
         /\ DifferenceHeld(c, n) > b <=> c - n > b
         /\ n > SumHeld(c, b) <=> n > c + b
BY WindowsAssumption DEF DifferenceHeld, SumHeld, MinInt

\* Java refuses a signature for its times exactly where Python does, unless the caller's
\* skew is the largest number there is and its clock is before the epoch (checkFreshness).
THEOREM JavaWindowIsPythons ==
  ASSUME NEW params \in Stated, NEW allowed \in Allowances, NEW now \in MinInt..MaxInt,
         ~NoLimit(allowed, now)
  PROVE  JavaFreshnessRefusal(params, allowed, now) = Python!FreshnessRefusal(params, allowed, now)
<1>1. /\ allowed.skew \in 1..MaxInt /\ allowed.maxAge \subseteq 1..MaxInt
      /\ params.created \subseteq 0..MaxTime /\ params.expires \subseteq 0..MaxTime
  BY DEF Stated, Allowances, Times
<1>2. JavaTooOld(params, allowed, now) <=> Python!TooOld(params, allowed, now)
  BY <1>1, JavaCompares DEF JavaTooOld, Python!TooOld, NoLimit
<1>3. ASSUME NEW e \in params.expires
      PROVE  now > SumHeld(e, allowed.skew) <=> now > e + allowed.skew
  BY <1>1, WindowsAssumption DEF SumHeld, MinInt
<1>4. QED
  BY <1>2, <1>3 DEF JavaFreshnessRefusal, Python!FreshnessRefusal

-------------------------------------------------------------------------------
(* Places in a text.                                                       *)

\* A nonempty set of naturals has a least element.
LEMMA LeastNatural ==
  ASSUME NEW T, T \subseteq Nat, T # {}
  PROVE  \E x \in T : \A y \in T : ~(y < x)
<1> DEFINE Less == {pair \in Nat \X Nat : pair[1] < pair[2]}
<1>1. IsWellFoundedOn(Less, Nat)
  BY NatLessThanWellFounded, Zenon DEF OpToRel
<1>2. PICK x \in T : \A y \in T : ~ (<<y, x>> \in Less)
  BY <1>1, WFMin, Zenon
<1>3. QED
  BY <1>2

\* What holds of 0, and of each number when it holds of the one before, holds up to n.
LEMMA UpTo ==
  ASSUME NEW n \in Nat, NEW T, 0 \in T, \A k \in 1..n : k - 1 \in T => k \in T
  PROVE  0..n \subseteq T
<1> SUFFICES ASSUME (0..n) \ T # {} PROVE FALSE
  OBVIOUS
<1> DEFINE R == (0..n) \ T
<1>1. R \subseteq Nat /\ R # {}
  OBVIOUS
<1> HIDE DEF R
<1>2. PICK k \in R : \A j \in R : ~(j < k)
  BY <1>1, LeastNatural
<1>3. k \in (0..n) \ T /\ \A j \in (0..n) \ T : ~(j < k)
  BY <1>2 DEF R
<1>4. k \in 1..n
  BY <1>3
<1>5. QED
  BY <1>3, <1>4

\* A place is the first of some characters, or just past the end.
IsFirst(text, chars, i) ==
    /\ i \in 1..Len(text) + 1
    /\ i <= Len(text) => text[i] \in chars
    /\ \A j \in 1..i - 1 : text[j] \notin chars

\* Every text has such a place.
LEMMA FirstIs ==
  ASSUME NEW S, NEW text \in Seq(S), NEW chars
  PROVE  IsFirst(text, chars, FirstOf(text, chars))
<1> DEFINE T == {i \in 1..Len(text) : text[i] \in chars} \cup {Len(text) + 1}
<1>1. Len(text) \in Nat
  OBVIOUS
<1>2. PICK x \in T : \A y \in T : ~(y < x)
  <2>1. T \subseteq Nat /\ T # {}
    BY <1>1
  <2>2. QED
    BY <2>1, LeastNatural
<1>3. IsFirst(text, chars, x)
  BY <1>1, <1>2 DEF IsFirst
<1>4. QED
  BY <1>3 DEF IsFirst, FirstOf

\* ... and only one.
LEMMA FirstIsOne ==
  ASSUME NEW S, NEW text \in Seq(S), NEW chars, NEW i, IsFirst(text, chars, i)
  PROVE  FirstOf(text, chars) = i
<1>1. IsFirst(text, chars, FirstOf(text, chars))
  BY FirstIs
<1> DEFINE k == FirstOf(text, chars)
<1>2. k \in Int /\ i \in Int /\ Len(text) \in Nat
  BY <1>1 DEF IsFirst
<1> HIDE DEF k
<1>3. ~(k < i)
  BY <1>1, <1>2 DEF IsFirst, k
<1>4. ~(i < k)
  BY <1>1, <1>2 DEF IsFirst, k
<1>5. QED
  BY <1>2, <1>3, <1>4 DEF k

\* What stands before it and behind it.
LEMMA Around ==
  ASSUME NEW S, NEW text \in Seq(S), NEW chars
  PROVE  LET k == FirstOf(text, chars)
         IN  /\ k \in 1..Len(text) + 1
             /\ Before(text, chars) \in Seq(S) /\ Len(Before(text, chars)) = k - 1
             /\ \A i \in 1..k - 1 : Before(text, chars)[i] = text[i] /\ text[i] \notin chars
             /\ After(text, chars) \in Seq(S)
             /\ Len(After(text, chars)) = IF k + 1 <= Len(text) THEN Len(text) - k ELSE 0
             /\ \A i \in 1..Len(text) - k : After(text, chars)[i] = text[k + i]
<1> DEFINE k == FirstOf(text, chars)
<1>1. /\ k \in 1..Len(text) + 1 /\ Len(text) \in Nat
      /\ \A i \in 1..k - 1 : text[i] \notin chars
  BY FirstIs DEF IsFirst
<1>2. Before(text, chars) = SubSeq(text, 1, k - 1) /\ After(text, chars) = SubSeq(text, k + 1, Len(text))
  BY DEF Before, After
<1> HIDE DEF k
<1>3. \A i \in 1..Len(text) : text[i] \in S
  OBVIOUS
<1>4. /\ SubSeq(text, 1, k - 1) \in Seq(S) /\ Len(SubSeq(text, 1, k - 1)) = k - 1
      /\ \A i \in 1..k - 1 : SubSeq(text, 1, k - 1)[i] = text[i]
  <2>1. k - 1 \in Int /\ \A i \in 1..k - 1 : text[i] \in S
    BY <1>1, <1>3
  <2>2. /\ SubSeq(text, 1, k - 1) \in Seq(S)
        /\ Len(SubSeq(text, 1, k - 1)) = IF 1 <= k - 1 THEN k - 1 - 1 + 1 ELSE 0
        /\ \A i \in 1..k - 1 - 1 + 1 : SubSeq(text, 1, k - 1)[i] = text[1 + i - 1]
    BY <2>1, SubSeqProperties
  <2>3. QED
    BY <1>1, <2>2
<1>5. /\ SubSeq(text, k + 1, Len(text)) \in Seq(S)
      /\ Len(SubSeq(text, k + 1, Len(text))) = IF k + 1 <= Len(text) THEN Len(text) - k ELSE 0
      /\ \A i \in 1..Len(text) - k : SubSeq(text, k + 1, Len(text))[i] = text[k + i]
  <2>1. k + 1 \in Int /\ Len(text) \in Int /\ \A i \in k + 1..Len(text) : text[i] \in S
    BY <1>1, <1>3
  <2>2. /\ SubSeq(text, k + 1, Len(text)) \in Seq(S)
        /\ Len(SubSeq(text, k + 1, Len(text))) =
             IF k + 1 <= Len(text) THEN Len(text) - (k + 1) + 1 ELSE 0
        /\ \A i \in 1..Len(text) - (k + 1) + 1 : SubSeq(text, k + 1, Len(text))[i] = text[k + 1 + i - 1]
    BY <2>1, SubSeqProperties
  <2>3. QED
    BY <1>1, <2>2
<1>6. QED
  BY <1>1, <1>2, <1>4, <1>5 DEF k

\* A text without user information is all host and port.
LEMMA HostIsAll ==
  ASSUME NEW S, NEW text \in Seq(S), "@" \notin ToSet(text)
  PROVE  HostOf(text) = text
<1> DEFINE n == Len(text)
           r == Reverse(text)
<1>1. n \in Nat /\ DOMAIN text = 1..n /\ \A i \in 1..n : text[i] \in S
  OBVIOUS
<1>2. r \in Seq(S) /\ Len(r) = n /\ \A i \in 1..n : r[i] = text[(n - i) + 1]
  BY <1>1 DEF Reverse
<1>3. \A i \in 1..n : r[i] # "@"
  <2>1. \A i \in 1..n : text[i] # "@"
    BY <1>1 DEF ToSet
  <2>2. QED
    BY <1>1, <1>2, <2>1
<1> HIDE DEF r
<1>4. FirstOf(r, {"@"}) = n + 1
  <2>1. IsFirst(r, {"@"}, n + 1)
    BY <1>1, <1>2, <1>3 DEF IsFirst
  <2>2. QED
    BY <1>2, <2>1, FirstIsOne
<1>5. Before(r, {"@"}) = r
  <2>1. Before(r, {"@"}) = SubSeq(r, 1, n)
    BY <1>1, <1>4 DEF Before
  <2>2. QED
    BY <1>2, <2>1, SubSeqFull
<1>6. Reverse(r) = text
  <2>1. Reverse(r) = [i \in 1..n |-> r[(n - i) + 1]]
    BY <1>2 DEF Reverse
  <2>2. \A i \in 1..n : r[(n - i) + 1] = text[i]
    BY <1>1, <1>2
  <2>3. text = [i \in 1..n |-> text[i]]
    BY <1>1
  <2>4. QED
    BY <2>1, <2>2, <2>3
<1>7. QED
  BY <1>5, <1>6 DEF HostOf, r

-------------------------------------------------------------------------------
(* A fold over the places of a text, by induction on how many there are.   *)

\* A nonempty set of places has its greatest.
LEMMA MaxIs ==
  ASSUME NEW n \in Nat, NEW s \in SUBSET (1..n), s # {}
  PROVE  Max(s) \in s /\ \A y \in s : y <= Max(s)
<1> DEFINE T == {n - x : x \in s}
<1>1. T \subseteq Nat /\ T # {}
  <2>1. PICK x \in s : TRUE
    OBVIOUS
  <2>2. n - x \in T
    OBVIOUS
  <2>3. \A y \in s : y \in 1..n
    OBVIOUS
  <2>4. QED
    BY <2>2, <2>3
<1>2. PICK m \in T : \A y \in T : ~(y < m)
  BY <1>1, LeastNatural
<1>3. PICK x \in s : m = n - x
  BY <1>2
<1>4. \A y \in s : y <= x
  <2> SUFFICES ASSUME NEW y \in s PROVE y <= x
    OBVIOUS
  <2>1. n - y \in T
    OBVIOUS
  <2>2. QED
    BY <1>2, <1>3, <2>1
<1>5. QED
  BY <1>3, <1>4 DEF Max

\* A step over the places of a text, as a fold takes it: the last place of a set last.
IsFold(f, n, S, base, step) ==
    /\ f \in [SUBSET (1..n) -> S] /\ f[{}] = base
    /\ \A s \in SUBSET (1..n) : s # {} => f[s] = step[<<Max(s), f[s \ {Max(s)}]>>]

\* There is such a fold, whatever the step.
LEMMA FoldExists ==
  ASSUME NEW n \in Nat, NEW S, NEW base \in S, NEW step \in [(1..n) \X S -> S]
  PROVE  \E f : IsFold(f, n, S, base, step)
<1> DEFINE Fold(k, f) ==
             \A s \in SUBSET (1..k) : f[s] = IF s = {} THEN base ELSE step[<<Max(s), f[s \ {Max(s)}]>>]
           T == {k \in 0..n : \E f \in [SUBSET (1..k) -> S] : Fold(k, f)}
<1>1. 0 \in T
  <2> DEFINE f == [s \in SUBSET (1..0) |-> base]
  <2>1. f \in [SUBSET (1..0) -> S]
    OBVIOUS
  <2>2. \A s \in SUBSET (1..0) : s = {}
    OBVIOUS
  <2>3. Fold(0, f)
    BY <2>2
  <2> HIDE DEF f, Fold
  <2>4. \E h \in [SUBSET (1..0) -> S] : Fold(0, h)
    BY <2>1, <2>3
  <2>5. 0 \in 0..n
    OBVIOUS
  <2>6. QED
    BY <2>4, <2>5
<1>2. ASSUME NEW k \in 1..n, k - 1 \in T PROVE k \in T
  <2>1. PICK f \in [SUBSET (1..k - 1) -> S] : Fold(k - 1, f)
    BY <1>2
  <2> DEFINE g == [s \in SUBSET (1..k) |-> IF k \in s THEN step[<<k, f[s \ {k}]>>] ELSE f[s]]
  <2>2. g \in [SUBSET (1..k) -> S]
    <3>1. ASSUME NEW s \in SUBSET (1..k) PROVE g[s] \in S
      <4>1. s \ {k} \in SUBSET (1..k - 1)
        OBVIOUS
      <4>2. f[s \ {k}] \in S /\ (k \notin s => f[s] \in S)
        BY <4>1
      <4>3. QED
        BY <4>2
    <3>2. QED
      BY <3>1
  <2>3. ASSUME NEW s \in SUBSET (1..k)
        PROVE  g[s] = IF s = {} THEN base ELSE step[<<Max(s), g[s \ {Max(s)}]>>]
    <3>1. CASE k \in s
      <4>1. Max(s) = k
        <5>1. s \in SUBSET (1..k) /\ s # {} /\ k \in Nat
          BY <3>1
        <5>2. Max(s) \in s /\ \A y \in s : y <= Max(s)
          BY <5>1, MaxIs
        <5>3. Max(s) \in 1..k /\ k <= Max(s)
          BY <3>1, <5>2
        <5>4. QED
          BY <5>3
      <4>2. s \ {k} \in SUBSET (1..k - 1) /\ k \notin s \ {k}
        OBVIOUS
      <4>3. g[s \ {k}] = f[s \ {k}]
        BY <4>2
      <4>4. QED
        BY <3>1, <4>1, <4>3
    <3>2. CASE k \notin s
      <4>1. s \in SUBSET (1..k - 1)
        BY <3>2
      <4>2. g[s] = f[s]
        BY <3>2
      <4>3. CASE s = {}
        BY <2>1, <4>1, <4>2, <4>3
      <4>4. CASE s # {}
        <5>1. s \ {Max(s)} \in SUBSET (1..k) /\ k \notin s \ {Max(s)}
          BY <3>2
        <5>2. g[s \ {Max(s)}] = f[s \ {Max(s)}]
          BY <5>1
        <5>3. f[s] = step[<<Max(s), f[s \ {Max(s)}]>>]
          BY <2>1, <4>1, <4>4
        <5>4. QED
          BY <4>2, <4>4, <5>2, <5>3
      <4>5. QED
        BY <4>3, <4>4
    <3>3. QED
      BY <3>1, <3>2
  <2>4. Fold(k, g)
    BY <2>3
  <2> HIDE DEF g, Fold
  <2>5. QED
    BY <2>2, <2>4
<1>3. n \in T
  <2> HIDE DEF T
  <2>1. 0..n \subseteq T
    BY <1>1, <1>2, UpTo
  <2>2. QED
    BY <2>1
<1>4. PICK f \in [SUBSET (1..n) -> S] : Fold(n, f)
  BY <1>3
<1>5. QED
  BY <1>4 DEF IsFold

\* The places up to one, and those before it.
LEMMA UpToPlace ==
  ASSUME NEW n \in Nat, NEW k \in 1..n
  PROVE  1..k \in SUBSET (1..n) /\ (1..k) \ {k} = 1..(k - 1) /\ 1..k # {} /\ Max(1..k) = k
<1>1. 1..k \in SUBSET (1..n) /\ k \in 1..k
  OBVIOUS
<1>2. \A i : i \in (1..k) \ {k} <=> i \in 1..(k - 1)
  OBVIOUS
<1>3. 1..k # {}
  BY <1>1
<1>4. Max(1..k) \in 1..k /\ \A y \in 1..k : y <= Max(1..k)
  BY <1>1, <1>3, MaxIs
<1>5. Max(1..k) = k
  BY <1>1, <1>4
<1>6. QED
  BY <1>1, <1>2, <1>3, <1>5

\* The value of a digit.
LEMMA DigitValues == \A c \in Digits : DigitValue[c] \in 0..9 /\ (DigitValue[c] = 0 <=> c = "0")
<1>1. DigitValue["0"] = 0 /\ DigitValue["1"] = 1 /\ DigitValue["8"] = 8
  BY Zenon DEF Digits, DigitValue
<1>2. QED
  BY <1>1 DEF Digits

\* A decimal number, place by place.
LEMMA DecimalFolds ==
  ASSUME NEW text \in Seq(Digits)
  PROVE  \E f \in [0..Len(text) -> Nat] :
           /\ f[0] = 0 /\ f[Len(text)] = Decimal(text)
           /\ \A k \in 1..Len(text) : f[k] = f[k - 1] * 10 + DigitValue[text[k]]
<1> DEFINE n == Len(text)
           step == [pair \in (1..n) \X Nat |-> pair[2] * 10 + DigitValue[text[pair[1]]]]
<1>1. n \in Nat /\ DOMAIN text = 1..n /\ \A i \in 1..n : text[i] \in Digits /\ DigitValue[text[i]] \in Nat
  BY DigitValues
<1>2. step \in [(1..n) \X Nat -> Nat]
  BY <1>1
<1> HIDE DEF step, n
<1>3. PICK f : IsFold(f, n, Nat, 0, step)
  <2>1. 0 \in Nat
    OBVIOUS
  <2>2. QED
    BY <1>1, <1>2, <2>1, FoldExists
<1>4. /\ f \in [SUBSET (1..n) -> Nat] /\ f[{}] = 0
      /\ \A s \in SUBSET (1..n) : s # {} => f[s] = step[<<Max(s), f[s \ {Max(s)}]>>]
  BY <1>3 DEF IsFold
<1>5. f = [s \in SUBSET (1..n) |->
             IF s = {} THEN 0 ELSE f[s \ {Max(s)}] * 10 + DigitValue[text[Max(s)]]]
  <2>1. ASSUME NEW s \in SUBSET (1..n), s # {}
        PROVE  step[<<Max(s), f[s \ {Max(s)}]>>] = f[s \ {Max(s)}] * 10 + DigitValue[text[Max(s)]]
    <3>1. Max(s) \in 1..n /\ f[s \ {Max(s)}] \in Nat
      BY <1>1, <1>4, <2>1, MaxIs
    <3>2. QED
      BY <3>1 DEF step
  <2>2. QED
    BY <1>4, <2>1
<1> DEFINE Equation(g) ==
      g = [s \in SUBSET DOMAIN text |->
             IF s = {} THEN 0 ELSE g[s \ {Max(s)}] * 10 + DigitValue[text[Max(s)]]]
           It == CHOOSE g : Equation(g)
<1>6. Decimal(text) = It[DOMAIN text]
  BY Zenon DEF Decimal, FoldLeft, MapThenFoldSet
<1>7. Equation(It)
  <2>1. Equation(f)
    BY <1>1, <1>5
  <2> HIDE DEF Equation
  <2>2. QED
    BY <2>1
<1> HIDE DEF It
<1>8. It[{}] = 0 /\ \A s \in SUBSET (1..n) : s # {} =>
         It[s] = It[s \ {Max(s)}] * 10 + DigitValue[text[Max(s)]]
  BY <1>1, <1>7
<1> DEFINE upto == [k \in 0..n |-> It[1..k]]
<1>9. upto[0] = 0 /\ upto[n] = Decimal(text)
  <2>1. 1..0 = {} /\ 0 \in 0..n /\ n \in 0..n
    BY <1>1
  <2>2. QED
    BY <1>1, <1>6, <1>8, <2>1
<1>10. ASSUME NEW k \in 1..n PROVE upto[k] = upto[k - 1] * 10 + DigitValue[text[k]]
  <2>1. 1..k \in SUBSET (1..n) /\ (1..k) \ {k} = 1..(k - 1) /\ 1..k # {} /\ Max(1..k) = k
    BY <1>1, UpToPlace
  <2>2. k \in 0..n /\ k - 1 \in 0..n
    BY <1>1
  <2>3. It[1..k] = It[1..(k - 1)] * 10 + DigitValue[text[k]]
    BY <1>8, <2>1
  <2>4. QED
    BY <2>2, <2>3
<1>11. DOMAIN upto = 0..n
  OBVIOUS
<1> HIDE DEF upto
<1>12. \A k \in 0..n : upto[k] \in Nat
  <2> DEFINE T == {k \in 0..n : upto[k] \in Nat}
  <2>1. 0 \in T
    <3>1. upto[0] \in Nat /\ 0 \in 0..n
      BY <1>1, <1>9
    <3>2. QED
      BY <3>1
  <2>2. ASSUME NEW k \in 1..n, k - 1 \in T PROVE k \in T
    <3>1. k \in 0..n /\ upto[k - 1] \in Nat /\ DigitValue[text[k]] \in Nat
      BY <1>1, <2>2
    <3>2. upto[k] \in Nat
      BY <1>10, <3>1
    <3>3. QED
      BY <3>1, <3>2
  <2> HIDE DEF T
  <2>3. 0..n \subseteq T
    BY <1>1, <2>1, <2>2, UpTo
  <2>4. QED
    BY <2>3 DEF T
<1>13. upto \in [0..n -> Nat]
  BY <1>12 DEF upto
<1>14. QED
  BY <1>9, <1>10, <1>13 DEF n

-------------------------------------------------------------------------------
(* A text stripped of some characters, and a length.                       *)

\* A text that is the places a to b of another.
IsPart(part, S, text, a, b) ==
    /\ part \in Seq(S) /\ Len(part) = b - a + 1
    /\ \A k \in 1..b - a + 1 : part[k] = text[a + k - 1]

LEMMA PartIs ==
  ASSUME NEW S, NEW text \in Seq(S), NEW a \in 1..Len(text), NEW b \in a..Len(text)
  PROVE  IsPart(SubSeq(text, a, b), S, text, a, b)
<1>1. Len(text) \in Nat /\ a \in Int /\ b \in Int /\ a <= b /\ \A i \in a..b : text[i] \in S
  OBVIOUS
<1>2. /\ SubSeq(text, a, b) \in Seq(S) /\ Len(SubSeq(text, a, b)) = IF a <= b THEN b - a + 1 ELSE 0
      /\ \A i \in 1..b - a + 1 : SubSeq(text, a, b)[i] = text[a + i - 1]
  BY <1>1, SubSeqProperties
<1>3. QED
  BY <1>1, <1>2 DEF IsPart

\* What is stripped at the left is all in the set, and what is left begins outside it.
LEMMA LeftStrippedIs ==
  ASSUME NEW S, NEW text \in Seq(S), NEW chars
  PROVE  \/ LeftStripped(text, chars) = <<>> /\ AllIn(text, chars)
         \/ \E a \in 1..Len(text) :
              /\ text[a] \notin chars /\ \A j \in 1..a - 1 : text[j] \in chars
              /\ IsPart(LeftStripped(text, chars), S, text, a, Len(text))
<1> DEFINE kept == {i \in DOMAIN text : text[i] \notin chars}
           least == CHOOSE i \in kept : \A j \in kept : i <= j
<1>1. LeftStripped(text, chars) = IF kept = {} THEN <<>> ELSE SubSeq(text, least, Len(text))
  BY Zenon DEF LeftStripped
<1>2. Len(text) \in Nat /\ DOMAIN text = 1..Len(text)
  OBVIOUS
<1>3. CASE kept = {}
  <2>1. \A i \in 1..Len(text) : text[i] \in chars
    BY <1>2, <1>3
  <2>2. QED
    BY <1>1, <1>2, <1>3, <2>1 DEF AllIn, ToSet
<1>4. CASE kept # {}
  <2>1. kept \subseteq Nat
    BY <1>2
  <2>2. PICK x \in kept : \A y \in kept : ~(y < x)
    <3> HIDE DEF kept
    <3>1. QED
      BY <1>4, <2>1, LeastNatural
  <2>3. \A y \in kept : x <= y
    BY <2>1, <2>2
  <2>4. least \in kept /\ \A j \in kept : least <= j
    <3> HIDE DEF kept
    <3>1. QED
      BY <2>2, <2>3
  <2> HIDE DEF least
  <2>5. least \in 1..Len(text) /\ text[least] \notin chars /\ \A j \in 1..least - 1 : text[j] \in chars
    BY <1>2, <2>4
  <2>6. IsPart(SubSeq(text, least, Len(text)), S, text, least, Len(text))
    BY <1>2, <2>5, PartIs
  <2> HIDE DEF kept
  <2>7. QED
    BY <1>1, <1>2, <1>4, <2>5, <2>6
<1>5. QED
  BY <1>3, <1>4

\* A text backwards.
LEMMA ReverseIs ==
  ASSUME NEW S, NEW text \in Seq(S)
  PROVE  /\ Reverse(text) \in Seq(S) /\ Len(Reverse(text)) = Len(text)
         /\ \A i \in 1..Len(text) : Reverse(text)[i] = text[Len(text) - i + 1]
BY DEF Reverse

\* What is stripped at both ends.
LEMMA StrippedIs ==
  ASSUME NEW S, NEW text \in Seq(S), NEW chars
  PROVE  \/ Stripped(text, chars) = <<>> /\ AllIn(text, chars)
         \/ \E a \in 1..Len(text) : \E b \in a..Len(text) :
              /\ text[a] \notin chars /\ text[b] \notin chars
              /\ \A j \in 1..Len(text) : j < a \/ b < j => text[j] \in chars
              /\ IsPart(Stripped(text, chars), S, text, a, b)
<1> DEFINE n == Len(text)
           left == LeftStripped(text, chars)
           back == Reverse(left)
           kept == LeftStripped(back, chars)
<1>1. n \in Nat /\ DOMAIN text = 1..n /\ Stripped(text, chars) = Reverse(kept)
  BY DEF Stripped
<1>2. CASE left = <<>> /\ AllIn(text, chars)
  <2>1. back = <<>>
    BY <1>2 DEF Reverse
  <2>2. kept = <<>>
    BY <2>1 DEF LeftStripped
  <2>3. Reverse(kept) = <<>>
    <3>1. <<>> \in Seq(S) /\ Len(<<>>) = 0
      OBVIOUS
    <3>2. Reverse(<<>>) \in Seq(S) /\ Len(Reverse(<<>>)) = 0
      BY <3>1, ReverseIs
    <3>3. QED
      BY <2>2, <3>2, EmptySeq
  <2>4. QED
    BY <1>1, <1>2, <2>3
<1>3. ASSUME NEW a \in 1..n, text[a] \notin chars, \A j \in 1..a - 1 : text[j] \in chars,
             IsPart(left, S, text, a, n)
      PROVE  \E b \in a..n :
               /\ text[b] \notin chars /\ \A j \in 1..n : j < a \/ b < j => text[j] \in chars
               /\ IsPart(Stripped(text, chars), S, text, a, b)
  <2> DEFINE m == n - a + 1
  <2>1. m \in Nat /\ m > 0 /\ left \in Seq(S) /\ Len(left) = m /\ \A k \in 1..m : left[k] = text[a + k - 1]
    BY <1>1, <1>3 DEF IsPart
  <2> HIDE DEF left
  <2>2. back \in Seq(S) /\ Len(back) = m /\ \A k \in 1..m : back[k] = left[m - k + 1]
    <3>1. /\ back \in Seq(S) /\ Len(back) = Len(left)
          /\ \A k \in 1..Len(left) : back[k] = left[Len(left) - k + 1]
      BY <2>1, ReverseIs
    <3>2. QED
      BY <2>1, <3>1
  <2>3. \A k \in 1..m : back[k] = text[n - k + 1]
    <3>1. ASSUME NEW k \in 1..m PROVE back[k] = text[n - k + 1]
      <4>1. m - k + 1 \in 1..m /\ a + (m - k + 1) - 1 = n - k + 1
        BY <1>1, <2>1
      <4>2. back[k] = left[m - k + 1] /\ left[m - k + 1] = text[a + (m - k + 1) - 1]
        BY <2>1, <2>2, <4>1
      <4>3. QED
        BY <4>1, <4>2
    <3>2. QED
      BY <3>1
  <2>4. back[m] = text[a] /\ m \in 1..m
    BY <1>1, <2>1, <2>3
  <2>5. ~AllIn(back, chars)
    <3>1. m \in DOMAIN back
      BY <2>2, <2>4
    <3>2. QED
      BY <1>3, <2>4, <3>1 DEF AllIn, ToSet
  <2> HIDE DEF back
  <2>6. PICK c \in 1..m : /\ back[c] \notin chars /\ \A j \in 1..c - 1 : back[j] \in chars
                          /\ IsPart(kept, S, back, c, m)
    <3>1. \E c \in 1..Len(back) : /\ back[c] \notin chars /\ \A j \in 1..c - 1 : back[j] \in chars
                                  /\ IsPart(kept, S, back, c, Len(back))
      BY <2>2, <2>5, LeftStrippedIs
    <3>2. QED
      BY <2>2, <3>1
  <2> DEFINE b == n - c + 1
             l == m - c + 1
  <2>7. b \in a..n /\ l = b - a + 1 /\ l \in Nat /\ l > 0
    BY <1>1, <2>1
  <2>8. text[b] \notin chars
    BY <2>3, <2>6
  <2>9. ASSUME NEW j \in 1..n, j < a \/ b < j PROVE text[j] \in chars
    <3>1. CASE j < a
      BY <1>3, <3>1
    <3>2. CASE b < j
      <4>1. n - j + 1 \in 1..c - 1 /\ n - j + 1 \in 1..m /\ n - (n - j + 1) + 1 = j
        BY <1>1, <2>1, <2>7, <3>2
      <4>2. back[n - j + 1] \in chars /\ back[n - j + 1] = text[n - (n - j + 1) + 1]
        BY <2>3, <2>6, <4>1
      <4>3. QED
        BY <4>1, <4>2
    <3>3. QED
      BY <2>9, <3>1, <3>2
  <2>10. kept \in Seq(S) /\ Len(kept) = l /\ \A k \in 1..l : kept[k] = back[c + k - 1]
    BY <2>6 DEF IsPart
  <2> HIDE DEF kept
  <2>11. /\ Reverse(kept) \in Seq(S) /\ Len(Reverse(kept)) = l
         /\ \A k \in 1..l : Reverse(kept)[k] = kept[l - k + 1]
    <3>1. /\ Reverse(kept) \in Seq(S) /\ Len(Reverse(kept)) = Len(kept)
          /\ \A k \in 1..Len(kept) : Reverse(kept)[k] = kept[Len(kept) - k + 1]
      BY <2>10, ReverseIs
    <3>2. QED
      BY <2>10, <3>1
  <2>12. ASSUME NEW k \in 1..l PROVE Reverse(kept)[k] = text[a + k - 1]
    <3>1. l - k + 1 \in 1..l /\ c + (l - k + 1) - 1 \in 1..m /\ n - (c + (l - k + 1) - 1) + 1 = a + k - 1
      <4>1. k \in 1..(m - c + 1) /\ c \in 1..m /\ a \in 1..n /\ n \in Nat /\ m = n - a + 1
        BY <1>1, <2>1
      <4> HIDE DEF m, n
      <4>2. QED
        BY <2>1, <4>1
    <3>2. /\ Reverse(kept)[k] = kept[l - k + 1] /\ kept[l - k + 1] = back[c + (l - k + 1) - 1]
          /\ back[c + (l - k + 1) - 1] = text[n - (c + (l - k + 1) - 1) + 1]
      BY <2>3, <2>10, <2>11, <3>1
    <3>3. QED
      BY <3>1, <3>2
  <2>13. IsPart(Reverse(kept), S, text, a, b)
    BY <2>7, <2>11, <2>12 DEF IsPart
  <2> HIDE DEF b
  <2>14. QED
    BY <1>1, <2>7, <2>8, <2>9, <2>13
<1> HIDE DEF kept, back
<1>4. CASE \E a \in 1..n : /\ text[a] \notin chars /\ \A j \in 1..a - 1 : text[j] \in chars
                           /\ IsPart(left, S, text, a, n)
  <2>1. PICK a \in 1..n : /\ text[a] \notin chars /\ \A j \in 1..a - 1 : text[j] \in chars
                          /\ IsPart(left, S, text, a, n)
    BY <1>4
  <2>2. PICK b \in a..n : /\ text[b] \notin chars /\ \A j \in 1..n : j < a \/ b < j => text[j] \in chars
                          /\ IsPart(Stripped(text, chars), S, text, a, b)
    BY <1>3, <2>1
  <2>3. QED
    BY <2>1, <2>2
<1>5. QED
  <2>1. \/ left = <<>> /\ AllIn(text, chars)
        \/ \E a \in 1..n : /\ text[a] \notin chars /\ \A j \in 1..a - 1 : text[j] \in chars
                           /\ IsPart(left, S, text, a, n)
    BY LeftStrippedIs
  <2>2. QED
    BY <1>2, <1>4, <2>1

\* A number of some digits that does not begin with a zero is not zero.
LEMMA LeadingDigitCounts ==
  ASSUME NEW text \in Seq(Digits), text # <<>>, text[1] # "0"
  PROVE  Decimal(text) > 0
<1> DEFINE n == Len(text)
<1>1. n \in Nat /\ n > 0 /\ \A k \in 1..n : text[k] \in Digits /\ DigitValue[text[k]] \in Nat
  BY DigitValues, EmptySeq
<1>2. PICK f \in [0..n -> Nat] :
        /\ f[0] = 0 /\ f[n] = Decimal(text)
        /\ \A k \in 1..n : f[k] = f[k - 1] * 10 + DigitValue[text[k]]
  BY DecimalFolds
<1>3. DigitValue[text[1]] > 0
  <2>1. text[1] \in Digits
    BY <1>1
  <2>2. DigitValue[text[1]] \in 0..9 /\ DigitValue[text[1]] # 0
    BY <2>1, DigitValues
  <2>3. QED
    BY <2>2
<1> DEFINE T == {k \in 0..n : k > 0 => f[k] > 0}
<1>4. 0 \in T
  BY <1>1
<1>5. ASSUME NEW k \in 1..n, k - 1 \in T PROVE k \in T
  <2>1. k \in 0..n /\ k - 1 \in 0..n /\ f[k] = f[k - 1] * 10 + DigitValue[text[k]]
    BY <1>1, <1>2
  <2>2. f[k - 1] \in Nat /\ DigitValue[text[k]] \in Nat
    BY <1>1, <1>2, <2>1
  <2>3. k = 1 => f[k] > 0
    BY <1>2, <1>3, <2>1, <2>2
  <2>4. k # 1 => f[k - 1] > 0
    BY <1>1, <1>5
  <2>5. f[k] > 0
    BY <2>1, <2>2, <2>3, <2>4
  <2>6. QED
    BY <2>1, <2>5
<1> HIDE DEF T
<1>6. 0..n \subseteq T
  BY <1>1, <1>4, <1>5, UpTo
<1>7. n \in T
  BY <1>1, <1>6
<1>8. QED
  BY <1>1, <1>2, <1>7 DEF T

\* A text of digits is zero without its leading zeros exactly where it is all zeros.
LEMMA ZeroIsZeros ==
  ASSUME NEW text \in Seq(Digits)
  PROVE  LET significant == LeftStripped(text, {"0"})
         IN  /\ significant = <<>> /\ Decimal(significant) = 0 <=> AllIn(text, {"0"})
             /\ Decimal(significant) > 0 <=> ~AllIn(text, {"0"})
             /\ significant \in Seq(Digits)
<1> DEFINE significant == LeftStripped(text, {"0"})
<1>1. Len(text) \in Nat /\ DOMAIN text = 1..Len(text)
  OBVIOUS
<1>2. CASE significant = <<>> /\ AllIn(text, {"0"})
  <2>1. <<>> \in Seq(Digits) /\ Len(<<>>) = 0
    OBVIOUS
  <2>2. \E f \in [0..0 -> Nat] : f[0] = 0 /\ f[0] = Decimal(<<>>)
    BY <2>1, DecimalFolds
  <2>3. QED
    BY <1>2, <2>1, <2>2
<1>3. CASE \E a \in 1..Len(text) : /\ text[a] \notin {"0"} /\ \A j \in 1..a - 1 : text[j] \in {"0"}
                                   /\ IsPart(significant, Digits, text, a, Len(text))
  <2>1. PICK a \in 1..Len(text) : text[a] # "0" /\ IsPart(significant, Digits, text, a, Len(text))
    BY <1>3
  <2> HIDE DEF significant
  <2>2. significant \in Seq(Digits) /\ Len(significant) > 0 /\ significant[1] = text[a]
    BY <1>1, <2>1 DEF IsPart
  <2>3. significant # <<>> /\ significant[1] # "0"
    BY <2>1, <2>2
  <2>4. Decimal(significant) > 0
    BY <2>2, <2>3, LeadingDigitCounts
  <2>5. ~AllIn(text, {"0"})
    BY <1>1, <2>1 DEF AllIn, ToSet
  <2>6. QED
    BY <2>2, <2>3, <2>4, <2>5 DEF significant
<1>4. QED
  <2>1. \/ significant = <<>> /\ AllIn(text, {"0"})
        \/ \E a \in 1..Len(text) : /\ text[a] \notin {"0"} /\ \A j \in 1..a - 1 : text[j] \in {"0"}
                                   /\ IsPart(significant, Digits, text, a, Len(text))
    BY LeftStrippedIs
  <2>2. QED
    BY <1>2, <1>3, <2>1

\* A Content-Length says that there is no body exactly where all of it but the whitespace
\* around it is zeros, however many they are.
LEMMA NoBodyIsZeros ==
  ASSUME NEW text \in Seq(STRING)
  PROVE  ~LengthAnnounces(text) <=> Stripped(text, Ows) # <<>> /\ AllIn(Stripped(text, Ows), {"0"})
<1> DEFINE length == Stripped(text, Ows)
           significant == LeftStripped(length, {"0"})
<1>1. length \in Seq(STRING)
  <2>1. \/ length = <<>>
        \/ \E a \in 1..Len(text) : \E b \in a..Len(text) : IsPart(length, STRING, text, a, b)
    <3> HIDE DEF length
    <3>1. QED
      BY StrippedIs DEF length
  <2> HIDE DEF length
  <2>2. \A a, b : IsPart(length, STRING, text, a, b) => length \in Seq(STRING)
    BY Zenon DEF IsPart
  <2>3. <<>> \in Seq(STRING)
    OBVIOUS
  <2>4. QED
    BY <2>1, <2>2, <2>3, Zenon
<1>2. LengthAnnounces(text) <=>
        \/ length = <<>> \/ ~AllIn(length, Digits)
        \/ Len(significant) > LengthDigits \/ Decimal(significant) > 0
  BY DEF LengthAnnounces
<1> HIDE DEF length
<1>3. CASE AllIn(length, Digits)
  <2>1. length \in Seq(Digits)
    <3>1. \A i \in 1..Len(length) : length[i] \in Digits
      BY <1>1, <1>3 DEF AllIn, ToSet
    <3>2. QED
      BY <1>1, <3>1
  <2>2. /\ significant = <<>> /\ Decimal(significant) = 0 <=> AllIn(length, {"0"})
        /\ Decimal(significant) > 0 <=> ~AllIn(length, {"0"})
    BY <2>1, ZeroIsZeros
  <2> HIDE DEF significant
  <2>3. LengthDigits \in Nat
    BY RequestHeadsAssumption
  <2>4. AllIn(length, {"0"}) => ~(Len(significant) > LengthDigits) /\ ~(Decimal(significant) > 0)
    BY <2>2, <2>3
  <2>5. QED
    BY <1>2, <1>3, <2>2, <2>4 DEF length
<1>4. CASE ~AllIn(length, Digits)
  <2>1. ~AllIn(length, {"0"})
    BY <1>4 DEF AllIn, Digits
  <2>2. QED
    BY <1>2, <1>4, <2>1 DEF length
<1>5. QED
  BY <1>3, <1>4

\* Every character of a part, and of two texts together, is in a set.
LEMMA AllInPart ==
  ASSUME NEW S, NEW text \in Seq(S), NEW chars, NEW i \in 1..Len(text) + 1, NEW j \in 0..Len(text)
  PROVE  /\ SubSeq(text, i, j) \in Seq(S)
         /\ AllIn(SubSeq(text, i, j), chars) <=> \A k \in i..j : text[k] \in chars
<1> DEFINE part == SubSeq(text, i, j)
<1>1. Len(text) \in Nat /\ i \in Int /\ j \in Int /\ \A k \in i..j : text[k] \in S
  OBVIOUS
<1>2. /\ part \in Seq(S) /\ Len(part) = IF i <= j THEN j - i + 1 ELSE 0
      /\ \A k \in 1..j - i + 1 : part[k] = text[i + k - 1]
  BY <1>1, SubSeqProperties
<1>3. DOMAIN part = 1..Len(part)
  BY <1>2
<1> HIDE DEF part
<1>4. AllIn(part, chars) <=> \A k \in 1..Len(part) : part[k] \in chars
  BY <1>2, <1>3 DEF AllIn, ToSet
<1>5. ASSUME \A k \in 1..Len(part) : part[k] \in chars, NEW k \in i..j PROVE text[k] \in chars
  <2>1. k - i + 1 \in 1..Len(part) /\ k - i + 1 \in 1..j - i + 1 /\ i + (k - i + 1) - 1 = k
    BY <1>1, <1>2
  <2>2. part[k - i + 1] \in chars /\ part[k - i + 1] = text[i + (k - i + 1) - 1]
    BY <1>2, <1>5, <2>1
  <2>3. QED
    BY <2>1, <2>2
<1>6. ASSUME \A k \in i..j : text[k] \in chars, NEW k \in 1..Len(part) PROVE part[k] \in chars
  <2>1. k \in 1..j - i + 1 /\ i + k - 1 \in i..j
    BY <1>1, <1>2
  <2>2. QED
    BY <1>2, <1>6, <2>1
<1>7. QED
  BY <1>2, <1>4, <1>5, <1>6 DEF part

LEMMA AllInBoth ==
  ASSUME NEW S, NEW a \in Seq(S), NEW b \in Seq(S), NEW chars
  PROVE  AllIn(a \o b, chars) <=> AllIn(a, chars) /\ AllIn(b, chars)
<1>1. /\ a \o b \in Seq(S) /\ Len(a \o b) = Len(a) + Len(b) /\ Len(a) \in Nat /\ Len(b) \in Nat
      /\ DOMAIN a = 1..Len(a) /\ DOMAIN b = 1..Len(b) /\ DOMAIN (a \o b) = 1..Len(a) + Len(b)
      /\ \A i \in 1..Len(a) + Len(b) : (a \o b)[i] = IF i <= Len(a) THEN a[i] ELSE b[i - Len(a)]
  BY ConcatProperties
<1> DEFINE both == a \o b
<1>2. /\ AllIn(a, chars) <=> \A i \in 1..Len(a) : a[i] \in chars
      /\ AllIn(b, chars) <=> \A i \in 1..Len(b) : b[i] \in chars
      /\ AllIn(both, chars) <=> \A i \in 1..Len(a) + Len(b) : both[i] \in chars
  BY <1>1, Zenon DEF AllIn, ToSet
<1>3. ASSUME \A i \in 1..Len(a) + Len(b) : both[i] \in chars
      PROVE  (\A i \in 1..Len(a) : a[i] \in chars) /\ (\A i \in 1..Len(b) : b[i] \in chars)
  <2>1. ASSUME NEW i \in 1..Len(a) PROVE a[i] \in chars
    BY <1>1, <1>3
  <2>2. ASSUME NEW i \in 1..Len(b) PROVE b[i] \in chars
    <3>1. Len(a) + i \in 1..Len(a) + Len(b) /\ ~(Len(a) + i <= Len(a)) /\ Len(a) + i - Len(a) = i
      BY <1>1
    <3>2. both[Len(a) + i] = b[Len(a) + i - Len(a)]
      BY <1>1, <3>1
    <3>3. QED
      BY <1>3, <3>1, <3>2
  <2>3. QED
    BY <2>1, <2>2
<1>4. ASSUME \A i \in 1..Len(a) : a[i] \in chars, \A i \in 1..Len(b) : b[i] \in chars,
             NEW i \in 1..Len(a) + Len(b)
      PROVE  both[i] \in chars
  <2>1. CASE i <= Len(a)
    BY <1>1, <1>4, <2>1
  <2>2. CASE ~(i <= Len(a))
    <3>1. i - Len(a) \in 1..Len(b)
      BY <1>1, <2>2
    <3>2. QED
      BY <1>1, <1>4, <2>2, <3>1
  <2>3. QED
    BY <2>1, <2>2
<1>5. QED
  BY <1>2, <1>3, <1>4

\* Some zeros with nothing but whitespace around them.
ZerosInWhitespace(text, i, j) ==
    /\ i <= j /\ AllIn(SubSeq(text, i, j), {"0"})
    /\ AllIn(SubSeq(text, 1, i - 1) \o SubSeq(text, j + 1, Len(text)), Ows)

LEMMA ZerosAre ==
  ASSUME NEW text \in Seq(STRING), NEW i \in 1..Len(text), NEW j \in 1..Len(text)
  PROVE  ZerosInWhitespace(text, i, j) <=>
           /\ i <= j /\ \A k \in i..j : text[k] = "0"
           /\ \A k \in 1..Len(text) : k < i \/ j < k => text[k] \in Ows
<1> DEFINE n == Len(text)
<1>1. /\ n \in Nat /\ i - 1 \in 0..n /\ j + 1 \in 1..n + 1 /\ 1 \in 1..n + 1 /\ n \in 0..n
      /\ i \in 1..n + 1 /\ j \in 0..n
  OBVIOUS
<1> HIDE DEF n
<1>2. AllIn(SubSeq(text, i, j), {"0"}) <=> \A k \in i..j : text[k] = "0"
  <2>1. AllIn(SubSeq(text, i, j), {"0"}) <=> \A k \in i..j : text[k] \in {"0"}
    BY <1>1, AllInPart DEF n
  <2>2. QED
    BY <2>1
<1>3. /\ SubSeq(text, 1, i - 1) \in Seq(STRING)
      /\ AllIn(SubSeq(text, 1, i - 1), Ows) <=> \A k \in 1..i - 1 : text[k] \in Ows
  BY <1>1, AllInPart DEF n
<1>4. /\ SubSeq(text, j + 1, n) \in Seq(STRING)
      /\ AllIn(SubSeq(text, j + 1, n), Ows) <=> \A k \in j + 1..n : text[k] \in Ows
  BY <1>1, AllInPart DEF n
<1>5. AllIn(SubSeq(text, 1, i - 1) \o SubSeq(text, j + 1, n), Ows)
        <=> (\A k \in 1..i - 1 : text[k] \in Ows) /\ (\A k \in j + 1..n : text[k] \in Ows)
  <2>1. \A a, b \in Seq(STRING) : AllIn(a \o b, Ows) <=> AllIn(a, Ows) /\ AllIn(b, Ows)
    BY AllInBoth
  <2>2. QED
    BY <1>3, <1>4, <2>1, Zenon
<1>6. (\A k \in 1..i - 1 : text[k] \in Ows) /\ (\A k \in j + 1..n : text[k] \in Ows)
        <=> \A k \in 1..n : k < i \/ j < k => text[k] \in Ows
  BY <1>1
<1>7. QED
  BY <1>2, <1>5, <1>6 DEF ZerosInWhitespace, n

LEMMA StrippedToZeros ==
  ASSUME NEW text \in Seq(STRING)
  PROVE  Stripped(text, Ows) # <<>> /\ AllIn(Stripped(text, Ows), {"0"})
           <=> \E i \in 1..Len(text), j \in 1..Len(text) : ZerosInWhitespace(text, i, j)
<1> DEFINE n == Len(text)
           length == Stripped(text, Ows)
<1>1. n \in Nat /\ DOMAIN text = 1..n /\ "0" \notin Ows
  BY DEF Ows
<1>2. CASE length = <<>> /\ AllIn(text, Ows)
  <2>1. \A k \in 1..n : text[k] \in Ows
    BY <1>1, <1>2 DEF AllIn, ToSet
  <2>2. ASSUME NEW i \in 1..n, NEW j \in 1..n, ZerosInWhitespace(text, i, j) PROVE FALSE
    <3>1. i <= j /\ \A k \in i..j : text[k] = "0"
      BY <2>2, ZerosAre
    <3>2. text[i] = "0"
      BY <3>1
    <3>3. QED
      BY <1>1, <2>1, <3>2
  <2>3. QED
    BY <1>2, <2>2
<1>3. ASSUME NEW a \in 1..n, NEW b \in a..n, text[a] \notin Ows, text[b] \notin Ows,
             \A j \in 1..n : j < a \/ b < j => text[j] \in Ows,
             IsPart(length, STRING, text, a, b)
      PROVE  length # <<>> /\ AllIn(length, {"0"})
               <=> \E i \in 1..n, j \in 1..n : ZerosInWhitespace(text, i, j)
  <2>1. /\ length \in Seq(STRING) /\ Len(length) = b - a + 1
        /\ \A k \in 1..b - a + 1 : length[k] = text[a + k - 1]
    BY <1>3, Zenon DEF IsPart
  <2> HIDE DEF length
  <2>2. length # <<>> /\ DOMAIN length = 1..b - a + 1 /\ b \in 1..n
    <3>1. b - a + 1 > 0 /\ Len(<<>>) = 0 /\ b \in 1..n
      BY <1>1
    <3>2. QED
      BY <2>1, <3>1
  <2>3. AllIn(length, {"0"}) <=> \A k \in 1..b - a + 1 : text[a + k - 1] = "0"
    BY <2>1, <2>2 DEF AllIn, ToSet
  <2>4. (\A k \in 1..b - a + 1 : text[a + k - 1] = "0") <=> \A k \in a..b : text[k] = "0"
    <3>1. ASSUME \A k \in 1..b - a + 1 : text[a + k - 1] = "0", NEW k \in a..b PROVE text[k] = "0"
      <4>1. k - a + 1 \in 1..b - a + 1 /\ a + (k - a + 1) - 1 = k
        BY <1>1
      <4>2. text[a + (k - a + 1) - 1] = "0"
        BY <3>1, <4>1
      <4>3. QED
        BY <4>1, <4>2
    <3>2. ASSUME \A k \in a..b : text[k] = "0", NEW k \in 1..b - a + 1 PROVE text[a + k - 1] = "0"
      <4>1. a + k - 1 \in a..b
        BY <1>1
      <4>2. QED
        BY <3>2, <4>1
    <3>3. QED
      BY <3>1, <3>2
  <2>5. (\A k \in a..b : text[k] = "0") <=> ZerosInWhitespace(text, a, b)
    <3>1. a <= b
      OBVIOUS
    <3>2. QED
      BY <1>3, <2>2, <3>1, ZerosAre
  <2>6. ASSUME NEW i \in 1..n, NEW j \in 1..n, ZerosInWhitespace(text, i, j)
        PROVE  \A k \in a..b : text[k] = "0"
    <3>1. /\ i <= j /\ \A k \in i..j : text[k] = "0"
          /\ \A k \in 1..n : k < i \/ j < k => text[k] \in Ows
      BY <2>6, ZerosAre
    <3>2. ~(a < i) /\ ~(j < b)
      BY <1>3, <2>2, <3>1
    <3>3. \A k \in a..b : k \in i..j
      BY <1>1, <2>2, <3>2
    <3>4. QED
      BY <3>1, <3>3
  <2>7. QED
    BY <2>2, <2>3, <2>4, <2>5, <2>6
<1>4. QED
  <2>1. \/ length = <<>> /\ AllIn(text, Ows)
        \/ \E a \in 1..n : \E b \in a..n :
             /\ text[a] \notin Ows /\ text[b] \notin Ows
             /\ \A j \in 1..n : j < a \/ b < j => text[j] \in Ows
             /\ IsPart(length, STRING, text, a, b)
    <3> HIDE DEF length, n
    <3>1. QED
      BY StrippedIs DEF length, n
  <2> HIDE DEF length, n
  <2>2. QED
    BY <1>2, <1>3, <2>1 DEF length, n

-------------------------------------------------------------------------------
(* The authority of a target.                                              *)

\* No release refuses an IP literal in brackets with a port behind it, which is how fiki
\* reads a bracket that a host begins with.
LEMMA LiteralIsRead ==
  ASSUME NEW S, NEW netloc \in Seq(S), NEW release, HostOf(netloc) = netloc,
         Bracketed(netloc), ~Misspelled(netloc)
  PROVE  ~UrlsplitRefuses(netloc, release)
<1> DEFINE n == Len(netloc)
           tail == Tail(netloc)
           f == FirstOf(tail, {"]"})
           inside == Before(tail, {"]"})
           behind == After(tail, {"]"})
<1>1. /\ n \in Nat /\ n > 0 /\ netloc[1] = "[" /\ DOMAIN netloc = 1..n
      /\ tail \in Seq(S) /\ Len(tail) = n - 1
      /\ \A i \in 1..n - 1 : tail[i] = netloc[i + 1]
      /\ tail = SubSeq(netloc, 2, n)
  BY HeadTailProperties, TailIsSubSeq DEF Bracketed
<1>2. /\ "]" \in ToSet(netloc) /\ IpLiteral(inside)
      /\ BehindHost(netloc) # <<>> => BehindHost(netloc)[1] = ":"
  BY DEF Misspelled
<1> HIDE DEF tail
<1>3. /\ f \in 1..n /\ behind \in Seq(S)
      /\ Len(behind) = IF f + 1 <= n - 1 THEN n - 1 - f ELSE 0
      /\ \A i \in 1..n - 1 - f : behind[i] = tail[f + i]
      /\ \A i \in 1..f - 1 : tail[i] # "]"
      /\ f <= n - 1 => tail[f] = "]"
  <2>1. IsFirst(tail, {"]"}, f)
    BY <1>1, FirstIs
  <2>2. f \in 1..n /\ (\A i \in 1..f - 1 : tail[i] # "]") /\ (f <= n - 1 => tail[f] = "]")
    BY <1>1, <2>1 DEF IsFirst
  <2>3. /\ behind \in Seq(S)
        /\ Len(behind) = IF f + 1 <= n - 1 THEN n - 1 - f ELSE 0
        /\ \A i \in 1..n - 1 - f : behind[i] = tail[f + i]
    <3>1. /\ behind \in Seq(S)
          /\ Len(behind) = IF f + 1 <= Len(tail) THEN Len(tail) - f ELSE 0
          /\ \A i \in 1..Len(tail) - f : behind[i] = tail[f + i]
      <4>1. tail \in Seq(S)
        BY <1>1
      <4> HIDE DEF f, behind
      <4>2. QED
        BY <4>1, Around DEF f, behind
    <3>2. QED
      BY <1>1, <3>1
  <2>4. QED
    BY <2>2, <2>3
<1> HIDE DEF f, inside, behind
<1>4. After(netloc, {"["}) = tail
  <2>1. IsFirst(netloc, {"["}, 1)
    BY <1>1 DEF IsFirst
  <2>2. FirstOf(netloc, {"["}) = 1
    BY <2>1, FirstIsOne
  <2>3. QED
    BY <1>1, <2>2 DEF After
<1>5. behind # <<>> => behind[1] = ":"
  <2> SUFFICES ASSUME behind # <<>> PROVE behind[1] = ":"
    OBVIOUS
  <2>1. f + 1 <= n - 1 /\ behind[1] = netloc[f + 2]
    <3>1. Len(behind) # 0
      BY <1>3
    <3>2. f + 1 <= n - 1
      BY <1>3, <3>1
    <3>3. behind[1] = tail[f + 1] /\ tail[f + 1] = netloc[f + 2]
      BY <1>1, <1>3, <3>2
    <3>4. QED
      BY <3>2, <3>3
  <2>2. FirstOf(netloc, {"]"}) = f + 1
    <3>1. netloc[f + 1] = "]" /\ \A i \in 1..f : netloc[i] # "]"
      <4>1. netloc[f + 1] = "]"
        BY <1>1, <1>3, <2>1
      <4>2. ASSUME NEW i \in 1..f, i # 1 PROVE netloc[i] # "]"
        <5>1. i - 1 \in 1..f - 1 /\ i - 1 \in 1..n - 1 /\ (i - 1) + 1 = i
          BY <1>1, <1>3, <2>1, <4>2, SMTT(30)
        <5>2. tail[i - 1] # "]" /\ tail[i - 1] = netloc[(i - 1) + 1]
          BY <1>1, <1>3, <5>1, Zenon
        <5>3. QED
          BY <5>1, <5>2
      <4>3. netloc[1] # "]"
        BY <1>1
      <4>4. QED
        BY <4>1, <4>2, <4>3
    <3>2. IsFirst(netloc, {"]"}, f + 1)
      BY <1>1, <1>3, <2>1, <3>1 DEF IsFirst
    <3>3. QED
      BY <3>2, FirstIsOne
  <2>3. Len(HostIn(netloc)) = f + 1
    <3>1. Before(netloc, {"]"}) \in Seq(S) /\ Len(Before(netloc, {"]"})) = f
      BY <1>3, <2>2, Around
    <3>2. HostIn(netloc) = Append(Before(netloc, {"]"}), "]")
      BY DEF HostIn
    <3>3. QED
      BY <3>1, <3>2
  <2>4. BehindHost(netloc) # <<>> /\ BehindHost(netloc)[1] = netloc[f + 2]
    <3>1. BehindHost(netloc) = SubSeq(netloc, f + 2, n)
      BY <1>3, <2>3 DEF BehindHost
    <3>2. f + 2 \in Int /\ n \in Int /\ f + 2 <= n /\ \A i \in f + 2..n : netloc[i] \in S
      BY <1>1, <1>3, <2>1
    <3>3. /\ Len(SubSeq(netloc, f + 2, n)) = n - (f + 2) + 1
          /\ \A i \in 1..n - (f + 2) + 1 : SubSeq(netloc, f + 2, n)[i] = netloc[f + 2 + i - 1]
      BY <3>2, SubSeqProperties
    <3>4. 1 \in 1..n - (f + 2) + 1 /\ n - (f + 2) + 1 # 0 /\ f + 2 + 1 - 1 = f + 2
      BY <1>3, <3>2
    <3>5. SubSeq(netloc, f + 2, n)[1] = netloc[f + 2 + 1 - 1] /\ Len(SubSeq(netloc, f + 2, n)) # 0
      BY <3>3, <3>4
    <3>6. SubSeq(netloc, f + 2, n) # <<>>
      <4>1. Len(<<>>) = 0
        OBVIOUS
      <4>2. QED
        BY <3>5, <4>1
    <3>7. QED
      BY <3>1, <3>4, <3>5, <3>6
  <2>5. QED
    BY <1>2, <2>1, <2>4
<1>6. inside # <<>> => inside[1] # "V"
  BY <1>2, RequestHeadsAssumption DEF IpLiteral, IpvFuture
<1>7. "[" \in ToSet(netloc) /\ IsPrefix(<<"[">>, netloc)
  <2>1. "[" \in ToSet(netloc)
    BY <1>1 DEF ToSet
  <2>2. SubSeq(netloc, 1, 1) = <<"[">>
    <3>1. netloc[1] \in S /\ 1 \in Int
      BY <1>1
    <3>2. /\ SubSeq(netloc, 1, 1) \in Seq(S) /\ Len(SubSeq(netloc, 1, 1)) = 1
          /\ SubSeq(netloc, 1, 1)[1] = netloc[1]
      <4>1. \A i \in 1..1 : netloc[i] \in S
        BY <3>1
      <4>2. /\ SubSeq(netloc, 1, 1) \in Seq(S)
            /\ Len(SubSeq(netloc, 1, 1)) = IF 1 <= 1 THEN 1 - 1 + 1 ELSE 0
            /\ \A i \in 1..1 - 1 + 1 : SubSeq(netloc, 1, 1)[i] = netloc[1 + i - 1]
        BY <3>1, <4>1, SubSeqProperties
      <4>3. QED
        BY <4>2
    <3>3. SubSeq(netloc, 1, 1) = <<netloc[1]>>
      <4>1. /\ <<netloc[1]>> \in Seq(S) /\ Len(<<netloc[1]>>) = 1
            /\ <<netloc[1]>>[1] = netloc[1]
        BY <3>1
      <4>2. \A i \in 1..Len(SubSeq(netloc, 1, 1)) : SubSeq(netloc, 1, 1)[i] = <<netloc[1]>>[i]
        BY <3>2, <4>1
      <4>3. QED
        BY <3>2, <4>1, <4>2, SeqEqual
    <3>4. QED
      BY <1>1, <3>3
  <2>3. QED
    <3>1. <<"[">> \in Seq({"["}) /\ Len(<<"[">>) = 1
      OBVIOUS
    <3>2. SubSeq(<<"[">>, 1, Len(<<"[">>)) = <<"[">>
      BY <3>1, SubSeqFull
    <3>3. QED
      BY <1>1, <2>1, <2>2, <3>1, <3>2 DEF IsPrefix
<1>8. QED
  BY <1>2, <1>4, <1>5, <1>6, <1>7 DEF UrlsplitRefuses, inside, behind

\* Nor a host and port without brackets.
LEMMA PlainIsRead ==
  ASSUME NEW S, NEW netloc \in Seq(S), NEW scheme, NEW release,
         ~Bracketed(netloc), HostPort(netloc, scheme) # {}
  PROVE  ~UrlsplitRefuses(netloc, release)
<1> DEFINE n == Len(netloc)
           k == FirstOf(netloc, {":"})
           behind == BehindHost(netloc)
<1>1. n \in Nat /\ DOMAIN netloc = 1..n
  OBVIOUS
<1>2. /\ k \in 1..n + 1
      /\ k <= n => netloc[k] = ":"
      /\ Before(netloc, {":"}) \in Seq(S) /\ Len(Before(netloc, {":"})) = k - 1
      /\ \A i \in 1..k - 1 : Before(netloc, {":"})[i] = netloc[i]
  <2>1. k \in 1..n + 1 /\ (k <= n => netloc[k] = ":")
    BY FirstIs DEF IsFirst
  <2>2. /\ Before(netloc, {":"}) \in Seq(S) /\ Len(Before(netloc, {":"})) = k - 1
        /\ \A i \in 1..k - 1 : Before(netloc, {":"})[i] = netloc[i]
    BY Around
  <2>3. QED
    BY <2>1, <2>2
<1>3. HostIn(netloc) = Before(netloc, {":"}) /\ behind = SubSeq(netloc, k, n)
  <2>1. HostIn(netloc) = Before(netloc, {":"})
    BY DEF HostIn
  <2>2. QED
    BY <1>2, <2>1 DEF BehindHost
<1>4. /\ ToSet(HostIn(netloc)) \cap {"[", "]"} = {}
      /\ Port(IF behind = <<>> THEN <<>> ELSE Tail(behind)) # {}
  BY DEF HostPort, Misspelled
<1> HIDE DEF k, behind
<1>5. \A i \in 1..k - 1 : netloc[i] \notin {"[", "]"}
  <2>1. \A i \in 1..k - 1 : Before(netloc, {":"})[i] \in ToSet(Before(netloc, {":"}))
    BY <1>2 DEF ToSet
  <2>2. QED
    BY <1>2, <1>3, <1>4, <2>1
<1>6. \A i \in k + 1..n : netloc[i] \notin {"[", "]"}
  <2> SUFFICES ASSUME NEW i \in k + 1..n PROVE netloc[i] \in Digits
    BY DEF Digits
  <2>1. /\ behind \in Seq(S) /\ Len(behind) = n - k + 1
        /\ \A j \in 1..n - k + 1 : behind[j] = netloc[k + j - 1]
    <3>1. k \in Int /\ n \in Int /\ k <= n /\ \A j \in k..n : netloc[j] \in S
      BY <1>1, <1>2
    <3>2. /\ SubSeq(netloc, k, n) \in Seq(S)
          /\ Len(SubSeq(netloc, k, n)) = IF k <= n THEN n - k + 1 ELSE 0
          /\ \A j \in 1..n - k + 1 : SubSeq(netloc, k, n)[j] = netloc[k + j - 1]
      BY <3>1, SubSeqProperties
    <3>3. QED
      BY <1>3, <3>1, <3>2
  <2>2. behind # <<>> /\ Len(behind) \in Nat
    BY <1>1, <1>2, <2>1
  <2>3. /\ Tail(behind) \in Seq(S) /\ Len(Tail(behind)) = Len(behind) - 1
        /\ \A j \in 1..Len(Tail(behind)) : Tail(behind)[j] = behind[j + 1]
    BY <2>1, <2>2, HeadTailProperties
  <2>4. i - k \in 1..Len(Tail(behind)) /\ Tail(behind)[i - k] = netloc[i]
    BY <1>1, <1>2, <2>1, <2>3
  <2>5. Tail(behind) # <<>> /\ netloc[i] \in ToSet(Tail(behind))
    BY <2>3, <2>4 DEF ToSet
  <2>6. AllIn(Tail(behind), Digits)
    BY <1>4, <2>2, <2>5 DEF Port
  <2>7. QED
    BY <2>5, <2>6 DEF AllIn
<1>7. \A i \in 1..n : netloc[i] \notin {"[", "]"}
  <2>1. \A i \in 1..n : i < k \/ i = k \/ k < i
    BY <1>2
  <2>2. k \in Int /\ (k <= n => netloc[k] \notin {"[", "]"})
    BY <1>2
  <2>3. QED
    BY <1>1, <1>2, <1>5, <1>6, <2>1, <2>2
<1>8. "[" \notin ToSet(netloc) /\ "]" \notin ToSet(netloc)
  BY <1>1, <1>7 DEF ToSet
<1>9. QED
  BY <1>8 DEF UrlsplitRefuses

\* So whatever a release refuses of a target, fiki reads no authority in it.
LEMMA RefusedIsUnread ==
  ASSUME NEW S, NEW netloc \in Seq(S), NEW scheme, NEW release,
         "@" \notin ToSet(netloc), UrlsplitRefuses(netloc, release)
  PROVE  HostPort(netloc, scheme) = {}
<1>1. CASE Bracketed(netloc)
  BY <1>1, HostIsAll, LiteralIsRead DEF HostPort
<1>2. CASE ~Bracketed(netloc)
  BY <1>2, PlainIsRead
<1>3. QED
  BY <1>1, <1>2

\* A target has one authority, or none, under every release.
LEMMA OneAuthority ==
  ASSUME NEW S, NEW url \in Seq(S), NEW header, NEW r1, NEW r2
  PROVE  AuthorityOf(url, header, r1) = AuthorityOf(url, header, r2)
<1> DEFINE netloc == Before(Tail(url), {"/", "?"})
           host == HostOf(netloc)
           scheme == Schemes[Head(url)]
           parts == Parts(scheme, netloc, SubSeq(url, 2 + Len(netloc), Len(url)))
           Unsplit == url = <<>> \/ Len(url) > MaxTargetChars \/ ToSet(url) \cap {" ", "\t", "#"} # {}
           Unread == \/ Head(url) \notin DOMAIN Schemes \/ netloc = <<>>
                     \/ /\ host # <<>> /\ host[1] = "[" /\ "]" \in ToSet(host)
                        /\ ~IpLiteral(Before(Tail(host), {"]"}))
           Of(split) ==
             UNION {IF part.netloc # <<>>
                    THEN (IF "@" \in ToSet(part.netloc) THEN {} ELSE HostPort(part.netloc, part.scheme))
                    ELSE IF ToSet(header) \cap (NotAscii \cup {"@", ","}) # {} THEN {}
                    ELSE HostPort(Stripped(header, Ows), "") : part \in split}
<1>1. \A r : AuthorityOf(url, header, r) = Of(Split(url, r))
  BY DEF AuthorityOf
<1>2. \A r : Split(url, r) = IF Unsplit THEN {}
                             ELSE IF Head(url) = "/" THEN {OriginParts(url)}
                             ELSE IF Unread \/ UrlsplitRefuses(netloc, r) THEN {} ELSE {parts}
  BY DEF Split
<1>3. Of({}) = {}
  OBVIOUS
<1>4. CASE Unsplit \/ Head(url) = "/" \/ Unread
  <2> HIDE DEF Unsplit, Unread, Of, parts, netloc
  <2>1. Split(url, r1) = Split(url, r2)
    BY <1>2, <1>4
  <2>2. QED
    BY <1>1, <2>1
<1>5. CASE ~(Unsplit \/ Head(url) = "/" \/ Unread)
  <2>1. parts.netloc = netloc /\ parts.scheme = scheme /\ netloc # <<>>
    BY <1>5, Zenon DEF Parts
  <2>2. netloc \in Seq(S)
    <3>1. url # <<>>
      BY <1>5, Zenon
    <3>2. Tail(url) \in Seq(S)
      BY <3>1, HeadTailProperties
    <3>3. QED
      BY <3>2, Around
  <2> HIDE DEF Unsplit, Unread, parts, netloc, scheme
  <2>3. Of({parts}) = IF "@" \in ToSet(netloc) THEN {} ELSE HostPort(netloc, scheme)
    BY <2>1, Zenon
  <2>4. ASSUME NEW r PROVE AuthorityOf(url, header, r) = Of({parts})
    <3>1. CASE UrlsplitRefuses(netloc, r)
      <4>1. Split(url, r) = {}
        BY <1>2, <1>5, <3>1
      <4>2. Of({parts}) = {}
        BY <2>2, <2>3, <3>1, RefusedIsUnread, Zenon
      <4> HIDE DEF Of
      <4>3. QED
        BY <1>1, <1>3, <4>1, <4>2
    <3>2. CASE ~UrlsplitRefuses(netloc, r)
      <4>1. Split(url, r) = {parts}
        BY <1>2, <1>5, <3>2
      <4> HIDE DEF Of
      <4>2. QED
        BY <1>1, <4>1
    <3>3. QED
      BY <3>1, <3>2, Zenon
  <2> HIDE DEF Of
  <2>5. QED
    BY <2>4
<1>6. QED
  BY <1>4, <1>5, Zenon

-------------------------------------------------------------------------------
(* Bits in digits of another size: a byte of four, a character of three.   *)

\* A number from digits, place by place.
LEMMA NumberFolds ==
  ASSUME NEW digits \in Seq(Nat), NEW base \in Nat
  PROVE  \E f \in [0..Len(digits) -> Nat] :
           /\ f[0] = 0 /\ f[Len(digits)] = Number(digits, base)
           /\ \A k \in 1..Len(digits) : f[k] = f[k - 1] * base + digits[k]
<1> DEFINE n == Len(digits)
           step == [pair \in (1..n) \X Nat |-> pair[2] * base + digits[pair[1]]]
<1>1. n \in Nat /\ DOMAIN digits = 1..n /\ \A i \in 1..n : digits[i] \in Nat
  OBVIOUS
<1>2. ASSUME NEW x \in Nat, NEW y \in Nat PROVE x * base + y \in Nat
  <2>1. x * base \in Int /\ x * base >= 0
    OBVIOUS
  <2>2. QED
    BY <2>1
<1>3. step \in [(1..n) \X Nat -> Nat]
  BY <1>2, <1>1
<1> HIDE DEF step, n
<1>4. PICK f : IsFold(f, n, Nat, 0, step)
  <2>1. 0 \in Nat
    OBVIOUS
  <2>2. QED
    BY <1>1, <1>3, <2>1, FoldExists
<1>5. /\ f \in [SUBSET (1..n) -> Nat] /\ f[{}] = 0
      /\ \A s \in SUBSET (1..n) : s # {} => f[s] = step[<<Max(s), f[s \ {Max(s)}]>>]
  BY <1>4 DEF IsFold
<1>6. f = [s \in SUBSET (1..n) |-> IF s = {} THEN 0 ELSE f[s \ {Max(s)}] * base + digits[Max(s)]]
  <2>1. ASSUME NEW s \in SUBSET (1..n), s # {}
        PROVE  step[<<Max(s), f[s \ {Max(s)}]>>] = f[s \ {Max(s)}] * base + digits[Max(s)]
    <3>1. Max(s) \in 1..n /\ f[s \ {Max(s)}] \in Nat
      BY <1>1, <1>5, <2>1, MaxIs
    <3>2. QED
      BY <3>1 DEF step
  <2>2. QED
    BY <1>5, <2>1
<1> DEFINE Equation(g) ==
      g = [s \in SUBSET DOMAIN digits |->
             IF s = {} THEN 0 ELSE g[s \ {Max(s)}] * base + digits[Max(s)]]
           It == CHOOSE g : Equation(g)
<1>7. Number(digits, base) = It[DOMAIN digits]
  BY Zenon DEF Number, FoldLeft, MapThenFoldSet
<1>8. Equation(It)
  <2>1. Equation(f)
    BY <1>1, <1>6
  <2> HIDE DEF Equation
  <2>2. QED
    BY <2>1
<1> HIDE DEF It
<1>9. It[{}] = 0 /\ \A s \in SUBSET (1..n) : s # {} =>
         It[s] = It[s \ {Max(s)}] * base + digits[Max(s)]
  BY <1>1, <1>8
<1> DEFINE upto == [k \in 0..n |-> It[1..k]]
<1>10. upto[0] = 0 /\ upto[n] = Number(digits, base)
  <2>1. 1..0 = {} /\ 0 \in 0..n /\ n \in 0..n
    BY <1>1
  <2>2. QED
    BY <1>1, <1>7, <1>9, <2>1
<1>11. ASSUME NEW k \in 1..n PROVE upto[k] = upto[k - 1] * base + digits[k]
  <2>1. 1..k \in SUBSET (1..n) /\ (1..k) \ {k} = 1..(k - 1) /\ 1..k # {} /\ Max(1..k) = k
    BY <1>1, UpToPlace
  <2>2. k \in 0..n /\ k - 1 \in 0..n
    BY <1>1
  <2>3. It[1..k] = It[1..(k - 1)] * base + digits[k]
    BY <1>9, <2>1
  <2>4. QED
    BY <2>2, <2>3
<1>12. DOMAIN upto = 0..n
  OBVIOUS
<1> HIDE DEF upto
<1>13. \A k \in 0..n : upto[k] \in Nat
  <2> DEFINE T == {k \in 0..n : upto[k] \in Nat}
  <2>1. 0 \in T
    <3>1. upto[0] \in Nat /\ 0 \in 0..n
      BY <1>1, <1>10
    <3>2. QED
      BY <3>1
  <2>2. ASSUME NEW k \in 1..n, k - 1 \in T PROVE k \in T
    <3>1. k \in 0..n /\ upto[k - 1] \in Nat /\ digits[k] \in Nat
      BY <1>1, <2>2
    <3>2. upto[k] \in Nat
      BY <1>2, <1>11, <3>1
    <3>3. QED
      BY <3>1, <3>2
  <2> HIDE DEF T
  <2>3. 0..n \subseteq T
    BY <1>1, <2>1, <2>2, UpTo
  <2>4. QED
    BY <2>3 DEF T
<1>14. upto \in [0..n -> Nat]
  BY <1>13 DEF upto
<1>15. QED
  BY <1>10, <1>11, <1>14 DEF n

\* Three and four bits.
LEMMA ThreeBits ==
  ASSUME NEW a \in Nat, NEW b \in Nat, NEW c \in Nat
  PROVE  Number(<<a, b, c>>, 2) = a * 4 + b * 2 + c
<1>1. <<a, b, c>> \in Seq(Nat) /\ Len(<<a, b, c>>) = 3 /\ 2 \in Nat
  OBVIOUS
<1>2. PICK f \in [0..3 -> Nat] :
        /\ f[0] = 0 /\ f[3] = Number(<<a, b, c>>, 2)
        /\ \A k \in 1..3 : f[k] = f[k - 1] * 2 + <<a, b, c>>[k]
  BY <1>1, NumberFolds
<1>3. f[1] = a /\ f[2] = a * 2 + b /\ f[3] = a * 4 + b * 2 + c
  <2>1. f[1] = f[0] * 2 + a /\ f[2] = f[1] * 2 + b /\ f[3] = f[2] * 2 + c
    BY <1>2
  <2>2. QED
    BY <1>2, <2>1
<1>4. QED
  BY <1>2, <1>3

LEMMA FourBits ==
  ASSUME NEW a \in Nat, NEW b \in Nat, NEW c \in Nat, NEW e \in Nat
  PROVE  Number(<<a, b, c, e>>, 2) = a * 8 + b * 4 + c * 2 + e
<1>1. <<a, b, c, e>> \in Seq(Nat) /\ Len(<<a, b, c, e>>) = 4 /\ 2 \in Nat
  OBVIOUS
<1>2. PICK f \in [0..4 -> Nat] :
        /\ f[0] = 0 /\ f[4] = Number(<<a, b, c, e>>, 2)
        /\ \A k \in 1..4 : f[k] = f[k - 1] * 2 + <<a, b, c, e>>[k]
  BY <1>1, NumberFolds
<1>3. f[1] = a /\ f[2] = a * 2 + b /\ f[3] = a * 4 + b * 2 + c /\ f[4] = a * 8 + b * 4 + c * 2 + e
  <2>1. f[1] = f[0] * 2 + a /\ f[2] = f[1] * 2 + b /\ f[3] = f[2] * 2 + c /\ f[4] = f[3] * 2 + e
    BY <1>2
  <2>2. QED
    BY <1>2, <2>1
<1>4. QED
  BY <1>2, <1>3

\* A bit of some digits, from the highest of the first.
Bit(digits, from, k) ==
    IF k \div from + 1 \in DOMAIN digits
    THEN digits[k \div from + 1] \div 2^(from - 1 - (k % from)) % 2 ELSE 0

\* The bits of one digit, of four bits and of three; past the last digit there are none.
LEMMA BitsOfFour ==
  ASSUME NEW digits \in Seq(0..15), NEW i \in Nat
  PROVE  /\ i < Len(digits) =>
              /\ digits[i + 1] \in 0..15
              /\ Bit(digits, 4, 4 * i) = digits[i + 1] \div 8 % 2
              /\ Bit(digits, 4, 4 * i + 1) = digits[i + 1] \div 4 % 2
              /\ Bit(digits, 4, 4 * i + 2) = digits[i + 1] \div 2 % 2
              /\ Bit(digits, 4, 4 * i + 3) = digits[i + 1] % 2
         /\ i >= Len(digits) => Bit(digits, 4, 4 * i) = 0
<1>1. DOMAIN digits = 1..Len(digits) /\ Len(digits) \in Nat
  OBVIOUS
<1>2. i < Len(digits) => digits[i + 1] \in 0..15
  OBVIOUS
<1>3. /\ (4 * i) \div 4 = i /\ (4 * i + 1) \div 4 = i /\ (4 * i + 2) \div 4 = i /\ (4 * i + 3) \div 4 = i
      /\ (4 * i) % 4 = 0 /\ (4 * i + 1) % 4 = 1 /\ (4 * i + 2) % 4 = 2 /\ (4 * i + 3) % 4 = 3
  OBVIOUS
<1>4. 4 - 1 - 0 = 3 /\ 4 - 1 - 1 = 2 /\ 4 - 1 - 2 = 1 /\ 4 - 1 - 3 = 0
  OBVIOUS
<1>5. 2^3 = 8 /\ 2^2 = 4 /\ 2^1 = 2 /\ 2^0 = 1
  OBVIOUS
<1>6. Bit(digits, 4, 4 * i) = IF i + 1 \in DOMAIN digits THEN digits[i + 1] \div 8 % 2 ELSE 0
  BY <1>3, <1>4, <1>5 DEF Bit
<1>7. Bit(digits, 4, 4 * i + 1) = IF i + 1 \in DOMAIN digits THEN digits[i + 1] \div 4 % 2 ELSE 0
  BY <1>3, <1>4, <1>5 DEF Bit
<1>8. Bit(digits, 4, 4 * i + 2) = IF i + 1 \in DOMAIN digits THEN digits[i + 1] \div 2 % 2 ELSE 0
  BY <1>3, <1>4, <1>5 DEF Bit
<1>9. Bit(digits, 4, 4 * i + 3) = IF i + 1 \in DOMAIN digits THEN digits[i + 1] \div 1 % 2 ELSE 0
  BY <1>3, <1>4, <1>5 DEF Bit
<1>10. i < Len(digits) => i + 1 \in DOMAIN digits /\ digits[i + 1] \div 1 = digits[i + 1]
  BY <1>1, <1>2
<1>11. i >= Len(digits) => i + 1 \notin DOMAIN digits
  BY <1>1
<1>12. QED
  BY <1>2, <1>6, <1>7, <1>8, <1>9, <1>10, <1>11

LEMMA BitsOfThree ==
  ASSUME NEW digits \in Seq(0..7), NEW i \in Nat, i < Len(digits)
  PROVE  /\ digits[i + 1] \in 0..7
         /\ Bit(digits, 3, 3 * i) = digits[i + 1] \div 4 % 2
         /\ Bit(digits, 3, 3 * i + 1) = digits[i + 1] \div 2 % 2
         /\ Bit(digits, 3, 3 * i + 2) = digits[i + 1] % 2
<1>1. i + 1 \in DOMAIN digits /\ digits[i + 1] \in 0..7 /\ digits[i + 1] \div 1 = digits[i + 1]
  OBVIOUS
<1>2. /\ (3 * i) \div 3 = i /\ (3 * i + 1) \div 3 = i /\ (3 * i + 2) \div 3 = i
      /\ (3 * i) % 3 = 0 /\ (3 * i + 1) % 3 = 1 /\ (3 * i + 2) % 3 = 2
  OBVIOUS
<1>3. 3 - 1 - 0 = 2 /\ 3 - 1 - 1 = 1 /\ 3 - 1 - 2 = 0
  OBVIOUS
<1>4. 2^2 = 4 /\ 2^1 = 2 /\ 2^0 = 1
  OBVIOUS
<1>5. Bit(digits, 3, 3 * i) = IF i + 1 \in DOMAIN digits THEN digits[i + 1] \div 4 % 2 ELSE 0
  BY <1>2, <1>3, <1>4 DEF Bit
<1>6. Bit(digits, 3, 3 * i + 1) = IF i + 1 \in DOMAIN digits THEN digits[i + 1] \div 2 % 2 ELSE 0
  BY <1>2, <1>3, <1>4 DEF Bit
<1>7. Bit(digits, 3, 3 * i + 2) = IF i + 1 \in DOMAIN digits THEN digits[i + 1] \div 1 % 2 ELSE 0
  BY <1>2, <1>3, <1>4 DEF Bit
<1>8. QED
  BY <1>1, <1>5, <1>6, <1>7

\* Characters of three bits, and bytes of four.
LEMMA RegroupToThree ==
  ASSUME NEW digits, NEW from, NEW n \in Nat, \A k \in 0..3 * n - 1 : Bit(digits, from, k) \in Nat
  PROVE  Regroup(digits, from, 3, n) =
           [i \in 1..n |-> Bit(digits, from, 3 * i - 3) * 4 + Bit(digits, from, 3 * i - 2) * 2
                             + Bit(digits, from, 3 * i - 1)]
<1> DEFINE bit == [k \in 0..3 * n - 1 |-> Bit(digits, from, k)]
<1>1. Regroup(digits, from, 3, n) = [i \in 1..n |-> Number([j \in 1..3 |-> bit[(i - 1) * 3 + j - 1]], 2)]
  BY Zenon DEF Regroup, Bit
<1>2. ASSUME NEW i \in 1..n
      PROVE  Number([j \in 1..3 |-> bit[(i - 1) * 3 + j - 1]], 2) =
               Bit(digits, from, 3 * i - 3) * 4 + Bit(digits, from, 3 * i - 2) * 2 + Bit(digits, from, 3 * i - 1)
  <2>1. /\ 3 * i - 3 \in 0..3 * n - 1 /\ 3 * i - 2 \in 0..3 * n - 1 /\ 3 * i - 1 \in 0..3 * n - 1
        /\ (i - 1) * 3 + 1 - 1 = 3 * i - 3 /\ (i - 1) * 3 + 2 - 1 = 3 * i - 2
        /\ (i - 1) * 3 + 3 - 1 = 3 * i - 1
    OBVIOUS
  <2>2. /\ bit[(i - 1) * 3 + 1 - 1] = Bit(digits, from, 3 * i - 3)
        /\ bit[(i - 1) * 3 + 2 - 1] = Bit(digits, from, 3 * i - 2)
        /\ bit[(i - 1) * 3 + 3 - 1] = Bit(digits, from, 3 * i - 1)
    BY <2>1
  <2> HIDE DEF bit
  <2>3. [j \in 1..3 |-> bit[(i - 1) * 3 + j - 1]] =
          <<Bit(digits, from, 3 * i - 3), Bit(digits, from, 3 * i - 2), Bit(digits, from, 3 * i - 1)>>
    BY <2>2
  <2>4. QED
    BY <2>1, <2>3, ThreeBits
<1> HIDE DEF bit
<1>3. QED
  BY <1>1, <1>2

LEMMA RegroupToFour ==
  ASSUME NEW digits, NEW from, NEW n \in Nat, \A k \in 0..4 * n - 1 : Bit(digits, from, k) \in Nat
  PROVE  Regroup(digits, from, 4, n) =
           [i \in 1..n |-> Bit(digits, from, 4 * i - 4) * 8 + Bit(digits, from, 4 * i - 3) * 4
                             + Bit(digits, from, 4 * i - 2) * 2 + Bit(digits, from, 4 * i - 1)]
<1> DEFINE bit == [k \in 0..4 * n - 1 |-> Bit(digits, from, k)]
<1>1. Regroup(digits, from, 4, n) = [i \in 1..n |-> Number([j \in 1..4 |-> bit[(i - 1) * 4 + j - 1]], 2)]
  BY Zenon DEF Regroup, Bit
<1>2. ASSUME NEW i \in 1..n
      PROVE  Number([j \in 1..4 |-> bit[(i - 1) * 4 + j - 1]], 2) =
               Bit(digits, from, 4 * i - 4) * 8 + Bit(digits, from, 4 * i - 3) * 4
                 + Bit(digits, from, 4 * i - 2) * 2 + Bit(digits, from, 4 * i - 1)
  <2>1. /\ 4 * i - 4 \in 0..4 * n - 1 /\ 4 * i - 3 \in 0..4 * n - 1
        /\ 4 * i - 2 \in 0..4 * n - 1 /\ 4 * i - 1 \in 0..4 * n - 1
        /\ (i - 1) * 4 + 1 - 1 = 4 * i - 4 /\ (i - 1) * 4 + 2 - 1 = 4 * i - 3
        /\ (i - 1) * 4 + 3 - 1 = 4 * i - 2 /\ (i - 1) * 4 + 4 - 1 = 4 * i - 1
    OBVIOUS
  <2>2. /\ bit[(i - 1) * 4 + 1 - 1] = Bit(digits, from, 4 * i - 4)
        /\ bit[(i - 1) * 4 + 2 - 1] = Bit(digits, from, 4 * i - 3)
        /\ bit[(i - 1) * 4 + 3 - 1] = Bit(digits, from, 4 * i - 2)
        /\ bit[(i - 1) * 4 + 4 - 1] = Bit(digits, from, 4 * i - 1)
    BY <2>1
  <2> HIDE DEF bit
  <2>3. [j \in 1..4 |-> bit[(i - 1) * 4 + j - 1]] =
          <<Bit(digits, from, 4 * i - 4), Bit(digits, from, 4 * i - 3),
            Bit(digits, from, 4 * i - 2), Bit(digits, from, 4 * i - 1)>>
    <3> DEFINE these == <<Bit(digits, from, 4 * i - 4), Bit(digits, from, 4 * i - 3),
                          Bit(digits, from, 4 * i - 2), Bit(digits, from, 4 * i - 1)>>
    <3>1. ASSUME NEW j \in 1..4 PROVE bit[(i - 1) * 4 + j - 1] = these[j]
      <4>1. j = 1 \/ j = 2 \/ j = 3 \/ j = 4
        OBVIOUS
      <4>2. QED
        BY <2>2, <4>1
    <3>2. these = [j \in 1..4 |-> these[j]]
      OBVIOUS
    <3> HIDE DEF these
    <3>3. [j \in 1..4 |-> bit[(i - 1) * 4 + j - 1]] = these
      BY <3>1, <3>2
    <3>4. QED
      BY <3>3 DEF these
  <2>4. /\ Bit(digits, from, 4 * i - 4) \in Nat /\ Bit(digits, from, 4 * i - 3) \in Nat
        /\ Bit(digits, from, 4 * i - 2) \in Nat /\ Bit(digits, from, 4 * i - 1) \in Nat
    BY <2>1
  <2> DEFINE a == Bit(digits, from, 4 * i - 4)
             b == Bit(digits, from, 4 * i - 3)
             c == Bit(digits, from, 4 * i - 2)
             e == Bit(digits, from, 4 * i - 1)
  <2>5. a \in Nat /\ b \in Nat /\ c \in Nat /\ e \in Nat
    BY <2>4
  <2> HIDE DEF a, b, c, e
  <2>6. Number(<<a, b, c, e>>, 2) = a * 8 + b * 4 + c * 2 + e
    BY <2>5, FourBits
  <2>7. Number([j \in 1..4 |-> bit[(i - 1) * 4 + j - 1]], 2) = Number(<<a, b, c, e>>, 2)
    BY <2>3 DEF a, b, c, e
  <2>8. QED
    BY <2>6, <2>7 DEF a, b, c, e
<1> HIDE DEF bit
<1>3. QED
  BY <1>1, <1>2

\* Three bytes fill four characters.
LEMMA CharsOfThree ==
  ASSUME NEW x \in 0..15, NEW y \in 0..15, NEW z \in 0..15
  PROVE  Regroup(<<x, y, z>>, 4, 3, 4) =
           <<x \div 2, (x % 2) * 4 + y \div 4, (y % 4) * 2 + z \div 8, z % 8>>
<1> DEFINE bit(k) == Bit(<<x, y, z>>, 4, k)
<1>1. <<x, y, z>> \in Seq(0..15) /\ Len(<<x, y, z>>) = 3
  OBVIOUS
<1>2. /\ bit(0) = x \div 8 % 2 /\ bit(1) = x \div 4 % 2
      /\ bit(2) = x \div 2 % 2 /\ bit(3) = x % 2
  <2>1. 0 \in Nat /\ 0 < 3 /\ <<x, y, z>>[1] = x
    OBVIOUS
  <2>2. 4 * 0 = 0 /\ 4 * 0 + 1 = 1 /\ 4 * 0 + 2 = 2 /\ 4 * 0 + 3 = 3
    OBVIOUS
  <2>3. /\ bit(4 * 0) = <<x, y, z>>[0 + 1] \div 8 % 2
        /\ bit(4 * 0 + 1) = <<x, y, z>>[0 + 1] \div 4 % 2
        /\ bit(4 * 0 + 2) = <<x, y, z>>[0 + 1] \div 2 % 2
        /\ bit(4 * 0 + 3) = <<x, y, z>>[0 + 1] % 2
    BY <1>1, <2>1, BitsOfFour
  <2> HIDE DEF bit
  <2>4. QED
    BY <2>1, <2>2, <2>3
<1>3. /\ bit(4) = y \div 8 % 2 /\ bit(5) = y \div 4 % 2
      /\ bit(6) = y \div 2 % 2 /\ bit(7) = y % 2
  <2>1. 1 \in Nat /\ 1 < 3 /\ <<x, y, z>>[2] = y
    OBVIOUS
  <2>2. 4 * 1 = 4 /\ 4 * 1 + 1 = 5 /\ 4 * 1 + 2 = 6 /\ 4 * 1 + 3 = 7
    OBVIOUS
  <2>3. /\ bit(4 * 1) = <<x, y, z>>[1 + 1] \div 8 % 2
        /\ bit(4 * 1 + 1) = <<x, y, z>>[1 + 1] \div 4 % 2
        /\ bit(4 * 1 + 2) = <<x, y, z>>[1 + 1] \div 2 % 2
        /\ bit(4 * 1 + 3) = <<x, y, z>>[1 + 1] % 2
    BY <1>1, <2>1, BitsOfFour
  <2> HIDE DEF bit
  <2>4. QED
    BY <2>1, <2>2, <2>3
<1>4. /\ bit(8) = z \div 8 % 2 /\ bit(9) = z \div 4 % 2
      /\ bit(10) = z \div 2 % 2 /\ bit(11) = z % 2
  <2>1. 2 \in Nat /\ 2 < 3 /\ <<x, y, z>>[3] = z
    OBVIOUS
  <2>2. 4 * 2 = 8 /\ 4 * 2 + 1 = 9 /\ 4 * 2 + 2 = 10 /\ 4 * 2 + 3 = 11
    OBVIOUS
  <2>3. /\ bit(4 * 2) = <<x, y, z>>[2 + 1] \div 8 % 2
        /\ bit(4 * 2 + 1) = <<x, y, z>>[2 + 1] \div 4 % 2
        /\ bit(4 * 2 + 2) = <<x, y, z>>[2 + 1] \div 2 % 2
        /\ bit(4 * 2 + 3) = <<x, y, z>>[2 + 1] % 2
    BY <1>1, <2>1, BitsOfFour
  <2> HIDE DEF bit
  <2>4. QED
    BY <2>1, <2>2, <2>3
<1> HIDE DEF bit
<1>5. \A k \in 0..11 : bit(k) \in Nat
  <2>1. bit(0) \in Nat /\ bit(1) \in Nat /\ bit(2) \in Nat /\ bit(3) \in Nat /\ bit(4) \in Nat /\ bit(5) \in Nat
    BY <1>2, <1>3, <1>4
  <2>2. bit(6) \in Nat /\ bit(7) \in Nat /\ bit(8) \in Nat /\ bit(9) \in Nat /\ bit(10) \in Nat /\ bit(11) \in Nat
    BY <1>2, <1>3, <1>4
  <2>3. \A k \in 0..11 : \/ k = 0 \/ k = 1 \/ k = 2 \/ k = 3 \/ k = 4 \/ k = 5
                      \/ k = 6 \/ k = 7 \/ k = 8 \/ k = 9 \/ k = 10 \/ k = 11
    OBVIOUS
  <2>4. QED
    BY <2>1, <2>2, <2>3
<1>6. Regroup(<<x, y, z>>, 4, 3, 4) = [i \in 1..4 |-> bit(3 * i - 3) * 4 + bit(3 * i - 2) * 2 + bit(3 * i - 1)]
  <2>1. 4 \in Nat /\ 3 * 4 - 1 = 11
    OBVIOUS
  <2>2. \A k \in 0..3 * 4 - 1 : bit(k) \in Nat
    BY <1>5, <2>1
  <2>3. QED
    BY <2>1, <2>2, RegroupToThree DEF bit
<1>7. bit(0) * 4 + bit(1) * 2 + bit(2) = x \div 2
  <2>1. (x \div 8 % 2) * 4 + (x \div 4 % 2) * 2 + (x \div 2 % 2) = x \div 2
    OBVIOUS
  <2>2. QED
    BY <2>1, <1>2, <1>3, <1>4
<1>8. bit(3) * 4 + bit(4) * 2 + bit(5) = (x % 2) * 4 + y \div 4
  <2>1. (x % 2) * 4 + (y \div 8 % 2) * 2 + (y \div 4 % 2) = (x % 2) * 4 + y \div 4
    OBVIOUS
  <2>2. QED
    BY <2>1, <1>2, <1>3, <1>4
<1>9. bit(6) * 4 + bit(7) * 2 + bit(8) = (y % 4) * 2 + z \div 8
  <2>1. (y \div 2 % 2) * 4 + (y % 2) * 2 + (z \div 8 % 2) = (y % 4) * 2 + z \div 8
    OBVIOUS
  <2>2. QED
    BY <2>1, <1>2, <1>3, <1>4
<1>10. bit(9) * 4 + bit(10) * 2 + bit(11) = z % 8
  <2>1. (z \div 4 % 2) * 4 + (z \div 2 % 2) * 2 + (z % 2) = z % 8
    OBVIOUS
  <2>2. QED
    BY <2>1, <1>2, <1>3, <1>4
<1> DEFINE these == <<x \div 2, (x % 2) * 4 + y \div 4, (y % 4) * 2 + z \div 8, z % 8>>
<1>11. ASSUME NEW i \in 1..4 PROVE bit(3 * i - 3) * 4 + bit(3 * i - 2) * 2 + bit(3 * i - 1) = these[i]
  <2>1. i = 1 \/ i = 2 \/ i = 3 \/ i = 4
    OBVIOUS
  <2>2. CASE i = 1
    <3>1. 3 * i - 3 = 0 /\ 3 * i - 2 = 1 /\ 3 * i - 1 = 2
      BY <2>2
    <3>2. QED
      BY <2>2, <3>1, <1>7
  <2>3. CASE i = 2
    <3>1. 3 * i - 3 = 3 /\ 3 * i - 2 = 4 /\ 3 * i - 1 = 5
      BY <2>3
    <3>2. QED
      BY <2>3, <3>1, <1>8
  <2>4. CASE i = 3
    <3>1. 3 * i - 3 = 6 /\ 3 * i - 2 = 7 /\ 3 * i - 1 = 8
      BY <2>4
    <3>2. QED
      BY <2>4, <3>1, <1>9
  <2>5. CASE i = 4
    <3>1. 3 * i - 3 = 9 /\ 3 * i - 2 = 10 /\ 3 * i - 1 = 11
      BY <2>5
    <3>2. QED
      BY <2>5, <3>1, <1>10
  <2>6. QED
    BY <2>1, <2>2, <2>3, <2>4, <2>5
<1>12. these = [i \in 1..4 |-> these[i]]
  OBVIOUS
<1> HIDE DEF these
<1>13. QED
  BY <1>6, <1>11, <1>12 DEF these

\* Two bytes leave a spare bit in the third.
LEMMA CharsOfTwo ==
  ASSUME NEW x \in 0..15, NEW y \in 0..15
  PROVE  Regroup(<<x, y>>, 4, 3, 3) =
           <<x \div 2, (x % 2) * 4 + y \div 4, (y % 4) * 2>>
<1> DEFINE bit(k) == Bit(<<x, y>>, 4, k)
<1>1. <<x, y>> \in Seq(0..15) /\ Len(<<x, y>>) = 2
  OBVIOUS
<1>2. /\ bit(0) = x \div 8 % 2 /\ bit(1) = x \div 4 % 2
      /\ bit(2) = x \div 2 % 2 /\ bit(3) = x % 2
  <2>1. 0 \in Nat /\ 0 < 2 /\ <<x, y>>[1] = x
    OBVIOUS
  <2>2. 4 * 0 = 0 /\ 4 * 0 + 1 = 1 /\ 4 * 0 + 2 = 2 /\ 4 * 0 + 3 = 3
    OBVIOUS
  <2>3. /\ bit(4 * 0) = <<x, y>>[0 + 1] \div 8 % 2
        /\ bit(4 * 0 + 1) = <<x, y>>[0 + 1] \div 4 % 2
        /\ bit(4 * 0 + 2) = <<x, y>>[0 + 1] \div 2 % 2
        /\ bit(4 * 0 + 3) = <<x, y>>[0 + 1] % 2
    BY <1>1, <2>1, BitsOfFour
  <2> HIDE DEF bit
  <2>4. QED
    BY <2>1, <2>2, <2>3
<1>3. /\ bit(4) = y \div 8 % 2 /\ bit(5) = y \div 4 % 2
      /\ bit(6) = y \div 2 % 2 /\ bit(7) = y % 2
  <2>1. 1 \in Nat /\ 1 < 2 /\ <<x, y>>[2] = y
    OBVIOUS
  <2>2. 4 * 1 = 4 /\ 4 * 1 + 1 = 5 /\ 4 * 1 + 2 = 6 /\ 4 * 1 + 3 = 7
    OBVIOUS
  <2>3. /\ bit(4 * 1) = <<x, y>>[1 + 1] \div 8 % 2
        /\ bit(4 * 1 + 1) = <<x, y>>[1 + 1] \div 4 % 2
        /\ bit(4 * 1 + 2) = <<x, y>>[1 + 1] \div 2 % 2
        /\ bit(4 * 1 + 3) = <<x, y>>[1 + 1] % 2
    BY <1>1, <2>1, BitsOfFour
  <2> HIDE DEF bit
  <2>4. QED
    BY <2>1, <2>2, <2>3
<1>4. bit(8) = 0
  <2>1. 2 \in Nat /\ 2 >= 2 /\ 4 * 2 = 8
    OBVIOUS
  <2>2. bit(4 * 2) = 0
    BY <1>1, <2>1, BitsOfFour
  <2> HIDE DEF bit
  <2>3. QED
    BY <2>1, <2>2
<1> HIDE DEF bit
<1>5. \A k \in 0..8 : bit(k) \in Nat
  <2>1. bit(0) \in Nat /\ bit(1) \in Nat /\ bit(2) \in Nat /\ bit(3) \in Nat
    BY <1>2, <1>3, <1>4
  <2>2. bit(4) \in Nat /\ bit(5) \in Nat /\ bit(6) \in Nat /\ bit(7) \in Nat /\ bit(8) \in Nat
    BY <1>2, <1>3, <1>4
  <2>3. \A k \in 0..8 : k = 0 \/ k = 1 \/ k = 2 \/ k = 3 \/ k = 4 \/ k = 5 \/ k = 6 \/ k = 7 \/ k = 8
    OBVIOUS
  <2>4. QED
    BY <2>1, <2>2, <2>3
<1>6. Regroup(<<x, y>>, 4, 3, 3) = [i \in 1..3 |-> bit(3 * i - 3) * 4 + bit(3 * i - 2) * 2 + bit(3 * i - 1)]
  <2>1. 3 \in Nat /\ 3 * 3 - 1 = 8
    OBVIOUS
  <2>2. \A k \in 0..3 * 3 - 1 : bit(k) \in Nat
    BY <1>5, <2>1
  <2>3. QED
    BY <2>1, <2>2, RegroupToThree DEF bit
<1>7. bit(0) * 4 + bit(1) * 2 + bit(2) = x \div 2
  <2>1. (x \div 8 % 2) * 4 + (x \div 4 % 2) * 2 + (x \div 2 % 2) = x \div 2
    OBVIOUS
  <2>2. QED
    BY <2>1, <1>2, <1>3, <1>4
<1>8. bit(3) * 4 + bit(4) * 2 + bit(5) = (x % 2) * 4 + y \div 4
  <2>1. (x % 2) * 4 + (y \div 8 % 2) * 2 + (y \div 4 % 2) = (x % 2) * 4 + y \div 4
    OBVIOUS
  <2>2. QED
    BY <2>1, <1>2, <1>3, <1>4
<1>9. bit(6) * 4 + bit(7) * 2 + bit(8) = (y % 4) * 2
  <2>1. (y \div 2 % 2) * 4 + (y % 2) * 2 + 0 = (y % 4) * 2
    OBVIOUS
  <2>2. QED
    BY <2>1, <1>2, <1>3, <1>4
<1> DEFINE these == <<x \div 2, (x % 2) * 4 + y \div 4, (y % 4) * 2>>
<1>10. ASSUME NEW i \in 1..3 PROVE bit(3 * i - 3) * 4 + bit(3 * i - 2) * 2 + bit(3 * i - 1) = these[i]
  <2>1. i = 1 \/ i = 2 \/ i = 3
    OBVIOUS
  <2>2. CASE i = 1
    <3>1. 3 * i - 3 = 0 /\ 3 * i - 2 = 1 /\ 3 * i - 1 = 2
      BY <2>2
    <3>2. QED
      BY <2>2, <3>1, <1>7
  <2>3. CASE i = 2
    <3>1. 3 * i - 3 = 3 /\ 3 * i - 2 = 4 /\ 3 * i - 1 = 5
      BY <2>3
    <3>2. QED
      BY <2>3, <3>1, <1>8
  <2>4. CASE i = 3
    <3>1. 3 * i - 3 = 6 /\ 3 * i - 2 = 7 /\ 3 * i - 1 = 8
      BY <2>4
    <3>2. QED
      BY <2>4, <3>1, <1>9
  <2>5. QED
    BY <2>1, <2>2, <2>3, <2>4
<1>11. these = [i \in 1..3 |-> these[i]]
  OBVIOUS
<1> HIDE DEF these
<1>12. QED
  BY <1>6, <1>10, <1>11 DEF these

\* The bytes of four characters, and of three.
LEMMA BytesOfFour ==
  ASSUME NEW a \in 0..7, NEW b \in 0..7, NEW c \in 0..7, NEW e \in 0..7
  PROVE  Regroup(<<a, b, c, e>>, 3, 4, 3) =
           <<a * 2 + b \div 4, (b % 4) * 4 + c \div 2, (c % 2) * 8 + e>>
<1> DEFINE bit(k) == Bit(<<a, b, c, e>>, 3, k)
<1>1. <<a, b, c, e>> \in Seq(0..7) /\ Len(<<a, b, c, e>>) = 4
  OBVIOUS
<1>2. /\ bit(0) = a \div 4 % 2 /\ bit(1) = a \div 2 % 2
      /\ bit(2) = a % 2
  <2>1. 0 \in Nat /\ 0 < 4 /\ <<a, b, c, e>>[1] = a
    OBVIOUS
  <2>2. 3 * 0 = 0 /\ 3 * 0 + 1 = 1 /\ 3 * 0 + 2 = 2
    OBVIOUS
  <2>3. /\ bit(3 * 0) = <<a, b, c, e>>[0 + 1] \div 4 % 2
        /\ bit(3 * 0 + 1) = <<a, b, c, e>>[0 + 1] \div 2 % 2
        /\ bit(3 * 0 + 2) = <<a, b, c, e>>[0 + 1] % 2
    BY <1>1, <2>1, BitsOfThree
  <2> HIDE DEF bit
  <2>4. QED
    BY <2>1, <2>2, <2>3
<1>3. /\ bit(3) = b \div 4 % 2 /\ bit(4) = b \div 2 % 2
      /\ bit(5) = b % 2
  <2>1. 1 \in Nat /\ 1 < 4 /\ <<a, b, c, e>>[2] = b
    OBVIOUS
  <2>2. 3 * 1 = 3 /\ 3 * 1 + 1 = 4 /\ 3 * 1 + 2 = 5
    OBVIOUS
  <2>3. /\ bit(3 * 1) = <<a, b, c, e>>[1 + 1] \div 4 % 2
        /\ bit(3 * 1 + 1) = <<a, b, c, e>>[1 + 1] \div 2 % 2
        /\ bit(3 * 1 + 2) = <<a, b, c, e>>[1 + 1] % 2
    BY <1>1, <2>1, BitsOfThree
  <2> HIDE DEF bit
  <2>4. QED
    BY <2>1, <2>2, <2>3
<1>4. /\ bit(6) = c \div 4 % 2 /\ bit(7) = c \div 2 % 2
      /\ bit(8) = c % 2
  <2>1. 2 \in Nat /\ 2 < 4 /\ <<a, b, c, e>>[3] = c
    OBVIOUS
  <2>2. 3 * 2 = 6 /\ 3 * 2 + 1 = 7 /\ 3 * 2 + 2 = 8
    OBVIOUS
  <2>3. /\ bit(3 * 2) = <<a, b, c, e>>[2 + 1] \div 4 % 2
        /\ bit(3 * 2 + 1) = <<a, b, c, e>>[2 + 1] \div 2 % 2
        /\ bit(3 * 2 + 2) = <<a, b, c, e>>[2 + 1] % 2
    BY <1>1, <2>1, BitsOfThree
  <2> HIDE DEF bit
  <2>4. QED
    BY <2>1, <2>2, <2>3
<1>5. /\ bit(9) = e \div 4 % 2 /\ bit(10) = e \div 2 % 2
      /\ bit(11) = e % 2
  <2>1. 3 \in Nat /\ 3 < 4 /\ <<a, b, c, e>>[4] = e
    OBVIOUS
  <2>2. 3 * 3 = 9 /\ 3 * 3 + 1 = 10 /\ 3 * 3 + 2 = 11
    OBVIOUS
  <2>3. /\ bit(3 * 3) = <<a, b, c, e>>[3 + 1] \div 4 % 2
        /\ bit(3 * 3 + 1) = <<a, b, c, e>>[3 + 1] \div 2 % 2
        /\ bit(3 * 3 + 2) = <<a, b, c, e>>[3 + 1] % 2
    BY <1>1, <2>1, BitsOfThree
  <2> HIDE DEF bit
  <2>4. QED
    BY <2>1, <2>2, <2>3
<1> HIDE DEF bit
<1>6. \A k \in 0..11 : bit(k) \in Nat
  <2>1. bit(0) \in Nat /\ bit(1) \in Nat /\ bit(2) \in Nat /\ bit(3) \in Nat /\ bit(4) \in Nat /\ bit(5) \in Nat
    BY <1>2, <1>3, <1>4, <1>5
  <2>2. bit(6) \in Nat /\ bit(7) \in Nat /\ bit(8) \in Nat /\ bit(9) \in Nat /\ bit(10) \in Nat /\ bit(11) \in Nat
    BY <1>2, <1>3, <1>4, <1>5
  <2>3. \A k \in 0..11 : \/ k = 0 \/ k = 1 \/ k = 2 \/ k = 3 \/ k = 4 \/ k = 5
                      \/ k = 6 \/ k = 7 \/ k = 8 \/ k = 9 \/ k = 10 \/ k = 11
    OBVIOUS
  <2>4. QED
    BY <2>1, <2>2, <2>3
<1>7. Regroup(<<a, b, c, e>>, 3, 4, 3) =
          [i \in 1..3 |-> bit(4 * i - 4) * 8 + bit(4 * i - 3) * 4 + bit(4 * i - 2) * 2 + bit(4 * i - 1)]
  <2>1. 3 \in Nat /\ 4 * 3 - 1 = 11
    OBVIOUS
  <2>2. \A k \in 0..4 * 3 - 1 : bit(k) \in Nat
    BY <1>6, <2>1
  <2>3. QED
    BY <2>1, <2>2, RegroupToFour DEF bit
<1>8. bit(0) * 8 + bit(1) * 4 + bit(2) * 2 + bit(3) = a * 2 + b \div 4
  <2>1. (a \div 4 % 2) * 8 + (a \div 2 % 2) * 4 + (a % 2) * 2 + (b \div 4 % 2) = a * 2 + b \div 4
    OBVIOUS
  <2>2. QED
    BY <2>1, <1>2, <1>3, <1>4, <1>5
<1>9. bit(4) * 8 + bit(5) * 4 + bit(6) * 2 + bit(7) = (b % 4) * 4 + c \div 2
  <2>1. (b \div 2 % 2) * 8 + (b % 2) * 4 + (c \div 4 % 2) * 2 + (c \div 2 % 2) = (b % 4) * 4 + c \div 2
    OBVIOUS
  <2>2. QED
    BY <2>1, <1>2, <1>3, <1>4, <1>5
<1>10. bit(8) * 8 + bit(9) * 4 + bit(10) * 2 + bit(11) = (c % 2) * 8 + e
  <2>1. (c % 2) * 8 + (e \div 4 % 2) * 4 + (e \div 2 % 2) * 2 + (e % 2) = (c % 2) * 8 + e
    OBVIOUS
  <2>2. QED
    BY <2>1, <1>2, <1>3, <1>4, <1>5
<1> DEFINE these == <<a * 2 + b \div 4, (b % 4) * 4 + c \div 2, (c % 2) * 8 + e>>
<1>11. ASSUME NEW i \in 1..3
       PROVE  bit(4 * i - 4) * 8 + bit(4 * i - 3) * 4 + bit(4 * i - 2) * 2 + bit(4 * i - 1) = these[i]
  <2>1. i = 1 \/ i = 2 \/ i = 3
    OBVIOUS
  <2>2. CASE i = 1
    <3>1. 4 * i - 4 = 0 /\ 4 * i - 3 = 1 /\ 4 * i - 2 = 2 /\ 4 * i - 1 = 3
      BY <2>2
    <3>2. QED
      BY <2>2, <3>1, <1>8
  <2>3. CASE i = 2
    <3>1. 4 * i - 4 = 4 /\ 4 * i - 3 = 5 /\ 4 * i - 2 = 6 /\ 4 * i - 1 = 7
      BY <2>3
    <3>2. QED
      BY <2>3, <3>1, <1>9
  <2>4. CASE i = 3
    <3>1. 4 * i - 4 = 8 /\ 4 * i - 3 = 9 /\ 4 * i - 2 = 10 /\ 4 * i - 1 = 11
      BY <2>4
    <3>2. QED
      BY <2>4, <3>1, <1>10
  <2>5. QED
    BY <2>1, <2>2, <2>3, <2>4
<1>12. these = [i \in 1..3 |-> these[i]]
  OBVIOUS
<1> HIDE DEF these
<1>13. QED
  BY <1>7, <1>11, <1>12 DEF these

LEMMA BytesOfThree ==
  ASSUME NEW a \in 0..7, NEW b \in 0..7, NEW c \in 0..7
  PROVE  Regroup(<<a, b, c>>, 3, 4, 2) =
           <<a * 2 + b \div 4, (b % 4) * 4 + c \div 2>>
<1> DEFINE bit(k) == Bit(<<a, b, c>>, 3, k)
<1>1. <<a, b, c>> \in Seq(0..7) /\ Len(<<a, b, c>>) = 3
  OBVIOUS
<1>2. /\ bit(0) = a \div 4 % 2 /\ bit(1) = a \div 2 % 2
      /\ bit(2) = a % 2
  <2>1. 0 \in Nat /\ 0 < 3 /\ <<a, b, c>>[1] = a
    OBVIOUS
  <2>2. 3 * 0 = 0 /\ 3 * 0 + 1 = 1 /\ 3 * 0 + 2 = 2
    OBVIOUS
  <2>3. /\ bit(3 * 0) = <<a, b, c>>[0 + 1] \div 4 % 2
        /\ bit(3 * 0 + 1) = <<a, b, c>>[0 + 1] \div 2 % 2
        /\ bit(3 * 0 + 2) = <<a, b, c>>[0 + 1] % 2
    BY <1>1, <2>1, BitsOfThree
  <2> HIDE DEF bit
  <2>4. QED
    BY <2>1, <2>2, <2>3
<1>3. /\ bit(3) = b \div 4 % 2 /\ bit(4) = b \div 2 % 2
      /\ bit(5) = b % 2
  <2>1. 1 \in Nat /\ 1 < 3 /\ <<a, b, c>>[2] = b
    OBVIOUS
  <2>2. 3 * 1 = 3 /\ 3 * 1 + 1 = 4 /\ 3 * 1 + 2 = 5
    OBVIOUS
  <2>3. /\ bit(3 * 1) = <<a, b, c>>[1 + 1] \div 4 % 2
        /\ bit(3 * 1 + 1) = <<a, b, c>>[1 + 1] \div 2 % 2
        /\ bit(3 * 1 + 2) = <<a, b, c>>[1 + 1] % 2
    BY <1>1, <2>1, BitsOfThree
  <2> HIDE DEF bit
  <2>4. QED
    BY <2>1, <2>2, <2>3
<1>4. /\ bit(6) = c \div 4 % 2 /\ bit(7) = c \div 2 % 2
      /\ bit(8) = c % 2
  <2>1. 2 \in Nat /\ 2 < 3 /\ <<a, b, c>>[3] = c
    OBVIOUS
  <2>2. 3 * 2 = 6 /\ 3 * 2 + 1 = 7 /\ 3 * 2 + 2 = 8
    OBVIOUS
  <2>3. /\ bit(3 * 2) = <<a, b, c>>[2 + 1] \div 4 % 2
        /\ bit(3 * 2 + 1) = <<a, b, c>>[2 + 1] \div 2 % 2
        /\ bit(3 * 2 + 2) = <<a, b, c>>[2 + 1] % 2
    BY <1>1, <2>1, BitsOfThree
  <2> HIDE DEF bit
  <2>4. QED
    BY <2>1, <2>2, <2>3
<1> HIDE DEF bit
<1>5. \A k \in 0..7 : bit(k) \in Nat
  <2>1. bit(0) \in Nat /\ bit(1) \in Nat /\ bit(2) \in Nat /\ bit(3) \in Nat
    BY <1>2, <1>3, <1>4
  <2>2. bit(4) \in Nat /\ bit(5) \in Nat /\ bit(6) \in Nat /\ bit(7) \in Nat
    BY <1>2, <1>3, <1>4
  <2>3. \A k \in 0..7 : k = 0 \/ k = 1 \/ k = 2 \/ k = 3 \/ k = 4 \/ k = 5 \/ k = 6 \/ k = 7
    OBVIOUS
  <2>4. QED
    BY <2>1, <2>2, <2>3
<1>6. Regroup(<<a, b, c>>, 3, 4, 2) =
          [i \in 1..2 |-> bit(4 * i - 4) * 8 + bit(4 * i - 3) * 4 + bit(4 * i - 2) * 2 + bit(4 * i - 1)]
  <2>1. 2 \in Nat /\ 4 * 2 - 1 = 7
    OBVIOUS
  <2>2. \A k \in 0..4 * 2 - 1 : bit(k) \in Nat
    BY <1>5, <2>1
  <2>3. QED
    BY <2>1, <2>2, RegroupToFour DEF bit
<1>7. bit(0) * 8 + bit(1) * 4 + bit(2) * 2 + bit(3) = a * 2 + b \div 4
  <2>1. (a \div 4 % 2) * 8 + (a \div 2 % 2) * 4 + (a % 2) * 2 + (b \div 4 % 2) = a * 2 + b \div 4
    OBVIOUS
  <2>2. QED
    BY <2>1, <1>2, <1>3, <1>4
<1>8. bit(4) * 8 + bit(5) * 4 + bit(6) * 2 + bit(7) = (b % 4) * 4 + c \div 2
  <2>1. (b \div 2 % 2) * 8 + (b % 2) * 4 + (c \div 4 % 2) * 2 + (c \div 2 % 2) = (b % 4) * 4 + c \div 2
    OBVIOUS
  <2>2. QED
    BY <2>1, <1>2, <1>3, <1>4
<1> DEFINE these == <<a * 2 + b \div 4, (b % 4) * 4 + c \div 2>>
<1>9. ASSUME NEW i \in 1..2
       PROVE  bit(4 * i - 4) * 8 + bit(4 * i - 3) * 4 + bit(4 * i - 2) * 2 + bit(4 * i - 1) = these[i]
  <2>1. i = 1 \/ i = 2
    OBVIOUS
  <2>2. CASE i = 1
    <3>1. 4 * i - 4 = 0 /\ 4 * i - 3 = 1 /\ 4 * i - 2 = 2 /\ 4 * i - 1 = 3
      BY <2>2
    <3>2. QED
      BY <2>2, <3>1, <1>7
  <2>3. CASE i = 2
    <3>1. 4 * i - 4 = 4 /\ 4 * i - 3 = 5 /\ 4 * i - 2 = 6 /\ 4 * i - 1 = 7
      BY <2>3
    <3>2. QED
      BY <2>3, <3>1, <1>8
  <2>4. QED
    BY <2>1, <2>2, <2>3
<1>10. these = [i \in 1..2 |-> these[i]]
  OBVIOUS
<1> HIDE DEF these
<1>11. QED
  BY <1>6, <1>9, <1>10 DEF these

-------------------------------------------------------------------------------
(* Base64url: what is written is read, in one way, and what is read is     *)
(* bytes.                                                                  *)

\* A character of a text: a string, or a literal, which the provers do not know to be one.
Letter == STRING \cup ToSet(Url) \cup {"="}

\* A character of base64url has one value, and none of them is the padding's.
LEMMA UrlIs ==
  /\ \A v \in 0..7 : Url[v + 1] \in ToSet(Url) /\ IndexIn(Url, Url[v + 1]) = v /\ Url[v + 1] \in Letter
  /\ \A c \in ToSet(Url) : c # "=" /\ IndexIn(Url, c) \in 0..7
  /\ Url[1] = "A"
<1>1. /\ DOMAIN Url = 1..8 /\ Url[1] = "A" /\ Url[2] = "B" /\ Url[3] = "C" /\ Url[4] = "D"
      /\ Url[5] = "E" /\ Url[6] = "F" /\ Url[7] = "-" /\ Url[8] = "_"
  BY DEF Url
<1>2. ToSet(Url) = {Url[i] : i \in 1..8}
  BY <1>1, Zenon DEF ToSet
<1>3. \A i, j \in 1..8 : Url[i] = Url[j] => i = j
  <2>1. \A i \in 1..8 : i = 1 \/ i = 2 \/ i = 3 \/ i = 4 \/ i = 5 \/ i = 6 \/ i = 7 \/ i = 8
    OBVIOUS
  <2>2. QED
    BY <1>1, <2>1, Zenon
<1>4. \A i \in 1..8 : Url[i] # "="
  <2>1. \A i \in 1..8 : i = 1 \/ i = 2 \/ i = 3 \/ i = 4 \/ i = 5 \/ i = 6 \/ i = 7 \/ i = 8
    OBVIOUS
  <2>2. QED
    BY <1>1, <2>1, Zenon
<1>5. ASSUME NEW i \in 1..8 PROVE IndexIn(Url, Url[i]) = i - 1
  <2>1. (CHOOSE j \in DOMAIN Url : Url[j] = Url[i]) = i
    BY <1>1, <1>3, Zenon
  <2>2. QED
    BY <2>1 DEF IndexIn
<1>6. ASSUME NEW v \in 0..7
      PROVE  Url[v + 1] \in ToSet(Url) /\ IndexIn(Url, Url[v + 1]) = v /\ Url[v + 1] \in Letter
  <2>1. v + 1 \in 1..8 /\ v + 1 - 1 = v
    OBVIOUS
  <2>2. QED
    BY <1>2, <1>4, <1>5, <2>1 DEF Letter
<1>7. ASSUME NEW c \in ToSet(Url) PROVE c # "=" /\ IndexIn(Url, c) \in 0..7
  <2>1. PICK i \in 1..8 : c = Url[i]
    BY <1>2
  <2>2. QED
    BY <1>4, <1>5, <2>1
<1>8. QED
  BY <1>1, <1>6, <1>7, Zenon

\* Padding is up to three of its character.
LEMMA PadIs ==
  ASSUME NEW n \in Nat
  PROVE  /\ PadFor(n) \in Seq({"="}) /\ Len(PadFor(n)) \in Nat
         /\ Len(PadFor(n)) = (4 - (n % 4)) % 4 /\ Len(PadFor(n)) \in 0..3
         /\ \A i \in 1..Len(PadFor(n)) : PadFor(n)[i] = "="
<1>1. (4 - (n % 4)) % 4 \in 0..3
  OBVIOUS
<1>2. QED
  BY <1>1 DEF PadFor

\* Some characters that a text is, but for its padding: no two texts are.
IsBody(body, text) ==
    body \in Seq(Letter) /\ text = body \o PadFor(Len(body)) /\ Over(Url, body)

LEMMA BodyIsLongest ==
  ASSUME NEW a, NEW b, NEW text, IsBody(a, text), IsBody(b, text)
  PROVE  ~(Len(a) < Len(b))
<1> SUFFICES ASSUME Len(a) < Len(b) PROVE FALSE
  OBVIOUS
<1>1. /\ Len(a) \in Nat /\ Len(b) \in Nat /\ a \in Seq(Letter) /\ b \in Seq(Letter)
      /\ DOMAIN b = 1..Len(b)
  BY DEF IsBody
<1>2. PadFor(Len(a)) \in Seq(Letter) /\ PadFor(Len(b)) \in Seq(Letter)
  <2>1. {"="} \subseteq Letter
    BY DEF Letter
  <2>2. PadFor(Len(a)) \in Seq({"="}) /\ PadFor(Len(b)) \in Seq({"="})
    BY <1>1, PadIs
  <2>3. QED
    BY <2>1, <2>2, SeqMonotonic
<1>3. /\ text \in Seq(Letter) /\ Len(text) = Len(a) + Len(PadFor(Len(a)))
      /\ \A i \in 1..Len(text) : text[i] = IF i <= Len(a) THEN a[i] ELSE PadFor(Len(a))[i - Len(a)]
  <2>1. text = a \o PadFor(Len(a))
    BY DEF IsBody
  <2>2. /\ a \o PadFor(Len(a)) \in Seq(Letter)
        /\ Len(a \o PadFor(Len(a))) = Len(a) + Len(PadFor(Len(a)))
        /\ \A i \in 1..Len(a) + Len(PadFor(Len(a))) :
             (a \o PadFor(Len(a)))[i] = IF i <= Len(a) THEN a[i] ELSE PadFor(Len(a))[i - Len(a)]
    BY <1>1, <1>2, ConcatProperties
  <2>3. QED
    BY <2>1, <2>2
<1>4. /\ Len(text) = Len(b) + Len(PadFor(Len(b)))
      /\ \A i \in 1..Len(b) : text[i] = b[i]
  <2>1. text = b \o PadFor(Len(b))
    BY DEF IsBody
  <2>2. /\ Len(b \o PadFor(Len(b))) = Len(b) + Len(PadFor(Len(b)))
        /\ \A i \in 1..Len(b) + Len(PadFor(Len(b))) :
             (b \o PadFor(Len(b)))[i] = IF i <= Len(b) THEN b[i] ELSE PadFor(Len(b))[i - Len(b)]
    BY <1>1, <1>2, ConcatProperties
  <2>3. Len(PadFor(Len(b))) \in Nat /\ \A i \in 1..Len(b) : i \in 1..Len(b) + Len(PadFor(Len(b))) /\ i <= Len(b)
    BY <1>1, PadIs
  <2>4. QED
    BY <2>1, <2>2, <2>3
<1> DEFINE i == Len(a) + 1
<1>5. i \in 1..Len(b) /\ i \in 1..Len(text) /\ ~(i <= Len(a)) /\ i - Len(a) = 1 /\ 1 \in 1..Len(PadFor(Len(a)))
  <2>1. Len(PadFor(Len(a))) \in Nat /\ Len(PadFor(Len(b))) \in Nat
    BY <1>1, PadIs
  <2>2. Len(a) + Len(PadFor(Len(a))) = Len(b) + Len(PadFor(Len(b)))
    BY <1>3, <1>4
  <2>3. QED
    BY <1>1, <1>3, <2>1, <2>2
<1>6. text[i] = "="
  <2>1. text[i] = PadFor(Len(a))[1]
    BY <1>3, <1>5
  <2>2. QED
    BY <1>1, <1>5, <2>1, PadIs
<1>7. text[i] = b[i] /\ b[i] \in ToSet(Url)
  BY <1>1, <1>4, <1>5 DEF IsBody, Over
<1>8. QED
  BY <1>6, <1>7, UrlIs

\* So what is decoded is found.
LEMMA OneBody ==
  ASSUME NEW body, NEW text, IsBody(body, text), Len(body) % 4 # 1
  PROVE  Bodies(text, Url) = {body}
<1>1. body \in Seq(Letter) /\ text = body \o PadFor(Len(body)) /\ Over(Url, body)
  BY Zenon DEF IsBody
<1>2. body \in Seq(Letter) /\ Len(body) \in Nat /\ text = body \o PadFor(Len(body)) /\ Over(Url, body)
  BY <1>1
<1>3. PadFor(Len(body)) \in Seq(Letter) /\ Len(PadFor(Len(body))) \in Nat
  <2>1. {"="} \subseteq Letter
    BY DEF Letter
  <2>2. PadFor(Len(body)) \in Seq({"="}) /\ Len(PadFor(Len(body))) \in Nat
    BY <1>2, PadIs
  <2>3. QED
    BY <2>1, <2>2, SeqMonotonic
<1>4. /\ text \in Seq(Letter) /\ Len(text) \in Nat /\ Len(body) \in 0..Len(text)
      /\ \A i \in 1..Len(body) : text[i] = body[i]
  <2>1. /\ text \in Seq(Letter) /\ Len(text) = Len(body) + Len(PadFor(Len(body)))
        /\ \A i \in 1..Len(body) + Len(PadFor(Len(body))) :
             text[i] = IF i <= Len(body) THEN body[i] ELSE PadFor(Len(body))[i - Len(body)]
    BY <1>2, <1>3, ConcatProperties
  <2>2. QED
    BY <1>2, <1>3, <2>1
<1>5. \A n \in 0..Len(text) :
        /\ SubSeq(text, 1, n) \in Seq(Letter) /\ Len(SubSeq(text, 1, n)) = n
        /\ \A i \in 1..n : SubSeq(text, 1, n)[i] = text[i]
  <2>1. ASSUME NEW n \in 0..Len(text)
        PROVE  /\ SubSeq(text, 1, n) \in Seq(Letter) /\ Len(SubSeq(text, 1, n)) = n
               /\ \A i \in 1..n : SubSeq(text, 1, n)[i] = text[i]
    <3>1. n \in Int /\ 1 \in Int /\ \A i \in 1..n : text[i] \in Letter
      BY <1>4
    <3>2. /\ SubSeq(text, 1, n) \in Seq(Letter)
          /\ Len(SubSeq(text, 1, n)) = IF 1 <= n THEN n - 1 + 1 ELSE 0
          /\ \A i \in 1..n - 1 + 1 : SubSeq(text, 1, n)[i] = text[1 + i - 1]
      BY <3>1, SubSeqProperties
    <3>3. QED
      BY <3>1, <3>2
  <2>2. QED
    BY <2>1
<1>6. SubSeq(text, 1, Len(body)) = body
  <2>1. /\ SubSeq(text, 1, Len(body)) \in Seq(Letter) /\ Len(SubSeq(text, 1, Len(body))) = Len(body)
        /\ \A i \in 1..Len(body) : SubSeq(text, 1, Len(body))[i] = body[i]
    BY <1>4, <1>5, SMTT(30)
  <2>2. QED
    BY <1>2, <2>1, SeqEqual
<1>7. body \in Bodies(text, Url)
  BY <1>2, <1>4, <1>6, Zenon DEF Bodies
<1>8. ASSUME NEW other \in Bodies(text, Url) PROVE other = body
  <2>1. PICK n \in 0..Len(text) : other = SubSeq(text, 1, n)
    BY DEF Bodies
  <2>2. other \in Seq(Letter) /\ Len(other) = n /\ n \in Nat
    BY <1>4, <1>5, <2>1
  <2>3. IsBody(other, text)
    BY <2>2 DEF Bodies, IsBody
  <2>4. ~(Len(other) < Len(body)) /\ ~(Len(body) < Len(other))
    BY <2>3, BodyIsLongest
  <2>5. n = Len(body)
    BY <1>2, <2>2, <2>4
  <2>6. QED
    BY <1>6, <2>1, <2>5
<1>9. QED
  BY <1>7, <1>8

\* The characters of values.
CharsOf(values) == [i \in DOMAIN values |-> Url[values[i] + 1]]

LEMMA WrittenIs ==
  ASSUME NEW values \in Seq(0..7)
  PROVE  /\ CharsOf(values) \in Seq(Letter) /\ Len(CharsOf(values)) = Len(values)
         /\ DOMAIN CharsOf(values) = DOMAIN values /\ Over(Url, CharsOf(values))
         /\ [i \in DOMAIN CharsOf(values) |-> IndexIn(Url, CharsOf(values)[i])] = values
<1>1. DOMAIN values = 1..Len(values) /\ Len(values) \in Nat /\ \A i \in 1..Len(values) : values[i] \in 0..7
  OBVIOUS
<1>2. /\ \A i \in 1..Len(values) : CharsOf(values)[i] = Url[values[i] + 1]
      /\ DOMAIN CharsOf(values) = 1..Len(values)
  BY <1>1 DEF CharsOf
<1>3. \A i \in 1..Len(values) :
        /\ CharsOf(values)[i] \in ToSet(Url) /\ CharsOf(values)[i] \in Letter
        /\ IndexIn(Url, CharsOf(values)[i]) = values[i]
  BY <1>1, <1>2, UrlIs
<1>4. CharsOf(values) = [i \in 1..Len(values) |-> CharsOf(values)[i]]
  BY <1>1 DEF CharsOf
<1>5. CharsOf(values) \in Seq(Letter) /\ Len(CharsOf(values)) = Len(values)
  <2> DEFINE w == CharsOf(values)
  <2>1. w = [i \in 1..Len(values) |-> w[i]] /\ \A i \in 1..Len(values) : w[i] \in Letter
    BY <1>3, <1>4
  <2> HIDE DEF w
  <2>2. w \in Seq(Letter)
    BY <1>1, <2>1, IsASeq
  <2>3. Len(w) = Len(values)
    BY <1>1, <2>1, <2>2
  <2>4. QED
    BY <2>2, <2>3 DEF w
<1>6. Over(Url, CharsOf(values))
  BY <1>2, <1>3 DEF Over
<1>7. [i \in 1..Len(values) |-> IndexIn(Url, CharsOf(values)[i])] = values
  <2>1. values = [i \in 1..Len(values) |-> values[i]]
    BY <1>1
  <2>2. QED
    BY <1>3, <2>1
<1>8. QED
  BY <1>1, <1>2, <1>5, <1>6, <1>7

\* What is written is read.
LEMMA WrittenDecodes ==
  ASSUME NEW values \in Seq(0..7), Len(values) % 4 # 1
  PROVE  B64Decode(CharsOf(values) \o PadFor(Len(values)), Url) =
           {Regroup(values, CharBits, ByteBits, (Len(values) * 3) \div 4)}
<1> DEFINE body == CharsOf(values)
           text == body \o PadFor(Len(values))
<1>1. /\ body \in Seq(Letter) /\ Len(body) = Len(values) /\ Over(Url, body)
      /\ [i \in DOMAIN body |-> IndexIn(Url, body[i])] = values
  BY WrittenIs
<1> HIDE DEF body
<1>2. IsBody(body, text)
  BY <1>1 DEF IsBody
<1>3. Bodies(text, Url) = {body}
  <2> HIDE DEF text
  <2>1. QED
    BY <1>1, <1>2, OneBody
<1>4. QED
  BY <1>1, <1>3 DEF B64Decode, body

\* A bit of a byte of characters is one.
LEMMA BitIsBit ==
  ASSUME NEW digits \in Seq(0..7), NEW k \in Nat, k < 3 * Len(digits)
  PROVE  Bit(digits, 3, k) \in 0..1
<1> DEFINE i == k \div 3
<1>1. i \in Nat /\ i < Len(digits) /\ (k = 3 * i \/ k = 3 * i + 1 \/ k = 3 * i + 2)
  OBVIOUS
<1> HIDE DEF i
<1>2. /\ digits[i + 1] \in 0..7
      /\ Bit(digits, 3, 3 * i) = digits[i + 1] \div 4 % 2
      /\ Bit(digits, 3, 3 * i + 1) = digits[i + 1] \div 2 % 2
      /\ Bit(digits, 3, 3 * i + 2) = digits[i + 1] % 2
  BY <1>1, BitsOfThree
<1>3. QED
  BY <1>1, <1>2, SMTT(30)

\* What is decoded is bytes.
LEMMA DecodedIsBytes ==
  ASSUME NEW text \in Seq(Letter), NEW data \in B64Decode(text, Url)
  PROVE  data \in Seq(0..15)
<1>1. PICK body \in Bodies(text, Url) :
        data = Regroup([i \in DOMAIN body |-> IndexIn(Url, body[i])], 3, 4, (Len(body) * 3) \div 4)
  BY DEF B64Decode, CharBits, ByteBits
<1>2. body \in Seq(Letter) /\ Over(Url, body) /\ Len(body) \in Nat /\ DOMAIN body = 1..Len(body)
  <2>1. PICK n \in 0..Len(text) : body = SubSeq(text, 1, n)
    BY DEF Bodies
  <2>2. Over(Url, body)
    BY Zenon DEF Bodies
  <2>3. SubSeq(text, 1, n) \in Seq(Letter)
    <3>1. n \in Int /\ 1 \in Int /\ \A i \in 1..n : text[i] \in Letter
      OBVIOUS
    <3>2. QED
      BY <3>1, SubSeqProperties
  <2>4. QED
    BY <2>1, <2>2, <2>3
<1> DEFINE digits == [i \in DOMAIN body |-> IndexIn(Url, body[i])]
           n == (Len(body) * 3) \div 4
<1>3. digits \in Seq(0..7) /\ Len(digits) = Len(body)
  <2>1. \A i \in 1..Len(body) : digits[i] \in 0..7
    BY <1>2, UrlIs DEF Over
  <2>2. digits = [i \in 1..Len(body) |-> digits[i]]
    BY <1>2
  <2> HIDE DEF digits
  <2>3. digits \in Seq(0..7)
    BY <1>2, <2>1, <2>2, IsASeq
  <2>4. QED
    BY <1>2, <2>2, <2>3
<1>4. n \in Nat /\ 4 * n <= 3 * Len(body)
  BY <1>2
<1> HIDE DEF digits, n
<1>5. \A k \in 0..4 * n - 1 : Bit(digits, 3, k) \in 0..1
  BY <1>2, <1>3, <1>4, BitIsBit
<1> DEFINE byte(i) == Bit(digits, 3, 4 * i - 4) * 8 + Bit(digits, 3, 4 * i - 3) * 4
                        + Bit(digits, 3, 4 * i - 2) * 2 + Bit(digits, 3, 4 * i - 1)
<1>6. Regroup(digits, 3, 4, n) = [i \in 1..n |-> byte(i)]
  BY <1>4, <1>5, RegroupToFour
<1>7. ASSUME NEW i \in 1..n PROVE byte(i) \in 0..15
  <2>1. /\ 4 * i - 4 \in 0..4 * n - 1 /\ 4 * i - 3 \in 0..4 * n - 1
        /\ 4 * i - 2 \in 0..4 * n - 1 /\ 4 * i - 1 \in 0..4 * n - 1
    BY <1>4
  <2>2. /\ Bit(digits, 3, 4 * i - 4) \in 0..1 /\ Bit(digits, 3, 4 * i - 3) \in 0..1
        /\ Bit(digits, 3, 4 * i - 2) \in 0..1 /\ Bit(digits, 3, 4 * i - 1) \in 0..1
    BY <1>5, <2>1
  <2>3. QED
    BY <2>2, SMTT(20)
<1> HIDE DEF byte
<1>8. [i \in 1..n |-> byte(i)] \in Seq(0..15)
  BY <1>4, <1>7, IsASeq
<1>9. QED
  BY <1>1, <1>6, <1>8 DEF digits, n

-------------------------------------------------------------------------------
(* The spellings of a key, and the readers of them.                        *)

\* A text with one more character before it, and one without its first.
LEMMA ConsIs ==
  ASSUME NEW S, NEW c \in S, NEW rest \in Seq(S)
  PROVE  /\ <<c>> \o rest \in Seq(S) /\ Len(<<c>> \o rest) = Len(rest) + 1
         /\ (<<c>> \o rest)[1] = c /\ \A i \in 1..Len(rest) : (<<c>> \o rest)[i + 1] = rest[i]
         /\ Tail(<<c>> \o rest) = rest
<1> DEFINE text == <<c>> \o rest
<1>1. <<c>> \in Seq(S) /\ Len(<<c>>) = 1 /\ Len(rest) \in Nat
  OBVIOUS
<1>2. /\ text \in Seq(S) /\ Len(text) = 1 + Len(rest)
      /\ \A i \in 1..1 + Len(rest) : text[i] = IF i <= 1 THEN <<c>>[i] ELSE rest[i - 1]
  BY <1>1, ConcatProperties
<1> HIDE DEF text
<1>3. text[1] = c
  <2>1. 1 \in 1..1 + Len(rest) /\ <<c>>[1] = c
    BY <1>1
  <2>2. QED
    BY <1>2, <2>1
<1>4. ASSUME NEW i \in 1..Len(rest) PROVE text[i + 1] = rest[i]
  <2>1. i + 1 \in 1..1 + Len(rest) /\ ~(i + 1 <= 1) /\ (i + 1) - 1 = i
    BY <1>1
  <2>2. QED
    BY <1>2, <2>1
<1>5. /\ text # <<>> /\ Tail(text) \in Seq(S) /\ Len(Tail(text)) = Len(rest)
      /\ \A i \in 1..Len(rest) : Tail(text)[i] = text[i + 1]
  <2>1. text # <<>>
    BY <1>1, <1>2
  <2>2. QED
    BY <1>1, <1>2, <2>1, HeadTailProperties
<1>6. Tail(text) = rest
  BY <1>4, <1>5, SeqEqual
<1>7. QED
  BY <1>1, <1>2, <1>3, <1>4, <1>6 DEF text

LEMMA TailIs ==
  ASSUME NEW S, NEW text \in Seq(S), Len(text) > 0
  PROVE  /\ Tail(text) \in Seq(S) /\ Len(Tail(text)) = Len(text) - 1
         /\ <<text[1]>> \o Tail(text) = text
<1>1. /\ text # <<>> /\ text[1] \in S /\ Len(text) \in Nat
  OBVIOUS
<1>2. /\ Tail(text) \in Seq(S) /\ Len(Tail(text)) = Len(text) - 1
      /\ \A i \in 1..Len(text) - 1 : Tail(text)[i] = text[i + 1]
  BY <1>1, HeadTailProperties
<1> DEFINE tail == Tail(text)
           again == <<text[1]>> \o tail
<1> HIDE DEF tail
<1>3. /\ again \in Seq(S) /\ Len(again) = Len(tail) + 1 /\ again[1] = text[1]
      /\ \A i \in 1..Len(tail) : again[i + 1] = tail[i]
  BY <1>1, <1>2, ConsIs DEF tail
<1> HIDE DEF again
<1>4. ASSUME NEW i \in 1..Len(text) PROVE again[i] = text[i]
  <2>1. CASE i = 1
    BY <1>3, <2>1
  <2>2. CASE i # 1
    <3>1. i - 1 \in 1..Len(text) - 1 /\ (i - 1) + 1 = i
      BY <1>1, <2>2
    <3>2. again[(i - 1) + 1] = tail[i - 1] /\ tail[i - 1] = text[(i - 1) + 1]
      BY <1>2, <1>3, <3>1 DEF tail
    <3>3. QED
      BY <3>1, <3>2
  <2>3. QED
    BY <2>1, <2>2
<1>5. again = text
  <2>1. Len(again) = Len(text)
    BY <1>1, <1>2, <1>3 DEF tail
  <2>2. QED
    BY <1>3, <1>4, <2>1, SeqEqual
<1>6. QED
  BY <1>2, <1>5 DEF again, tail

\* What is written are the values of its bits.
LEMMA B64Writes ==
  ASSUME NEW data
  PROVE  B64(data, Url) = CharsOf(Regroup(data, 4, 3, (Len(data) * 4 + 2) \div 3))
BY Zenon DEF B64, CharsOf, ByteBits, CharBits

\* A raw keyid and its two bytes.
LEMMA KeyidOfBytes ==
  ASSUME NEW x \in 0..15, NEW y \in 0..15
  PROVE  LET keyid == B64(<<x, y>>, Url)
         IN  /\ keyid \in Seq(Letter) /\ Len(keyid) = 3 /\ Over(Url, keyid)
             /\ B64Decode(Append(keyid, "="), Url) = {<<x, y>>}
<1> DEFINE values == <<x \div 2, (x % 2) * 4 + y \div 4, (y % 4) * 2>>
           keyid == CharsOf(values)
<1>1. values \in Seq(0..7) /\ Len(values) = 3
  <2>1. x \div 2 \in 0..7 /\ (x % 2) * 4 + y \div 4 \in 0..7 /\ (y % 4) * 2 \in 0..7
    OBVIOUS
  <2>2. QED
    BY <2>1
<1>2. B64(<<x, y>>, Url) = keyid
  <2>1. Len(<<x, y>>) = 2 /\ (2 * 4 + 2) \div 3 = 3
    OBVIOUS
  <2>2. Regroup(<<x, y>>, 4, 3, 3) = values
    BY CharsOfTwo
  <2> HIDE DEF values
  <2>3. QED
    BY <2>1, <2>2, B64Writes
<1>3. Regroup(values, 3, 4, 2) = <<x, y>>
  <2> DEFINE a == x \div 2
             b == (x % 2) * 4 + y \div 4
             c == (y % 4) * 2
  <2>1. a \in 0..7 /\ b \in 0..7 /\ c \in 0..7
    OBVIOUS
  <2>2. a * 2 + b \div 4 = x /\ (b % 4) * 4 + c \div 2 = y
    OBVIOUS
  <2>3. values = <<a, b, c>>
    BY SMTT(30)
  <2> HIDE DEF a, b, c, values
  <2>4. Regroup(<<a, b, c>>, 3, 4, 2) = <<a * 2 + b \div 4, (b % 4) * 4 + c \div 2>>
    BY <2>1, BytesOfThree
  <2>5. QED
    BY <2>2, <2>3, <2>4
<1> HIDE DEF values
<1>4. keyid \in Seq(Letter) /\ Len(keyid) = 3 /\ Over(Url, keyid)
  BY <1>1, WrittenIs
<1> HIDE DEF keyid
<1>5. Append(keyid, "=") = keyid \o PadFor(3)
  <2>1. "=" \in Letter
    BY DEF Letter
  <2>2. Append(keyid, "=") = keyid \o <<"=">>
    BY <1>4, <2>1, AppendIsConcat
  <2>3. PadFor(3) = <<"=">>
    <3>1. (4 - (3 % 4)) % 4 = 1
      OBVIOUS
    <3>2. QED
      BY <3>1 DEF PadFor
  <2>4. QED
    BY <2>2, <2>3
<1>6. B64Decode(keyid \o PadFor(3), Url) = {Regroup(values, 3, 4, 2)}
  <2>1. Len(values) % 4 # 1 /\ (Len(values) * 3) \div 4 = 2
    BY <1>1
  <2>2. B64Decode(keyid \o PadFor(Len(values)), Url) =
          {Regroup(values, CharBits, ByteBits, (Len(values) * 3) \div 4)}
    BY <1>1, <2>1, WrittenDecodes DEF keyid
  <2>3. QED
    BY <1>1, <2>1, <2>2 DEF CharBits, ByteBits
<1>7. QED
  BY <1>2, <1>3, <1>4, <1>5, <1>6

\* An AID and its two bytes: a pad byte stands before them in the text, under the code.
LEMMA AidOfBytes ==
  ASSUME NEW code, NEW x \in 0..15, NEW y \in 0..15
  PROVE  LET aid == Qb64(code, <<x, y>>)
         IN  Len(aid) = 4 /\ aid[1] = code /\ Behind(aid) = {<<0, x, y>>}
<1> DEFINE values == <<0, x \div 4, (x % 4) * 2 + y \div 8, y % 8>>
           text == CharsOf(values)
<1>1. values \in Seq(0..7) /\ Len(values) = 4 /\ values[1] = 0
  <2>1. x \div 4 \in 0..7 /\ (x % 4) * 2 + y \div 8 \in 0..7 /\ y % 8 \in 0..7
    OBVIOUS
  <2>2. QED
    BY <2>1
<1>2. Regroup(<<0, x, y>>, 4, 3, 4) = values
  <2>1. 0 \in 0..15
    OBVIOUS
  <2>2. Regroup(<<0, x, y>>, 4, 3, 4) =
          <<0 \div 2, (0 % 2) * 4 + x \div 4, (x % 4) * 2 + y \div 8, y % 8>>
    BY <2>1, CharsOfThree, Zenon
  <2>3. 0 \div 2 = 0 /\ (0 % 2) * 4 + x \div 4 = x \div 4
    OBVIOUS
  <2>4. QED
    BY <2>2, <2>3
<1>3. Regroup(values, 3, 4, 3) = <<0, x, y>>
  <2> DEFINE a == 0
             b == x \div 4
             c == (x % 4) * 2 + y \div 8
             e == y % 8
  <2>1. a \in 0..7 /\ b \in 0..7 /\ c \in 0..7 /\ e \in 0..7
    OBVIOUS
  <2>2. a * 2 + b \div 4 = 0 /\ (b % 4) * 4 + c \div 2 = x /\ (c % 2) * 8 + e = y
    OBVIOUS
  <2>3. values = <<a, b, c, e>>
    OBVIOUS
  <2> HIDE DEF a, b, c, e, values
  <2>4. Regroup(<<a, b, c, e>>, 3, 4, 3) =
          <<a * 2 + b \div 4, (b % 4) * 4 + c \div 2, (c % 2) * 8 + e>>
    <3>1. \A a1, a2, a3, a4 \in 0..7 :
            Regroup(<<a1, a2, a3, a4>>, 3, 4, 3) =
              <<a1 * 2 + a2 \div 4, (a2 % 4) * 4 + a3 \div 2, (a3 % 2) * 8 + a4>>
      BY BytesOfFour, Zenon
    <3>2. \A a2, a3, a4 \in 0..7 :
            Regroup(<<a, a2, a3, a4>>, 3, 4, 3) =
              <<a * 2 + a2 \div 4, (a2 % 4) * 4 + a3 \div 2, (a3 % 2) * 8 + a4>>
      BY <2>1, <3>1, Zenon
    <3>3. \A a3, a4 \in 0..7 :
            Regroup(<<a, b, a3, a4>>, 3, 4, 3) =
              <<a * 2 + b \div 4, (b % 4) * 4 + a3 \div 2, (a3 % 2) * 8 + a4>>
      BY <2>1, <3>2, Zenon
    <3>4. \A a4 \in 0..7 :
            Regroup(<<a, b, c, a4>>, 3, 4, 3) =
              <<a * 2 + b \div 4, (b % 4) * 4 + c \div 2, (c % 2) * 8 + a4>>
      BY <2>1, <3>3, Zenon
    <3>5. QED
      BY <2>1, <3>4, Zenon
  <2>5. QED
    BY <2>2, <2>3, <2>4
<1> HIDE DEF values
<1>4. text \in Seq(Letter) /\ Len(text) = 4 /\ text[1] = "A"
  <2>1. text \in Seq(Letter) /\ Len(text) = 4 /\ DOMAIN values = 1..4
    BY <1>1, WrittenIs
  <2>2. text[1] = Url[0 + 1]
    BY <1>1, <2>1 DEF CharsOf
  <2>3. QED
    BY <2>1, <2>2, UrlIs
<1>5. B64(<<0, x, y>>, Url) = text
  <2>1. Len(<<0, x, y>>) = 3 /\ (3 * 4 + 2) \div 3 = 4
    OBVIOUS
  <2>2. QED
    BY <1>2, <2>1, B64Writes
<1>6. PadFor(4) = <<>>
  <2>1. (4 - (4 % 4)) % 4 = 0
    OBVIOUS
  <2>2. Len(PadFor(4)) = 0 /\ PadFor(4) \in Seq({"="})
    BY <2>1, PadIs
  <2>3. QED
    BY <2>2, EmptySeq
<1>7. B64Decode(text, Url) = {<<0, x, y>>}
  <2>1. Len(values) % 4 # 1 /\ (Len(values) * 3) \div 4 = 3
    BY <1>1
  <2>2. B64Decode(text \o PadFor(Len(values)), Url) =
          {Regroup(values, CharBits, ByteBits, (Len(values) * 3) \div 4)}
    BY <1>1, <2>1, WrittenDecodes
  <2> HIDE DEF text
  <2>3. text \o <<>> = text
    BY <1>4, ConcatEmptySeq
  <2>4. QED
    BY <1>1, <1>3, <1>6, <2>1, <2>2, <2>3 DEF CharBits, ByteBits
<1> HIDE DEF text
<1>8. B64Padded(<<0>> \o <<x, y>>, Url) = text
  <2>1. <<0>> \o <<x, y>> = <<0, x, y>>
    <3> DEFINE both == <<0>> \o <<x, y>>
    <3>1. <<x, y>> \in Seq(0..15) /\ Len(<<x, y>>) = 2 /\ 0 \in 0..15
      OBVIOUS
    <3>2. /\ both \in Seq(0..15) /\ Len(both) = 2 + 1 /\ both[1] = 0
          /\ \A i \in 1..2 : both[i + 1] = <<x, y>>[i]
      BY <3>1, ConsIs
    <3> HIDE DEF both
    <3>3. both[2] = x /\ both[3] = y
      <4>1. 1 \in 1..2 /\ 2 \in 1..2 /\ 1 + 1 = 2 /\ 2 + 1 = 3
        OBVIOUS
      <4>2. QED
        BY <3>2, <4>1
    <3>4. <<0, x, y>> \in Seq(0..15) /\ Len(<<0, x, y>>) = 3
      BY <3>1
    <3>5. \A i \in 1..3 : both[i] = <<0, x, y>>[i]
      <4>1. \A i \in 1..3 : i = 1 \/ i = 2 \/ i = 3
        OBVIOUS
      <4>2. QED
        BY <3>2, <3>3, <4>1
    <3>6. both = <<0, x, y>>
      BY <3>2, <3>4, <3>5, SeqEqual
    <3>7. QED
      BY <3>6 DEF both
  <2>2. text \o <<>> = text
    BY <1>4, ConcatEmptySeq
  <2>3. B64Padded(<<0, x, y>>, Url) = text \o PadFor(Len(text))
    BY <1>5 DEF B64Padded
  <2>4. QED
    BY <1>4, <1>6, <2>1, <2>2, <2>3
<1> DEFINE tail == Tail(text)
           aid == <<code>> \o tail
<1>9. Qb64(code, <<x, y>>) = aid
  BY <1>8 DEF Qb64
<1>10. tail \in Seq(Letter) /\ Len(tail) = 3 /\ <<"A">> \o tail = text
  <2>1. Len(text) > 0
    BY <1>4
  <2>2. /\ Tail(text) \in Seq(Letter) /\ Len(Tail(text)) = Len(text) - 1
        /\ <<text[1]>> \o Tail(text) = text
    BY <1>4, <2>1, TailIs
  <2>3. Len(tail) = 3
    BY <1>4, <2>2
  <2>4. QED
    BY <1>4, <2>2, <2>3
<1> HIDE DEF tail
<1>11. Len(aid) = 4 /\ aid[1] = code /\ Tail(aid) = tail
  <2>1. code \in Letter \cup {code} /\ tail \in Seq(Letter \cup {code})
    BY <1>10, SeqMonotonic
  <2>2. Len(aid) = Len(tail) + 1 /\ aid[1] = code /\ Tail(aid) = tail
    BY <2>1, ConsIs
  <2> HIDE DEF aid
  <2>3. QED
    BY <1>10, <2>2
<1> HIDE DEF aid
<1>12. Behind(aid) = {<<0, x, y>>}
  BY <1>7, <1>10, <1>11, Zenon DEF Behind
<1>13. QED
  BY <1>9, <1>11, <1>12

\* An encoding is two bytes, and two bytes are one.
LEMMA RawsAreEncodings ==
  /\ Encodings = 0..255 /\ Raws = (0..15) \X (0..15)
  /\ \A k \in Encodings : RawOf(k) = <<k % 16, k \div 16>> /\ EncodingOf(RawOf(k)) = k
                          /\ k % 16 \in 0..15 /\ k \div 16 \in 0..15
  /\ \A x, y \in 0..15 : /\ EncodingOf(<<x, y>>) \in Encodings
                         /\ RawOf(EncodingOf(<<x, y>>)) = <<x, y>>
<1>1. 2^ByteBits = 16
  BY DEF ByteBits
<1>2. 2^(YBits + 1) = 256
  <2> DEFINE bits == YBits + 1
  <2>1. bits = 8
    BY KeyTextsAssumption DEF RawLen, ByteBits
  <2> HIDE DEF bits
  <2>2. 2^bits = 256
    BY <2>1
  <2>3. QED
    BY <2>2 DEF bits
<1>3. Encodings = 0..255 /\ Raws = (0..15) \X (0..15)
  BY <1>1, <1>2 DEF Encodings, Raws
<1>4. ASSUME NEW k \in 0..255
      PROVE  k % 16 \in 0..15 /\ k \div 16 \in 0..15 /\ (k % 16) + (k \div 16) * 16 = k
  OBVIOUS
<1>5. ASSUME NEW x \in 0..15, NEW y \in 0..15
      PROVE  /\ x + y * 16 \in 0..255
             /\ (x + y * 16) % 16 = x /\ (x + y * 16) \div 16 = y
  OBVIOUS
<1>6. \A x, y : EncodingOf(<<x, y>>) = x + y * 16
  BY <1>1 DEF EncodingOf
<1>7. \A k : RawOf(k) = <<k % 16, k \div 16>>
  BY <1>1 DEF RawOf
<1>8. ASSUME NEW k \in Encodings
      PROVE  /\ RawOf(k) = <<k % 16, k \div 16>> /\ EncodingOf(RawOf(k)) = k
             /\ k % 16 \in 0..15 /\ k \div 16 \in 0..15
  BY <1>3, <1>4, <1>6, <1>7
<1>9. ASSUME NEW x \in 0..15, NEW y \in 0..15
      PROVE  EncodingOf(<<x, y>>) \in Encodings /\ RawOf(EncodingOf(<<x, y>>)) = <<x, y>>
  BY <1>3, <1>5, <1>6, <1>7
<1>10. QED
  BY <1>3, <1>8, <1>9, ZenonT(30)

\* The hypothesis about the curve: the encodings that are read as keys are the canonical
\* ones of the points that are not of small order (_decode_point, _small_order).
KeysReadAreSound == {k \in Encodings : KeyReads(k)} = SoundKeys

\* The bytes of the keys that are read.
SoundRaws == {RawOf(k) : k \in SoundKeys}

\* Two bytes are the pair of them.
LEMMA PairIs ==
  ASSUME NEW raw \in Seq(0..15), Len(raw) = 2
  PROVE  raw[1] \in 0..15 /\ raw[2] \in 0..15 /\ raw = <<raw[1], raw[2]>>
<1>1. raw[1] \in 0..15 /\ raw[2] \in 0..15
  <2>1. \A i \in 1..Len(raw) : raw[i] \in 0..15
    <3>1. ASSUME NEW S, NEW s \in Seq(S) PROVE \A i \in 1..Len(s) : s[i] \in S
      OBVIOUS
    <3>2. QED
      BY <3>1, Zenon
  <2>2. 1 \in 1..Len(raw) /\ 2 \in 1..Len(raw)
    OBVIOUS
  <2>3. QED
    BY <2>1, <2>2, Zenon
<1>2. <<raw[1], raw[2]>> \in Seq(0..15) /\ Len(<<raw[1], raw[2]>>) = 2
  BY <1>1
<1>3. \A i \in 1..2 : <<raw[1], raw[2]>>[i] = raw[i]
  OBVIOUS
<1>4. QED
  BY <1>1, <1>2, <1>3, SeqEqual

\* What may be given back are two of the bytes that were read.
LEMMA ReadableHas ==
  ASSUME NEW raws, NEW raw
  PROVE  raw \in Readable(raws) <=> raw \in raws /\ Len(raw) = 2 /\ KeyReads(EncodingOf(raw))
BY DEF Readable, RawLen

\* Of bytes, those that are a key are its encoding's.
LEMMA ReadableIs ==
  ASSUME KeysReadAreSound, NEW raws
  PROVE  /\ SoundRaws \cap raws \subseteq Readable(raws)
         /\ \A raw \in Readable(raws) : raw \in Seq(0..15) => raw \in SoundRaws
<1>1. ASSUME NEW k \in SoundKeys, RawOf(k) \in raws PROVE RawOf(k) \in Readable(raws)
  <2>1. k \in Encodings /\ KeyReads(k)
    BY KeysReadAreSound DEF KeysReadAreSound
  <2>2. Len(RawOf(k)) = 2 /\ EncodingOf(RawOf(k)) = k
    <3>1. RawOf(k) = <<k % 16, k \div 16>> /\ EncodingOf(RawOf(k)) = k
      BY <2>1, RawsAreEncodings, Zenon
    <3>2. Len(<<k % 16, k \div 16>>) = 2
      OBVIOUS
    <3>3. QED
      BY <3>1, <3>2, Zenon
  <2>3. Len(RawOf(k)) = 2 /\ KeyReads(EncodingOf(RawOf(k)))
    BY <2>1, <2>2, Zenon
  <2>4. QED
    BY <1>1, <2>3, ReadableHas, Zenon
<1>2. ASSUME NEW raw \in Readable(raws), raw \in Seq(0..15) PROVE raw \in SoundRaws
  <2>1. Len(raw) = 2 /\ KeyReads(EncodingOf(raw))
    BY ReadableHas, Zenon
  <2>2. raw[1] \in 0..15 /\ raw[2] \in 0..15 /\ raw = <<raw[1], raw[2]>>
    BY <1>2, <2>1, PairIs
  <2>3. EncodingOf(raw) \in Encodings /\ RawOf(EncodingOf(raw)) = raw
    <3>1. \A x, y \in 0..15 : /\ EncodingOf(<<x, y>>) \in Encodings
                               /\ RawOf(EncodingOf(<<x, y>>)) = <<x, y>>
      BY RawsAreEncodings, Zenon
    <3>2. QED
      BY <2>2, <3>1, Zenon
  <2>4. EncodingOf(raw) \in SoundKeys
    BY <2>1, <2>3, KeysReadAreSound DEF KeysReadAreSound
  <2>5. QED
    BY <2>3, <2>4 DEF SoundRaws
<1>3. QED
  BY <1>1, <1>2 DEF SoundRaws

\* A sound key's AID is behind its code, and its keyid is its bytes.
LEMMA SoundIsWritten ==
  ASSUME KeysReadAreSound, NEW k \in SoundKeys
  PROVE  /\ Len(AidOf[k]) = 4 /\ AidOf[k][1] = "B"
         /\ \E b : Behind(AidOf[k]) = {b} /\ Len(b) = 3 /\ Tail(b) = RawOf(k)
         /\ AidOf[k] = ToAid(RawOf(k)) /\ AidOf[k] = Qb64("B", RawOf(k))
         /\ KeyidOf[k] \in Seq(Letter) /\ Len(KeyidOf[k]) = 3 /\ Over(Url, KeyidOf[k])
         /\ B64Decode(Append(KeyidOf[k], "="), Url) = {RawOf(k)} /\ KeyidOf[k] = B64(RawOf(k), Url)
<1> DEFINE x == k % 16
           y == k \div 16
<1>1. RawOf(k) = <<x, y>> /\ x \in 0..15 /\ y \in 0..15
  <2>1. k \in Encodings
    BY KeysReadAreSound DEF KeysReadAreSound
  <2>2. QED
    BY <2>1, RawsAreEncodings, Zenon
<1> HIDE DEF x, y
<1>2. AidOf[k] = ToAid(RawOf(k)) /\ KeyidOf[k] = B64(RawOf(k), Url)
  BY Zenon DEF AidOf, KeyidOf
<1>3. ToAid(RawOf(k)) = Qb64("B", RawOf(k))
  BY DEF ToAid
<1>4. LET aid == Qb64("B", <<x, y>>)
      IN  Len(aid) = 4 /\ aid[1] = "B" /\ Behind(aid) = {<<0, x, y>>}
  BY <1>1, AidOfBytes, ZenonT(30)
<1>5. LET keyid == B64(<<x, y>>, Url)
      IN  /\ keyid \in Seq(Letter) /\ Len(keyid) = 3 /\ Over(Url, keyid)
          /\ B64Decode(Append(keyid, "="), Url) = {<<x, y>>}
  BY <1>1, KeyidOfBytes, Zenon
<1>6. Len(<<0, x, y>>) = 3 /\ Tail(<<0, x, y>>) = <<x, y>>
  BY <1>1
<1>7. QED
  BY <1>1, <1>2, <1>3, <1>4, <1>5, <1>6, Zenon

\* Behind a code and its pad byte are bytes.
LEMMA BehindIsBytes ==
  ASSUME NEW text \in Seq(STRING), Len(text) = 4, NEW b \in Behind(text), Len(b) = 3
  PROVE  Tail(b) \in Seq(0..15)
<1>1. <<"A">> \o Tail(text) \in Seq(Letter)
  <2>1. text \in Seq(Letter)
    <3>1. STRING \subseteq Letter
      BY DEF Letter
    <3>2. QED
      BY <3>1, SeqMonotonic
  <2> HIDE DEF Letter
  <2>2. "A" \in Letter
    BY UrlIs
  <2>3. Tail(text) \in Seq(Letter)
    BY <2>1, TailIs
  <2>4. QED
    BY <2>2, <2>3, ConsIs
<1>2. b \in Seq(0..15)
  BY <1>1, DecodedIsBytes DEF Behind
<1>3. QED
  BY <1>2, TailIs

\* An expected AID is the AID of the key that is read from it.
LEMMA VerifyingKeyIs ==
  ASSUME KeysReadAreSound, NEW text \in Seq(STRING)
  PROVE  VerifyingKey(text) = {RawOf(k) : k \in {k \in SoundKeys : AidOf[k] = text}}
<1> DEFINE raws == {Tail(b) : b \in {b \in Behind(text) : Len(b) = 3 /\ ToAid(Tail(b)) = text}}
           keys == {RawOf(k) : k \in {k \in SoundKeys : AidOf[k] = text}}
<1>1. ASSUME NEW k \in SoundKeys, AidOf[k] = text
      PROVE  Len(text) = 4 /\ text[1] = "B" /\ RawOf(k) \in Readable(raws)
  <2>1. /\ Len(text) = 4 /\ text[1] = "B" /\ ToAid(RawOf(k)) = text
        /\ \E b \in Behind(text) : Len(b) = 3 /\ Tail(b) = RawOf(k)
    BY <1>1, SoundIsWritten
  <2>2. RawOf(k) \in raws
    BY <2>1, Zenon
  <2>3. RawOf(k) \in SoundRaws
    BY DEF SoundRaws
  <2> HIDE DEF raws
  <2>4. SoundRaws \cap raws \subseteq Readable(raws)
    BY ReadableIs
  <2>5. QED
    BY <2>1, <2>2, <2>3, <2>4
<1>2. ASSUME Len(text) = 4, text[1] = "B", NEW raw \in Readable(raws) PROVE raw \in keys
  <2>1. raw \in raws
    BY ReadableHas, Zenon
  <2>2. PICK b \in Behind(text) : Len(b) = 3 /\ ToAid(Tail(b)) = text /\ raw = Tail(b)
    BY <2>1, Zenon
  <2>3. raw \in Seq(0..15)
    BY <1>2, <2>2, BehindIsBytes
  <2> HIDE DEF raws
  <2>4. raw \in SoundRaws
    BY <2>3, ReadableIs
  <2>5. PICK k \in SoundKeys : raw = RawOf(k)
    BY <2>4 DEF SoundRaws
  <2>6. AidOf[k] = text
    BY <2>2, <2>5, SoundIsWritten, Zenon
  <2>7. QED
    BY <2>5, <2>6
<1>3. VerifyingKey(text) = IF Len(text) # 4 \/ text[1] # "B" THEN {} ELSE Readable(raws)
  <2>1. AidLen = 4 /\ 1 + RawLen = 3
    BY DEF AidLen, RawLen
  <2>2. VerifyingKey(text) =
          IF Len(text) # AidLen \/ text[1] # "B" THEN {}
          ELSE Readable({Tail(b) : b \in {b \in Behind(text) : Len(b) = 1 + RawLen /\ ToAid(Tail(b)) = text}})
    BY Zenon DEF VerifyingKey
  <2>3. QED
    BY <2>1, <2>2, Zenon
<1>4. \A raw : raw \in keys => Len(text) = 4 /\ text[1] = "B" /\ raw \in Readable(raws)
  BY <1>1
<1>5. \A raw \in Readable(raws) : Len(text) = 4 /\ text[1] = "B" => raw \in keys
  BY <1>2
<1> HIDE DEF raws, keys
<1>6. VerifyingKey(text) = keys
  BY <1>3, <1>4, <1>5
<1>7. QED
  BY <1>6 DEF keys

\* A keyid nothing resolves is the raw keyid of the key that is read from it.
LEMMA InlineKeyIs ==
  ASSUME KeysReadAreSound, NEW keyid \in Seq(STRING)
  PROVE  InlineKey(keyid) = {RawOf(k) : k \in {k \in SoundKeys : KeyidOf[k] = keyid}}
<1> DEFINE raws == {raw \in B64Decode(Append(keyid, "="), Url) : B64(raw, Url) = keyid}
           keys == {RawOf(k) : k \in {k \in SoundKeys : KeyidOf[k] = keyid}}
<1>1. ASSUME NEW k \in SoundKeys, KeyidOf[k] = keyid
      PROVE  Len(keyid) = 3 /\ Over(Url, keyid) /\ RawOf(k) \in Readable(raws)
  <2>1. /\ Len(keyid) = 3 /\ Over(Url, keyid) /\ B64(RawOf(k), Url) = keyid
        /\ RawOf(k) \in B64Decode(Append(keyid, "="), Url)
    BY <1>1, SoundIsWritten, Zenon
  <2>2. RawOf(k) \in raws
    BY <2>1, Zenon
  <2>3. RawOf(k) \in SoundRaws
    BY DEF SoundRaws
  <2> HIDE DEF raws
  <2>4. SoundRaws \cap raws \subseteq Readable(raws)
    BY ReadableIs
  <2>5. QED
    BY <2>1, <2>2, <2>3, <2>4
<1>2. ASSUME NEW raw \in Readable(raws) PROVE raw \in keys
  <2>1. raw \in raws
    BY ReadableHas, Zenon
  <2>2. raw \in B64Decode(Append(keyid, "="), Url) /\ B64(raw, Url) = keyid
    BY <2>1, Zenon
  <2> HIDE DEF raws
  <2>3. raw \in Seq(0..15)
    <3>1. STRING \subseteq Letter /\ "=" \in Letter
      BY DEF Letter
    <3>2. keyid \in Seq(Letter)
      BY <3>1, SeqMonotonic
    <3> HIDE DEF Letter
    <3>3. Append(keyid, "=") \in Seq(Letter)
      BY <3>1, <3>2
    <3>4. QED
      BY <2>2, <3>3, DecodedIsBytes
  <2>4. raw \in SoundRaws
    BY <2>3, ReadableIs
  <2>5. PICK k \in SoundKeys : raw = RawOf(k)
    BY <2>4 DEF SoundRaws
  <2>6. KeyidOf[k] = keyid
    BY <2>2, <2>5, SoundIsWritten, Zenon
  <2>7. QED
    BY <2>5, <2>6
<1>3. InlineKey(keyid) = IF Len(keyid) # 3 \/ ~Over(Url, keyid) THEN {} ELSE Readable(raws)
  BY Zenon DEF InlineKey, RawKeyidLen
<1>4. \A raw : raw \in keys => Len(keyid) = 3 /\ Over(Url, keyid) /\ raw \in Readable(raws)
  BY <1>1
<1>5. \A raw \in Readable(raws) : raw \in keys
  BY <1>2
<1> HIDE DEF raws, keys
<1>6. InlineKey(keyid) = keys
  BY <1>3, <1>4, <1>5
<1>7. QED
  BY <1>6 DEF keys

\* What is behind a code is bytes, not none of them, and nothing else.
LEMMA BehindIs ==
  ASSUME NEW text \in Seq(STRING), Len(text) = 4, NEW b \in Behind(text)
  PROVE  b \in Seq(0..15) /\ Len(b) > 0 /\ Behind(text) = {b}
<1> DEFINE read == <<"A">> \o Tail(text)
           of(body) == Regroup([i \in DOMAIN body |-> IndexIn(Url, body[i])], 3, 4, (Len(body) * 3) \div 4)
<1>1. read \in Seq(Letter) /\ Len(read) = 4
  <2>1. text \in Seq(Letter)
    <3>1. STRING \subseteq Letter
      BY DEF Letter
    <3>2. QED
      BY <3>1, SeqMonotonic
  <2> HIDE DEF Letter
  <2>2. "A" \in Letter
    BY UrlIs
  <2>3. Tail(text) \in Seq(Letter) /\ Len(Tail(text)) = 3
    BY <2>1, TailIs
  <2>4. read \in Seq(Letter) /\ Len(read) = Len(Tail(text)) + 1
    BY <2>2, <2>3, ConsIs
  <2> HIDE DEF read
  <2>5. QED
    BY <2>3, <2>4
<1> HIDE DEF read
<1>2. Behind(text) = {of(body) : body \in Bodies(read, Url)}
  BY Zenon DEF Behind, B64Decode, CharBits, ByteBits, read
<1>3. PICK body \in Bodies(read, Url) : b = of(body)
  BY <1>2, Zenon
<1>4. /\ body \in Seq(Letter) /\ read = body \o PadFor(Len(body)) /\ Len(body) % 4 # 1 /\ Over(Url, body)
  <2>1. PICK n \in 0..Len(read) : body = SubSeq(read, 1, n)
    BY DEF Bodies
  <2>2. read = body \o PadFor(Len(body)) /\ Len(body) % 4 # 1 /\ Over(Url, body)
    BY Zenon DEF Bodies
  <2>3. SubSeq(read, 1, n) \in Seq(Letter)
    <3>1. ASSUME NEW S, NEW s \in Seq(S), NEW m \in 0..Len(s) PROVE SubSeq(s, 1, m) \in Seq(S)
      <4>1. m \in Int /\ 1 \in Int /\ \A i \in 1..m : s[i] \in S
        OBVIOUS
      <4>2. QED
        BY <4>1, SubSeqProperties
    <3>2. QED
      BY <1>1, <3>1
  <2>4. QED
    BY <2>1, <2>2, <2>3
<1>5. Bodies(read, Url) = {body}
  <2>1. IsBody(body, read)
    BY <1>4, Zenon DEF IsBody
  <2>2. QED
    BY <1>4, <2>1, OneBody
<1>6. Behind(text) = {b}
  BY <1>2, <1>3, <1>5, Zenon
<1>7. b \in Seq(0..15)
  BY <1>1, DecodedIsBytes DEF Behind, read
<1>8. Len(body) \in Nat /\ (Len(body) * 3) \div 4 > 0
  <2> DEFINE n == Len(body)
             k == Len(PadFor(n))
  <2>1. n \in Nat
    BY <1>4
  <2>2. PadFor(n) \in Seq({"="}) /\ k \in 0..3
    BY <2>1, PadIs
  <2>3. PadFor(n) \in Seq(Letter)
    <3>1. {"="} \subseteq Letter
      BY DEF Letter
    <3>2. QED
      BY <2>2, <3>1, SeqMonotonic
  <2>4. Len(body \o PadFor(n)) = n + k
    BY <1>4, <2>3, ConcatProperties
  <2>5. n + k = 4 /\ n % 4 # 1
    BY <1>1, <1>4, <2>4
  <2> HIDE DEF n, k
  <2>6. n \in 1..4 /\ n # 1
    BY <2>1, <2>2, <2>5
  <2>7. (n * 3) \div 4 > 0
    BY <2>6
  <2>8. QED
    BY <2>1, <2>7 DEF n
<1>9. Len(b) > 0
  <2> DEFINE m == (Len(body) * 3) \div 4
  <2>1. b = [i \in 1..m |-> b[i]]
    BY <1>3 DEF Regroup
  <2>2. m \in Nat /\ m > 0
    BY <1>8
  <2> HIDE DEF m
  <2>3. DOMAIN b = 1..m
    BY <2>1
  <2>4. QED
    BY <1>7, <2>2, <2>3
<1>10. QED
  BY <1>6, <1>7, <1>9

\* What is spelled as an AID is well-formed.
LEMMA SpelledIsWellFormed ==
  ASSUME NEW code \in {"B", "D", "E"}, NEW raw \in Raws
  PROVE  WellFormed(Qb64(code, raw)) /\ Len(Qb64(code, raw)) = 4
<1> DEFINE aid == Qb64(code, raw)
<1>1. PICK x \in 0..15, y \in 0..15 : raw = <<x, y>>
  <2>1. raw \in (0..15) \X (0..15)
    BY RawsAreEncodings, Zenon
  <2>2. QED
    BY <2>1
<1>2. LET text == Qb64(code, <<x, y>>)
      IN  Len(text) = 4 /\ text[1] = code /\ Behind(text) = {<<0, x, y>>}
  BY AidOfBytes, ZenonT(30)
<1>3. Len(aid) = 4 /\ aid[1] = code /\ Behind(aid) = {<<0, x, y>>}
  BY <1>1, <1>2, Zenon
<1>4. Tail(<<0, x, y>>) = raw
  BY <1>1
<1>5. \E bytes \in Behind(aid) : aid = Qb64(aid[1], Tail(bytes))
  BY <1>3, <1>4, Zenon
<1> HIDE DEF aid
<1>6. WellFormed(aid) /\ Len(aid) = 4
  BY <1>3, <1>5 DEF WellFormed, AidLen
<1>7. QED
  BY <1>6 DEF aid

\* What the rule for prefixes gives of a B prefix, which is the key that is read from it.
LEMMA PrefixResolves ==
  ASSUME KeysReadAreSound, NEW text \in Seq(STRING), text[1] = "B"
  PROVE  ResolvedKey(KeyTable, text)[2] = {RawOf(k) : k \in {k \in SoundKeys : AidOf[k] = text}}
<1> DEFINE raws == {Tail(bytes) : bytes \in Behind(text)}
           keys == {RawOf(k) : k \in {k \in SoundKeys : AidOf[k] = text}}
<1>1. ResolvedKey(KeyTable, text)[2] =
        IF WellFormed(text) /\ Readable(raws) # {} THEN raws ELSE {}
  <2>1. Resolve(KeyTable, text) = <<"none", raws>>
    BY Zenon DEF Resolve
  <2> HIDE DEF raws
  <2>2. Resolve(KeyTable, text)[1] = "none" /\ Resolve(KeyTable, text)[2] = raws
    BY <2>1
  <2>3. <<"MalformedKey", {}>>[2] = {}
    OBVIOUS
  <2>4. ResolvedKey(KeyTable, text) =
          IF ~WellFormed(text) THEN <<"MalformedKey", {}>>
          ELSE IF Readable(raws) # {} THEN Resolve(KeyTable, text) ELSE <<"MalformedKey", {}>>
    BY <2>2, Zenon DEF ResolvedKey
  <2>5. QED
    BY <2>2, <2>3, <2>4, Zenon
<1>2. ASSUME NEW k \in SoundKeys, AidOf[k] = text
      PROVE  WellFormed(text) /\ raws = {RawOf(k)} /\ RawOf(k) \in Readable(raws)
  <2>1. Len(text) = 4 /\ text = Qb64("B", RawOf(k))
    BY <1>2, SoundIsWritten, Zenon
  <2>2. PICK b : Behind(text) = {b} /\ Tail(b) = RawOf(k)
    BY <1>2, SoundIsWritten, Zenon
  <2>3. WellFormed(text)
    <3>1. \E bytes \in Behind(text) : text = Qb64(text[1], Tail(bytes))
      BY <2>1, <2>2, Zenon
    <3>2. Len(text) = AidLen
      BY <2>1 DEF AidLen
    <3>3. text[1] \in {"B", "D", "E"}
      OBVIOUS
    <3>4. QED
      BY <3>1, <3>2, <3>3, Zenon DEF WellFormed
  <2>4. raws = {RawOf(k)}
    <3>1. Behind(text) = {b} /\ Tail(b) = RawOf(k)
      BY <2>2
    <3>2. {Tail(bytes) : bytes \in {b}} = {Tail(b)}
      OBVIOUS
    <3>3. QED
      BY <3>1, <3>2, Zenon
  <2>5. RawOf(k) \in SoundRaws
    BY DEF SoundRaws
  <2> HIDE DEF raws
  <2>6. SoundRaws \cap raws \subseteq Readable(raws)
    BY ReadableIs
  <2>7. QED
    BY <2>3, <2>4, <2>5, <2>6
<1>3. ASSUME WellFormed(text), NEW raw \in Readable(raws)
      PROVE  \E k \in SoundKeys : AidOf[k] = text
  <2>1. raw \in raws /\ Len(raw) = 2
    BY ReadableHas, Zenon
  <2>2. PICK b \in Behind(text) : raw = Tail(b)
    BY <2>1, Zenon
  <2>3. Len(text) = 4 /\ \E bytes \in Behind(text) : text = Qb64("B", Tail(bytes))
    BY <1>3 DEF WellFormed, AidLen
  <2>4. b \in Seq(0..15) /\ Len(b) > 0 /\ Behind(text) = {b}
    BY <2>3, BehindIs
  <2>5. text = Qb64("B", raw)
    BY <2>2, <2>3, <2>4, Zenon
  <2>6. raw \in Seq(0..15)
    BY <2>2, <2>4, TailIs
  <2> HIDE DEF raws
  <2>7. raw \in SoundRaws
    BY <2>6, ReadableIs
  <2>8. PICK k \in SoundKeys : raw = RawOf(k)
    BY <2>7 DEF SoundRaws
  <2>9. QED
    BY <2>5, <2>8, SoundIsWritten, Zenon
<1>4. CASE \E k \in SoundKeys : AidOf[k] = text
  <2>1. PICK k \in SoundKeys : AidOf[k] = text
    BY <1>4
  <2>2. WellFormed(text) /\ raws = {RawOf(k)} /\ Readable(raws) # {}
    BY <1>2, <2>1, Zenon
  <2>3. \A key \in keys : key \in raws
    BY <1>2, Zenon
  <2>4. RawOf(k) \in keys
    BY <2>1
  <2> HIDE DEF raws, keys
  <2>5. keys = raws
    BY <2>2, <2>3, <2>4
  <2>6. ResolvedKey(KeyTable, text)[2] = keys
    BY <1>1, <2>2, <2>5, Zenon
  <2>7. QED
    BY <2>6 DEF keys
<1>5. CASE ~\E k \in SoundKeys : AidOf[k] = text
  <2>1. keys = {}
    BY <1>5, Zenon
  <2>2. ~(WellFormed(text) /\ Readable(raws) # {})
    BY <1>3, <1>5, Zenon
  <2>3. QED
    BY <1>1, <2>1, <2>2, Zenon
<1>6. QED
  BY <1>4, <1>5

\* And of a D or an E prefix: the key the table has, if fiki reads it, and nothing of the prefix.
LEMMA TableResolves ==
  ASSUME KeysReadAreSound, NEW text \in Seq(STRING), text[1] # "B"
  PROVE  ResolvedKey(KeyTable, text)[2] =
           UNION {e.effective \cap {RawOf(k) : k \in SoundKeys} : e \in {e \in KeyTable : e.keyid = text}}
<1> DEFINE entries == {e \in KeyTable : e.keyid = text}
           all == UNION {e.effective \cap SoundRaws : e \in entries}
<1>1. CASE entries = {}
  <2>1. Resolve(KeyTable, text) = <<"UnknownKey", {}>>
    BY <1>1, Zenon DEF Resolve
  <2>2. Resolve(KeyTable, text)[1] # "none" /\ Resolve(KeyTable, text)[2] = {}
    BY <2>1
  <2>3. <<"MalformedKey", {}>>[2] = {}
    OBVIOUS
  <2>4. ResolvedKey(KeyTable, text)[2] = {}
    BY <2>2, <2>3, Zenon DEF ResolvedKey
  <2>5. all = {}
    BY <1>1
  <2>6. QED
    BY <2>4, <2>5 DEF SoundRaws
<1>2. ASSUME NEW e \in entries
      PROVE  ResolvedKey(KeyTable, text)[2] = e.effective \cap SoundRaws /\ entries = {e}
  <2>1. e \in KeyTable /\ e.keyid = text
    BY <1>2
  <2>2. entries = {e}
    BY <2>1, ReadersAssumption
  <2>3. WellFormed(text)
    <3>1. \E code \in {"B", "D", "E"}, raw \in Raws : text = Qb64(code, raw)
      BY <2>1, ReadersAssumption
    <3>2. QED
      BY <3>1, SpelledIsWellFormed
  <2>4. ResolvedKey(KeyTable, text) =
          LET said == Resolve(KeyTable, text)
          IN  IF said[1] # "none" \/ Readable(said[2]) # {} THEN said ELSE <<"MalformedKey", {}>>
    BY <2>3, Zenon DEF ResolvedKey
  <2>5. <<"MalformedKey", {}>>[2] = {}
    OBVIOUS
  <2>6. CASE e.effective = {}
    <3>1. Resolve(KeyTable, text) = <<"UnsupportedSigner", {}>>
      BY <2>2, <2>6, Zenon DEF Resolve
    <3>2. Resolve(KeyTable, text)[1] # "none" /\ Resolve(KeyTable, text)[2] = {}
      BY <3>1
    <3>3. QED
      BY <2>2, <2>4, <2>6, <3>2
  <2>7. ASSUME NEW raw \in Raws, e.effective = {raw}
        PROVE  ResolvedKey(KeyTable, text)[2] = e.effective \cap SoundRaws
    <3>1. Resolve(KeyTable, text) = <<"none", {raw}>>
      <4>1. UNION {f.effective : f \in {e}} = {raw}
        BY <2>7
      <4>2. Resolve(KeyTable, text) = <<"none", UNION {f.effective : f \in {e}}>>
        BY <2>2, <2>7, Zenon DEF Resolve
      <4>3. QED
        BY <4>1, <4>2, Zenon
    <3>2. Resolve(KeyTable, text)[1] = "none" /\ Resolve(KeyTable, text)[2] = {raw}
      BY <3>1
    <3>3. ResolvedKey(KeyTable, text)[2] = IF Readable({raw}) # {} THEN {raw} ELSE {}
      BY <2>4, <2>5, <3>2, Zenon
    <3>4. Readable({raw}) # {} <=> raw \in SoundRaws
      <4>1. SoundRaws \cap {raw} \subseteq Readable({raw})
        BY ReadableIs, Zenon
      <4>2. \A r \in Readable({raw}) : r = raw
        <5>1. \A r \in Readable({raw}) : r \in {raw}
          BY ReadableHas, Zenon
        <5>2. QED
          BY <5>1, Zenon
      <4>3. raw \in Seq(0..15)
        <5>1. raw \in (0..15) \X (0..15)
          BY RawsAreEncodings, Zenon
        <5>2. PICK x \in 0..15, y \in 0..15 : raw = <<x, y>>
          BY <5>1, SMTT(20)
        <5>3. QED
          BY <5>2
      <4>4. \A r \in Readable({raw}) : r \in Seq(0..15) => r \in SoundRaws
        BY ReadableIs, Zenon
      <4>5. QED
        BY <4>1, <4>2, <4>3, <4>4, Zenon
    <3>5. QED
      BY <2>7, <3>3, <3>4
  <2>8. QED
    BY <2>1, <2>2, <2>6, <2>7, ReadersAssumption
<1>3. CASE entries # {}
  <2>1. PICK e : e \in entries
    BY <1>3
  <2>2. ResolvedKey(KeyTable, text)[2] = e.effective \cap SoundRaws /\ entries = {e}
    BY <1>2, <2>1, Zenon
  <2> HIDE DEF entries
  <2>3. all = e.effective \cap SoundRaws
    BY <2>2
  <2>4. QED
    BY <2>2, <2>3 DEF SoundRaws, entries
<1>4. QED
  BY <1>1, <1>3

-------------------------------------------------------------------------------
(* Signatures.                                                             *)

\* An encoding is of one point at most.
LEMMA OneRoot ==
  ASSUME NEW y, NEW sign, NEW a \in RecoverX(y, sign), NEW b \in RecoverX(y, sign)
  PROVE  a = b
<1> DEFINE x2 == (y * y - 1) * Inv(d * y * y + 1)
           roots == IF y >= p THEN {}
                    ELSE IF x2 = 0 THEN (IF sign = 1 THEN {} ELSE {0})
                    ELSE SignedRoot(x2, PowerOf(x2, (p + 3) \div 8), sign)
<1>1. RecoverX(y, sign) = roots
  BY Zenon DEF RecoverX
<1>2. \A z, x, i, j : i \in SignedRoot(z, x, sign) /\ j \in SignedRoot(z, x, sign) => i = j
  BY Zenon DEF SignedRoot
<1>3. \A i, j \in roots : i = j
  BY <1>2, Zenon
<1>4. a \in roots /\ b \in roots
  <2> HIDE DEF roots
  <2>1. QED
    BY <1>1
<1> HIDE DEF roots
<1>5. QED
  BY <1>3, <1>4

LEMMA OnePoint ==
  ASSUME NEW raw, NEW A \in PointDecompress(raw), NEW B \in PointDecompress(raw)
  PROVE  A = B
<1> DEFINE y == raw % 2^YBits
           sign == raw \div 2^YBits
<1>1. PICK a \in RecoverX(y, sign) : A = <<a, y, 1, a * y % p>>
  BY Zenon DEF PointDecompress
<1>2. PICK b \in RecoverX(y, sign) : B = <<b, y, 1, b * y % p>>
  BY Zenon DEF PointDecompress
<1>3. a = b
  BY OneRoot, Zenon
<1>4. QED
  BY <1>1, <1>2, <1>3, Zenon

\* A quotient falls short by less than the divisor, and a multiple by nothing.
LEMMA QuotientBelow ==
  ASSUME NEW w \in Int, NEW l \in Int, l > 0 PROVE l * (w \div l) <= w
OBVIOUS

LEMMA QuotientAbove ==
  ASSUME NEW w \in Int, NEW l \in Int, l > 0 PROVE w < l * (w \div l) + l
OBVIOUS

LEMMA Multiple ==
  ASSUME NEW l \in Int, l > 0, NEW k \in Int PROVE (l * k) % l = 0
OBVIOUS

LEMMA Quotient ==
  ASSUME NEW w \in Nat, NEW l \in Nat \ {0}
  PROVE  w \div l \in Nat /\ w - l * (w \div l) \in 0..l - 1
<1>1. w \in Int /\ l \in Int /\ l > 0
  OBVIOUS
<1>2. l * (w \div l) <= w /\ w < l * (w \div l) + l
  BY <1>1, QuotientBelow, QuotientAbove
<1>3. w \div l \in Nat
  OBVIOUS
<1>4. l * (w \div l) \in Int
  BY <1>3
<1>5. QED
  BY <1>1, <1>2, <1>3, <1>4

\* What multiples of a point are neutral, one that is below q and not 0 makes eight times
\* the point neutral: the least one divides 8q, and q is prime.
LEMMA EightIsNeutral ==
  ASSUME NEW N \in SUBSET (0..8 * q), 8 * q \in N, \A m, n \in N : m <= n => n - m \in N,
         NEW e \in N, e \in 1..q - 1
  PROVE  8 \in N
<1>q. q \in Nat \ {0} /\ \A a, b \in 1..q - 1 : a * b % q # 0
  BY CurveAssumption
<1> DEFINE P == {n \in N : n # 0}
<1>1. P \subseteq Nat /\ e \in P
  <2>1. N \subseteq Nat
    BY <1>q
  <2>2. e # 0
    BY <1>q
  <2>3. QED
    BY <2>1, <2>2
<1> HIDE DEF P
<1>2. PICK least \in P : \A n \in P : ~(n < least)
  BY <1>1, LeastNatural
<1>3. least \in N /\ least \in 1..q - 1 /\ \A n \in N : n < least => n = 0
  <2>1. ~(e < least) /\ least \in Nat \ {0} /\ least \in N
    BY <1>1, <1>2 DEF P
  <2>2. \A n \in N : n < least => n = 0
    BY <1>2 DEF P
  <2>3. QED
    BY <1>q, <2>1, <2>2
<1> DEFINE whole == 8 * q
           m == whole \div least
<1>4. whole \in Nat /\ m \in Nat /\ whole - least * m \in 0..least - 1
  <2>1. whole \in Nat /\ least \in Nat \ {0}
    BY <1>q, <1>3
  <2> HIDE DEF whole
  <2>2. QED
    BY <2>1, Quotient
<1>w. whole \in N /\ N \subseteq 0..whole
  OBVIOUS
<1> HIDE DEF whole, m
<1>5. \A j \in 0..m : whole - least * j \in N
  <2> DEFINE T == {j \in 0..m : whole - least * j \in N}
  <2>1. 0 \in T
    BY <1>3, <1>4, <1>w
  <2>2. ASSUME NEW j \in 1..m, j - 1 \in T PROVE j \in T
    <3>1. whole - least * (j - 1) \in N
      BY <2>2
    <3>2. least <= whole - least * (j - 1)
      <4>1. least * j <= least * m
        BY <1>3, <1>4
      <4>2. least * (j - 1) = least * j - least
        BY <1>3, <1>4
      <4>3. least * j \in Int /\ least * m \in Int
        BY <1>3, <1>4
      <4> HIDE DEF T
      <4>4. QED
        BY <1>3, <1>4, <4>1, <4>2, <4>3
    <3>3. (whole - least * (j - 1)) - least \in N
      BY <1>3, <3>1, <3>2
    <3>4. (whole - least * (j - 1)) - least = whole - least * j
      BY <1>3, <1>4
    <3>5. QED
      BY <1>4, <3>3, <3>4
  <2> HIDE DEF T
  <2>3. 0..m \subseteq T
    BY <1>4, <2>1, <2>2, UpTo
  <2>4. QED
    BY <2>3 DEF T
<1>6. whole = least * m
  <2>1. whole - least * m \in N
    BY <1>4, <1>5
  <2>2. whole - least * m = 0
    BY <1>3, <1>4, <2>1
  <2>3. least * m \in Int
    BY <1>3, <1>4
  <2>4. QED
    BY <1>4, <2>2, <2>3
\* q divides the quotient, for it does not divide the least.
<1> DEFINE k == m \div q
           r == m - q * k
<1>7. k \in Nat /\ r \in 0..q - 1 /\ m = q * k + r
  <2>1. k \in Nat /\ r \in 0..q - 1
    BY <1>q, <1>4, Quotient
  <2>2. q * k \in Int
    BY <1>q, <2>1
  <2>3. QED
    BY <1>4, <2>1, <2>2
<1> HIDE DEF k, r
<1>8. r = 0
  <2>1. 8 * q = q * (least * k) + least * r
    BY <1>3, <1>6, <1>7, <1>q DEF whole
  <2>2. (least * r) = q * (8 - least * k)
    BY <1>3, <1>7, <1>q, <2>1
  <2>3. 8 - least * k \in Int
    BY <1>3, <1>7
  <2>4. \A i \in Int : (q * i) % q = 0
    <3>1. q \in Int /\ q > 0
      BY <1>q
    <3>2. QED
      BY <3>1, Multiple, Zenon
  <2>5. (least * r) % q = 0
    BY <2>2, <2>3, <2>4, Zenon
  <2>6. QED
    BY <1>q, <1>3, <1>7, <2>5
<1>9. least * k = 8
  <2>1. q * 8 = q * (least * k)
    BY <1>3, <1>6, <1>7, <1>8, <1>q DEF whole
  <2>2. least * k \in Int
    BY <1>3, <1>7
  <2>3. \A n \in Int : q * 8 = q * n => n = 8
    BY <1>q
  <2>4. QED
    BY <2>1, <2>2, <2>3
<1>10. m - k \in 0..m
  BY <1>q, <1>7, <1>8
<1>11. whole - least * (m - k) = 8
  <2>1. least * (m - k) = least * m - least * k
    BY <1>3, <1>4, <1>7
  <2>2. QED
    BY <1>4, <1>6, <1>9, <2>1
<1>12. QED
  BY <1>5, <1>10, <1>11

\* Under a key that is read, what the library recomputes is another R for another hash.
LEMMA OneHash ==
  ASSUME KeysReadAreSound, NEW sig \in Signatures, KeyReads(sig.key)
  PROVE  Cardinality({hash \in 0..q - 1 : LibraryVerifies(sig.key, sig.R, sig.s, hash)}) <= 1
<1> DEFINE taken == {hash \in 0..q - 1 : LibraryVerifies(sig.key, sig.R, sig.s, hash)}
<1>1. sig.key \in SoundKeys
  BY GroupAssumption DEF KeysReadAreSound
<1>2. ASSUME NEW g \in taken, NEW h \in taken, g < h PROVE FALSE
  <2>1. PICK A \in PointDecompress(sig.key) : sig.R = LibraryR(A, sig.s, g)
    BY DEF LibraryVerifies
  <2>2. sig.R = LibraryR(A, sig.s, h)
    <3>1. PICK B \in PointDecompress(sig.key) : sig.R = LibraryR(B, sig.s, h)
      BY DEF LibraryVerifies
    <3>2. A = B
      BY OnePoint
    <3>3. QED
      BY <3>1, <3>2
  <2> DEFINE points == UNION {PointDecompress(other.key) : other \in Signatures}
             R == [hash \in 0..q - 1 |-> LibraryR(A, sig.s, hash)]
             N == Neutrals(A)
  <2>3. A \in points /\ sig.s \in {other.s : other \in Signatures}
    OBVIOUS
  <2>4. /\ 8 * q \in N
        /\ \A m, n \in N : m <= n => n - m \in N
        /\ \A i, j \in 0..q - 1 : i < j /\ R[i] = R[j] => j - i \in N
    BY <2>3, GroupAssumption, Zenon
  <2>5. 8 \notin N
    BY <1>1, GroupAssumption, Zenon
  <2>6. g \in 0..q - 1 /\ h \in 0..q - 1 /\ R[g] = R[h]
    BY <2>1, <2>2
  <2>7. h - g \in N /\ h - g \in 1..q - 1
    <3>1. h - g \in N
      BY <1>2, <2>4, <2>6, Zenon
    <3>2. q \in Nat
      BY CurveAssumption
    <3> HIDE DEF taken, N, R
    <3>3. QED
      BY <1>2, <2>6, <3>1, <3>2
  <2>8. N \in SUBSET (0..8 * q)
    BY Zenon DEF Neutrals
  <2> HIDE DEF N, R, taken
  <2>9. 8 \in N
    BY <2>4, <2>7, <2>8, EightIsNeutral
  <2>10. QED
    BY <2>5, <2>9
<1>3. taken = {} \/ \E h : taken = {h}
  <2>1. taken \subseteq Nat
    BY CurveAssumption
  <2> HIDE DEF taken
  <2>2. \A g, h \in taken : g = h
    BY <1>2, <2>1
  <2>3. QED
    BY <2>2
<1> HIDE DEF taken
<1>4. Cardinality(taken) \in {0, 1}
  BY <1>3, FS_EmptySet, FS_Singleton
<1>5. QED
  BY <1>4 DEF taken

-------------------------------------------------------------------------------
(* The theorems.                                                           *)

\* What is asked is an input of that kind, and the answer what its reader gives.
AskedInput ==
    /\ asked[1] \in {"expected", "resolved"} => asked[2] \in Aids
    /\ asked[1] = "keyid" => asked[2] \in KeyidTexts
    /\ asked[1] = "signature" => asked[2] \in Signatures
    /\ asked[1] = "target" => asked[2] \in Targets
    /\ asked[1] = "length" => asked[2] \in Lengths
    /\ asked[1] = "times" => asked[2] \in Stated \X Allowances \X (MinInt..MaxInt)

AnswerRead ==
    /\ Read("expected") => answer[1] = VerifyingKey(asked[2])
    /\ Read("keyid") => answer[1] = InlineKey(asked[2])
    /\ Read("resolved") => answer[1] = ResolvedKey(KeyTable, asked[2])
    /\ Read("signature") =>
         /\ answer[1].sound = KeyReads(asked[2].key)
         /\ answer[1].taken =
              {hash \in 0..q - 1 : LibraryVerifies(asked[2].key, asked[2].R, asked[2].s, hash)}
    /\ Read("target") =>
         \A release \in Releases :
           LET t == asked[2]
               got == answer[1][release]
           IN  /\ got.authority = AuthorityOf(UrlOf(t), HeaderOf(t), release)
               /\ got.path = {PathOf(parts) : parts \in Split(UrlOf(t), release)}
               /\ got.query = {QueryOf(parts) : parts \in Split(UrlOf(t), release)}
    /\ Read("length") => answer[1] = LengthAnnounces(asked[2])
    /\ Read("times") =>
         /\ answer[1].go = GoFreshnessRefusal(asked[2][1], asked[2][2], asked[2][3])
         /\ answer[1].java = JavaFreshnessRefusal(asked[2][1], asked[2][2], asked[2][3])

Answered == AskedInput /\ AnswerRead

LEMMA InitAnswered == Init => Answered
<1> SUFFICES ASSUME Init PROVE Answered
  OBVIOUS
<1>1. answer = <<>>
  BY DEF Init
<1>2. AnswerRead
  BY <1>1 DEF AnswerRead, Read
<1> DEFINE Asks(kinds, inputs) == asked \in kinds \X inputs
           T == Stated \X Allowances \X (MinInt..MaxInt)
<1>3. \/ Asks({"expected", "resolved"}, Aids) \/ Asks({"keyid"}, KeyidTexts)
      \/ Asks({"spelled"}, Configured) \/ Asks({"file"}, Files) \/ Asks({"signature"}, Signatures)
      \/ Asks({"field"}, Fields) \/ Asks({"target"}, Targets) \/ Asks({"length"}, Lengths)
      \/ Asks({"times"}, T)
  BY DEF Init
<1>4. \A kinds, inputs : Asks(kinds, inputs) => asked[1] \in kinds /\ asked[2] \in inputs
  OBVIOUS
<1> HIDE DEF Asks, T
<1>5. CASE Asks({"spelled"}, Configured) \/ Asks({"file"}, Files) \/ Asks({"field"}, Fields)
  <2>1. asked[1] \in {"spelled", "file", "field"}
    BY <1>4, <1>5
  <2>2. QED
    BY <1>2, <2>1 DEF Answered, AskedInput
<1>6. CASE Asks({"expected", "resolved"}, Aids)
  BY <1>2, <1>4, <1>6 DEF Answered, AskedInput
<1>7. CASE Asks({"keyid"}, KeyidTexts)
  BY <1>2, <1>4, <1>7 DEF Answered, AskedInput
<1>8. CASE Asks({"target"}, Targets)
  BY <1>2, <1>4, <1>8 DEF Answered, AskedInput
<1>9. CASE Asks({"length"}, Lengths)
  BY <1>2, <1>4, <1>9 DEF Answered, AskedInput
<1>10. CASE Asks({"times"}, T)
  BY <1>2, <1>4, <1>10 DEF Answered, AskedInput, T
<1>11. CASE Asks({"signature"}, Signatures)
  BY <1>2, <1>4, <1>11 DEF Answered, AskedInput
<1>12. QED
  BY <1>3, <1>5, <1>6, <1>7, <1>8, <1>9, <1>10, <1>11

LEMMA AnsweredStays == Answered /\ [Next]_vars => Answered'
<1> SUFFICES ASSUME Answered, [Next]_vars PROVE Answered'
  OBVIOUS
<1>1. asked' = asked
  BY DEF Next, vars, Asked, ReadExpected, ReadKeyid, ReadResolved, ReadConfigured, ReadFile, ReadField,
         ReadLength, ReadTimes, CheckSignature, ReadTarget
<1>2. AskedInput'
  BY <1>1 DEF Answered, AskedInput
<1>3. AnswerRead'
  <2>1. CASE ReadConfigured \/ ReadFile \/ ReadField
    <3>1. asked[1] \in {"spelled", "file", "field"}
      BY <2>1 DEF ReadConfigured, ReadFile, ReadField, Asked
    <3>2. QED
      BY <1>1, <3>1 DEF AnswerRead, Read
  <2>2. CASE ReadExpected
    BY <1>1, <2>2 DEF ReadExpected, Asked, AnswerRead, Read
  <2>3. CASE ReadKeyid
    BY <1>1, <2>3 DEF ReadKeyid, Asked, AnswerRead, Read
  <2>4. CASE ReadResolved
    BY <1>1, <2>4 DEF ReadResolved, Asked, AnswerRead, Read
  <2>5. CASE ReadLength
    BY <1>1, <2>5 DEF ReadLength, Asked, AnswerRead, Read
  <2>6. CASE ReadTimes
    BY <1>1, <2>6 DEF ReadTimes, Asked, AnswerRead, Read
  <2>7. CASE ReadTarget
    <3>1. asked[1] = "target"
      BY <2>7 DEF ReadTarget, Asked
    <3>2. ASSUME NEW release \in Releases
          PROVE  LET t == asked'[2]
                     got == answer'[1][release]
                 IN  /\ got.authority = AuthorityOf(UrlOf(t), HeaderOf(t), release)
                     /\ got.path = {PathOf(parts) : parts \in Split(UrlOf(t), release)}
                     /\ got.query = {QueryOf(parts) : parts \in Split(UrlOf(t), release)}
      BY <1>1, <2>7 DEF ReadTarget
    <3>3. QED
      BY <1>1, <3>1, <3>2 DEF AnswerRead, Read
  <2>8. CASE UNCHANGED vars
    BY <2>8 DEF vars, Answered, AnswerRead, Read
  <2>9. CASE CheckSignature
    BY <1>1, <2>9 DEF CheckSignature, Asked, AnswerRead, Read
  <2>10. QED
    BY <2>1, <2>2, <2>3, <2>4, <2>5, <2>6, <2>7, <2>8, <2>9 DEF Next
<1>4. QED
  BY <1>2, <1>3 DEF Answered

\* The ports of fixed width compare times as Python does, whatever the width, the clock and
\* the caller's window (checkFreshness in go/messages.go and Fiki.java).
THEOREM TimesInFull == Spec => []TimesAreComparedInFull
<1>1. ASSUME Answered PROVE TimesAreComparedInFull
  <2> SUFFICES ASSUME Read("times")
               PROVE  LET refusal == Python!FreshnessRefusal(asked[2][1], asked[2][2], asked[2][3])
                      IN  /\ answer[1].go = refusal
                          /\ ~NoLimit(asked[2][2], asked[2][3]) => answer[1].java = refusal
    BY DEF TimesAreComparedInFull
  <2> DEFINE params == asked[2][1]
             allowed == asked[2][2]
             now == asked[2][3]
  <2>1. params \in Stated /\ allowed \in Allowances /\ now \in MinInt..MaxInt
    BY <1>1 DEF Answered, AskedInput, Read
  <2>2. /\ answer[1].go = GoFreshnessRefusal(params, allowed, now)
        /\ answer[1].java = JavaFreshnessRefusal(params, allowed, now)
    BY <1>1 DEF Answered, AnswerRead
  <2> HIDE DEF params, allowed, now
  <2>3. GoFreshnessRefusal(params, allowed, now) = Python!FreshnessRefusal(params, allowed, now)
    BY <2>1, GoWindowIsPythons
  <2>4. ~NoLimit(allowed, now) =>
          JavaFreshnessRefusal(params, allowed, now) = Python!FreshnessRefusal(params, allowed, now)
    BY <2>1, JavaWindowIsPythons
  <2>5. QED
    BY <2>2, <2>3, <2>4 DEF params, allowed, now
<1>2. QED
  BY <1>1, InitAnswered, AnsweredStays, PTL DEF Spec

\* Every release of Python gives every target the same authority: no text is a host and
\* port to fiki under one release's urlsplit and unreadable under another's (_split,
\* _hostport, ip_literal).
THEOREM AuthorityOnEveryPython == Spec => []AuthoritySameOnEveryPython
<1>1. ASSUME Answered PROVE AuthoritySameOnEveryPython
  <2> SUFFICES ASSUME Read("target"), NEW r1 \in Releases, NEW r2 \in Releases
               PROVE  answer[1][r1].authority = answer[1][r2].authority
    BY DEF AuthoritySameOnEveryPython
  <2> DEFINE t == asked[2]
  <2>1. t \in Targets
    BY <1>1 DEF Answered, AskedInput, Read
  <2> DEFINE C == STRING \cup {":", "?"}
  <2>2. UrlOf(t) \in Seq(C)
    <3>1. {t.scheme, t.user, t.host, t.port, t.path, t.query} \subseteq Seq(C)
      <4>1. {t.scheme, t.user, t.host, t.port, t.path, t.query} \subseteq Seq(STRING)
        BY <2>1, ReadersAssumption
      <4>2. QED
        BY <4>1, SeqMonotonic
    <3>2. <<":">> \in Seq(C) /\ <<"?">> \in Seq(C) /\ <<>> \in Seq(C)
      OBVIOUS
    <3> HIDE DEF t, C
    <3>3. \A a, b \in Seq(C) : a \o b \in Seq(C)
      BY ConcatProperties
    <3>4. AuthorityText(t) \in Seq(C)
      <4>1. <<":">> \o t.port \in Seq(C) /\ t.user \o t.host \in Seq(C)
        BY <3>1, <3>2, <3>3
      <4>2. (IF t.port = <<>> THEN <<>> ELSE <<":">> \o t.port) \in Seq(C)
        BY <3>2, <4>1
      <4>3. QED
        BY <3>3, <4>1, <4>2 DEF AuthorityText
    <3>5. (IF t.scheme = <<>> THEN <<>> ELSE t.scheme \o AuthorityText(t)) \in Seq(C)
      BY <3>1, <3>2, <3>3, <3>4
    <3>6. (IF t.query = <<>> THEN <<>> ELSE <<"?">> \o t.query) \in Seq(C)
      BY <3>1, <3>2, <3>3
    <3>7. QED
      BY <3>1, <3>3, <3>5, <3>6 DEF UrlOf
  <2>3. AuthorityOf(UrlOf(t), HeaderOf(t), r1) = AuthorityOf(UrlOf(t), HeaderOf(t), r2)
    BY <2>2, OneAuthority
  <2>4. QED
    BY <1>1, <2>3 DEF Answered, AnswerRead
<1>2. QED
  BY <1>1, InitAnswered, AnsweredStays, PTL DEF Spec

\* Only zero, in any number of digits and with the optional whitespace of HTTP around it,
\* says that there is no body, for every Content-Length (_request_has_body).
THEOREM ZeroIsNoBody == Spec => []ZeroLengthIsNoBody
<1>1. ASSUME Answered PROVE ZeroLengthIsNoBody
  <2> SUFFICES ASSUME Read("length")
               PROVE  ~answer[1] <=> \E i \in 1..Len(asked[2]), j \in 1..Len(asked[2]) :
                                       ZerosInWhitespace(asked[2], i, j)
    BY DEF ZeroLengthIsNoBody, ZerosInWhitespace
  <2>1. asked[2] \in Seq(STRING)
    BY <1>1, ReadersAssumption DEF Answered, AskedInput, Read
  <2>2. ~LengthAnnounces(asked[2]) <=> \E i \in 1..Len(asked[2]), j \in 1..Len(asked[2]) :
                                         ZerosInWhitespace(asked[2], i, j)
    BY <2>1, NoBodyIsZeros, StrippedToZeros
  <2>3. QED
    BY <1>1, <2>2 DEF Answered, AnswerRead
<1>2. QED
  BY <1>1, InitAnswered, AnsweredStays, PTL DEF Spec

\* A text from the wire names a key in one spelling and no other.
THEOREM WireKeysHold ==
  ASSUME KeysReadAreSound PROVE Spec => []WireKeysHaveOneSpelling
<1>1. ASSUME Answered PROVE WireKeysHaveOneSpelling
  <2>1. ASSUME Read("expected")
        PROVE  answer[1] = {RawOf(k) : k \in {k \in SoundKeys : AidOf[k] = asked[2]}}
    <3>1. asked[2] \in Seq(STRING) /\ answer[1] = VerifyingKey(asked[2])
      BY <1>1, <2>1, ReadersAssumption DEF Answered, AskedInput, AnswerRead, Read
    <3>2. QED
      BY <3>1, VerifyingKeyIs
  <2>2. ASSUME Read("keyid")
        PROVE  answer[1] = {RawOf(k) : k \in {k \in SoundKeys : KeyidOf[k] = asked[2]}}
    <3>1. asked[2] \in Seq(STRING) /\ answer[1] = InlineKey(asked[2])
      BY <1>1, <2>2, ReadersAssumption DEF Answered, AskedInput, AnswerRead, Read
    <3>2. QED
      BY <3>1, InlineKeyIs
  <2>3. ASSUME Read("resolved")
        PROVE  answer[1][2] =
                 IF asked[2][1] = "B"
                 THEN {RawOf(k) : k \in {k \in SoundKeys : AidOf[k] = asked[2]}}
                 ELSE UNION {e.effective \cap {RawOf(k) : k \in SoundKeys} :
                               e \in {e \in KeyTable : e.keyid = asked[2]}}
    <3>1. asked[2] \in Seq(STRING) /\ answer[1] = ResolvedKey(KeyTable, asked[2])
      BY <1>1, <2>3, ReadersAssumption DEF Answered, AskedInput, AnswerRead, Read
    <3>2. CASE asked[2][1] = "B"
      BY <3>1, <3>2, PrefixResolves
    <3>3. CASE asked[2][1] # "B"
      BY <3>1, <3>3, TableResolves
    <3>4. QED
      BY <3>2, <3>3
  <2>4. QED
    BY <2>1, <2>2, <2>3 DEF WireKeysHaveOneSpelling
<1>2. QED
  BY <1>1, InitAnswered, AnsweredStays, PTL DEF Spec

\* Under a key fiki reads, a signature is for one message (public_key, and the library it
\* hands the key to), wherever the keys that are read are the sound ones.
THEOREM SignatureFixesOneMessage ==
  ASSUME KeysReadAreSound PROVE Spec => []SignatureFixesMessage
<1>1. ASSUME Answered PROVE SignatureFixesMessage
  <2> SUFFICES ASSUME Read("signature"), answer[1].sound PROVE Cardinality(answer[1].taken) <= 1
    BY DEF SignatureFixesMessage
  <2>1. asked[2] \in Signatures
    BY <1>1 DEF Answered, AskedInput, Read
  <2>2. /\ answer[1].sound = KeyReads(asked[2].key)
        /\ answer[1].taken =
             {hash \in 0..q - 1 : LibraryVerifies(asked[2].key, asked[2].R, asked[2].s, hash)}
    BY <1>1 DEF Answered, AnswerRead
  <2>3. QED
    BY <2>1, <2>2, OneHash
<1>2. QED
  BY <1>1, InitAnswered, AnsweredStays, PTL DEF Spec
===============================================================================
