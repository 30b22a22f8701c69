-------------------------------- MODULE Curve --------------------------------
(***************************************************************************)
(* The Ed25519 arithmetic fiki does itself: decoding a public key and      *)
(* telling a point of small order (py/src/fiki/keys.py), and the RFC 8032  *)
(* code the vectors are made and checked with (vectors/rfc8032.py,         *)
(* vectors/generate.py).                                                   *)
(*                                                                         *)
(* The curve is -x^2 + y^2 = 1 + d x^2 y^2 over the field of p elements,   *)
(* with the shape of edwards25519: p is 5 mod 8 and a little under         *)
(* 2^YBits, d is not a square, and the group has 8q points, q prime.  An   *)
(* encoding is the integer its little-endian bytes spell: y, and the low   *)
(* bit of x above it.  The hash of a message is any number below q.        *)
(***************************************************************************)
EXTENDS Integers, FiniteSets, SequencesExt

CONSTANTS
    p, d, q,    \* the field prime, the curve constant, the order of the base point
    YBits,      \* bits of an encoding below the sign bit: 255
    SecretBit,  \* the bit secret_expand sets: 254
    BaseY       \* the y of the base point

ASSUME CurveAssumption ==
    /\ p % 8 = 5 /\ p < 2^YBits
    /\ \A x \in 1..p - 1 : x * x % p # d
    /\ q \in Nat \ {0} /\ \A a, b \in 1..q - 1 : a * b % q # 0
    /\ 2^SecretBit < 8 * q /\ 8 * q < 2^(SecretBit + 2)

Encodings == 0..2^(YBits + 1) - 1

\* base to the power e modulo p, for a base of any sign.
PowerOf(base, e) ==
    LET power[n \in 0..e] ==
          IF n = 0 THEN 1
          ELSE (power[n \div 2] * power[n \div 2] % p) * (IF n % 2 = 1 THEN base % p ELSE 1) % p
    IN  power[e]

SqrtM1 == PowerOf(2, (p - 1) \div 4)

-------------------------------------------------------------------------------
(* keys.py                                                                 *)

\* The square root of u/v that one power gives, with u and v of RFC 8032 5.1.3.
RootAt(y) ==
    LET u == (y * y - 1) % p
        v == (d * y * y + 1) % p
        x == (u * PowerOf(v, 3) % p) * PowerOf(u * PowerOf(v, 7), (p - 5) \div 8) % p
        root == IF v * x * x % p = (-u) % p THEN x * SqrtM1 % p ELSE x
    IN  IF v * root * root % p = u THEN {root} ELSE {}

WithSign(x, sign) == IF x % 2 # sign THEN p - x ELSE x

\* The point an encoding is the canonical encoding of, if there is one.
DecodePoint(raw) ==
    LET y == raw % 2^YBits
        sign == raw \div 2^YBits
    IN  {<<WithSign(x, sign), y>> : x \in {r \in RootAt(y) : y < p /\ ~(r = 0 /\ sign = 1)}}

\* Doubling in projective coordinates <<X, Y, Z>>.
Doubled(pt) ==
    LET a == pt[1] * pt[1]
        b == pt[2] * pt[2]
        h == a + b
        e == h - (pt[1] + pt[2]) * (pt[1] + pt[2])
        g == a - b
        f == 2 * pt[3] * pt[3] + g
    IN  <<e * f % p, g * h % p, f * g % p>>

\* Mutant: two doublings.
OrderDividesFour(point) ==
    LET last == Doubled(Doubled(<<point[1], point[2], 1>>))
    IN  last[1] = 0 /\ last[2] = last[3]

SmallOrder(point) ==
    LET last == Doubled(Doubled(Doubled(<<point[1], point[2], 1>>)))
    IN  last[1] = 0 /\ last[2] = last[3]

\* Whether public_key gives back a key to verify with, of 32 bytes.
KeyReads(raw) == \E point \in DecodePoint(raw) : ~SmallOrder(point)

-------------------------------------------------------------------------------
(* rfc8032.py: points in extended coordinates <<X, Y, Z, T>>.              *)

Inv(x) == PowerOf(x, p - 2)

Neutral == <<0, 1, 1, 0>>

PointAdd(s, t) ==
    LET A == (s[2] - s[1]) * (t[2] - t[1]) % p
        B == (s[2] + s[1]) * (t[2] + t[1]) % p
        C == 2 * s[4] * t[4] * d % p
        DD == 2 * s[3] * t[3] % p
        E == B - A
        F == DD - C
        G == DD + C
        H == B + A
    IN  <<E * F % p, G * H % p, F * G % p, E * H % p>>

\* n times a point, doubling what is added from the lowest bit of n up.
PointMul(n, pt) ==
    LET step(acc, bit) ==
          [sum |-> IF n \div 2^bit % 2 = 1 THEN PointAdd(acc.sum, acc.power) ELSE acc.sum,
           power |-> PointAdd(acc.power, acc.power)]
    IN  FoldLeft(step, [sum |-> Neutral, power |-> pt], [i \in 1..YBits + 1 |-> i - 1]).sum

PointEqual(s, t) ==
    /\ (s[1] * t[3] - t[1] * s[3]) % p = 0
    /\ (s[2] * t[3] - t[2] * s[3]) % p = 0

\* A square root of x2 with the low bit sign, x being the candidate that one power gives.
SignedRoot(x2, x, sign) ==
    IF (x * x - x2) % p = 0 THEN {WithSign(x, sign)}
    ELSE {WithSign(root, sign) : root \in {r \in {x * SqrtM1 % p} : (r * r - x2) % p = 0}}

\* The quotient is not reduced, so it is 0 for y = 1 and for no other y.
RecoverX(y, sign) ==
    UNION {IF y >= p THEN {}
           ELSE IF x2 = 0 THEN (IF sign = 1 THEN {} ELSE {0})
           ELSE SignedRoot(x2, PowerOf(x2, (p + 3) \div 8), sign) :
             x2 \in {(y * y - 1) * Inv(d * y * y + 1)}}

PointDecompress(raw) ==
    LET y == raw % 2^YBits
    IN  {<<x, y, 1, x * y % p>> : x \in RecoverX(y, raw \div 2^YBits)}

\* The base point, with the even x.
BasePoint == CHOOSE pt \in PointDecompress(BaseY) : TRUE

PointCompress(pt) ==
    LET z == Inv(pt[3]) IN (pt[2] * z % p) + ((pt[1] * z % p) % 2) * 2^YBits

\* The scalar of a secret whose hash is the number h: its low three bits cleared, its
\* high bit set.
SecretExpand(h) == (h % 2^SecretBit) - (h % 8) + 2^SecretBit

PublicOf(a) == PointCompress(PointMul(a, BasePoint))

\* Mutant: both sides times the cofactor.
VerifiesCofactored(public, R, s, hash) ==
    \E A \in PointDecompress(public), RPoint \in PointDecompress(R) :
      /\ s < q
      /\ PointEqual(PointMul(8, PointMul(s, BasePoint)),
                    PointMul(8, PointAdd(RPoint, PointMul(hash, A))))

\* verify: the cofactorless equation.
Verifies(public, R, s, hash) ==
    \E A \in PointDecompress(public), RPoint \in PointDecompress(R) :
      /\ s < q
      /\ PointEqual(PointMul(s, BasePoint), PointAdd(RPoint, PointMul(hash, A)))

-------------------------------------------------------------------------------
(* vectors/generate.py                                                     *)

\* The cofactored equation.
Cofactored(public, R, s, hash) ==
    \E A \in PointDecompress(public), RPoint \in PointDecompress(R) :
      PointEqual(PointMul(8, PointMul(s, BasePoint)),
                 PointMul(8, PointAdd(RPoint, PointMul(hash, A))))

\* What the library a port calls does with an accepted key: it computes R afresh and
\* compares the bytes.
LibraryR(A, s, hash) ==
    PointCompress(PointAdd(PointMul(s, BasePoint), PointMul(q * 8 - hash, A)))

LibraryVerifies(public, R, s, hash) ==
    \E A \in PointDecompress(public) : s < q /\ R = LibraryR(A, s, hash)

\* A point of order 8.
Torsion8 ==
    LET torsion == {PointMul(q, pt) : pt \in UNION {PointDecompress(raw) : raw \in Encodings}}
    IN  CHOOSE t \in torsion : ~PointEqual(PointMul(4, t), Neutral)

\* The public key of a, plus n times the point of order 8.
MixedKey(a, n) ==
    PointCompress(PointAdd(PointMul(a, BasePoint), PointMul(n, Torsion8)))

\* A signature by a under its key plus torsion, with torsion added to R.  With none of
\* either it is what sign returns.
MixedSign(a, n, r, t, hash) ==
    [key |-> MixedKey(a, n), R |-> PointCompress(PointAdd(PointMul(r, BasePoint), PointMul(t, Torsion8))),
     s |-> (r + hash * a) % q, hash |-> hash]

\* A signature whose R is the neutral point, spelled with y = p + 1.
NonCanonicalR(a, hash) == [key |-> PublicOf(a), R |-> p + 1, s |-> hash * a % q, hash |-> hash]
===============================================================================
