----------------------------- MODULE FixedPoint -----------------------------
(***************************************************************************)
(* The fixed-point roots and reciprocals of mllite (ml_math_func.c): a     *)
(* number x stands for x / One, the argument is scaled by a power of two   *)
(* into the range where few Newton steps suffice, iterated, and scaled     *)
(* back.  The code has 30 fraction bits; Q is the number modelled, and     *)
(* Scaled() brings each of the code's constants to it.  Every x is an      *)
(* argument, one after the other.                                          *)
(***************************************************************************)
EXTENDS Integers

CONSTANT Q              \* fraction bits (30 in the code)
ASSUME QAssumption == Q \in 4..14

VARIABLE arg            \* the argument under consideration

One == 2 ^ Q
Scaled(c) == c \div 2 ^ (30 - Q)
Shr(x, n) == x \div 2 ^ n

(* inv_q30_mult, inv_q29_mult, inv_q30_div: a product (or quotient) taken
   in twice the width and shifted back. *)
Q30Mult(a, b) == (a * b) \div One
Q29Mult(a, b) == (a * b) \div (One \div 2)

LowerLimit == Scaled(744261118)      \* log 2
UpperLimit == Scaled(1488522236)     \* log 4
OneHalf == One \div 2
OneAndHalf == One + OneHalf
Sqrt2 == Scaled(1518500250)
OneOverSqrt2 == Scaled(759250125)

(* get_highest_bit_position: the shift that brings the highest bit of v to
   the place of One. *)
HighestBit(v) == IF v = 0 THEN 0
                 ELSE CHOOSE p \in 0..Q : v * 2 ^ p \in One..(2 * One - 1)

LimitsMiscounted(x) ==
    LET p == HighestBit(x)
        y == x * 2 ^ p
    IN  IF x > UpperLimit THEN [x |-> Shr(x, 1), pow |-> -1]
        ELSE IF x >= LowerLimit THEN [x |-> x, pow |-> 0]
        ELSE IF y >= UpperLimit THEN [x |-> Shr(y, 1), pow |-> p]
        ELSE [x |-> y, pow |-> p]
(* test_limits_and_scale: the scaled argument and its power of two. *)
Limits(x) ==
    LET p == HighestBit(x)
        y == x * 2 ^ p
    IN  IF x > UpperLimit THEN [x |-> Shr(x, 1), pow |-> -1]
        ELSE IF x >= LowerLimit THEN [x |-> x, pow |-> 0]
        ELSE IF y >= UpperLimit THEN [x |-> Shr(y, 1), pow |-> p - 1]
        ELSE IF y < LowerLimit THEN [x |-> y * 2, pow |-> p + 1]
        ELSE [x |-> y, pow |-> p]

IterationsOnce(x) == 1
(* The number of Newton steps the scaled argument needs. *)
Iterations(x) ==
    IF x \notin Scaled(966367642)..Scaled(1181116006) THEN 3
    ELSE IF x \notin Scaled(1063004406)..Scaled(1084479242) THEN 2
    ELSE 1

OddNever(p) == FALSE
Odd(p) == p % 2 = 1

(* inv_inverse_sqrt: 1 / sqrt(x) as a number and the power of two left over. *)
InverseSqrt(x0) ==
    LET s == Limits(x0)
        half == Shr(s.x, 1)
        Newton(y) == Q30Mult(y, OneAndHalf - Q30Mult(half, Q30Mult(y, y)))
        first == OneAndHalf - half
        n == Iterations(s.x)
        y == IF n = 1 THEN first ELSE IF n = 2 THEN Newton(first) ELSE Newton(Newton(first))
    IN  IF Odd(s.pow) THEN [val |-> Q30Mult(y, OneOverSqrt2), pow |-> Shr(s.pow, 1) + 1]
        ELSE [val |-> y, pow |-> Shr(s.pow, 1)]

(* inv_fast_sqrt: the root a and the correction c of a two-variable Newton
   iteration; zero for an argument that is not positive. *)
FastSqrt(x0) ==
    LET s == Limits(x0)
        odd == s.pow > 0 /\ Odd(s.pow)
        Next1(r) == LET c == Shr(Q30Mult(r.c, Q30Mult(r.c, Shr(r.c, 1) - OneAndHalf)), 1)
                    IN  [a |-> r.a - Shr(Q30Mult(r.a, c), 1), c |-> c]
        first == [a |-> s.x - Shr(Q30Mult(s.x, s.x - One), 1), c |-> s.x - One]
        n == Iterations(s.x)
        a == (IF n = 1 THEN first ELSE IF n = 2 THEN Next1(first) ELSE Next1(Next1(first))).a
        b == IF odd THEN Q30Mult(a, OneOverSqrt2) ELSE a
    IN  IF x0 <= 0 THEN 0
        ELSE IF s.pow > 0 THEN Shr(b, s.pow \div 2)
        ELSE IF s.pow = -1 THEN Q30Mult(b, Sqrt2)
        ELSE b

(* inv_one_over_x: 1 / x as a number and the power of two left over, for
   both signs; a second scaling narrows the range of the iteration. *)
UpScale == Scaled(1425155444)
DownScale == Scaled(836504283)
OneOverX(x0) ==
    LET s == Limits(IF x0 < 0 THEN -x0 ELSE x0)
        up == s.x <= Scaled(873697834)
        down == ~up /\ s.x >= Scaled(1268000423)
        x == IF up THEN Q30Mult(s.x, UpScale) ELSE IF down THEN Q30Mult(s.x, DownScale) ELSE s.x
        near == x > Scaled(1067299373) /\ x < Scaled(1080184275)
        n == IF up \/ down THEN (IF near THEN 1 ELSE 2) ELSE Iterations(s.x)
        Newton(y) == Q30Mult(y, 2 * One - Q30Mult(x, y))
        first == Newton(2 * One - x)
        y == IF n = 1 THEN first ELSE IF n = 2 THEN Newton(first) ELSE Newton(Newton(first))
        z == IF up THEN Q30Mult(y, UpScale) ELSE IF down THEN Q30Mult(y, DownScale) ELSE y
    IN  [val |-> IF x0 = 0 THEN 0 ELSE IF x0 < 0 THEN -z ELSE z, pow |-> s.pow]

(* inv_compute_scalar_part: the real part of a unit quaternion from the
   other three; a vector longer than one has none and gets zero. *)
ScalarPart(v) == FastSqrt(One - Q30Mult(v[1], v[1]) - Q30Mult(v[2], v[2]) - Q30Mult(v[3], v[3]))
WithScalarPart(v) == <<ScalarPart(v), v[1], v[2], v[3]>>

(* inv_int32_to_big8 and inv_int16_to_big8: the bytes of a two's complement
   word, high byte first, and their inverses, for a long of 32 bits. *)
Byte(x, i) == (x \div 2 ^ (8 * i)) % 256
SignedByte(b) == IF b < 128 THEN b ELSE b - 256
Int32ToBig8(x) == <<Byte(x, 3), Byte(x, 2), Byte(x, 1), Byte(x, 0)>>
Int16ToBig8(x) == <<Byte(x, 1), Byte(x, 0)>>
Big8ToInt32(b) == SignedByte(b[1]) * 2 ^ 24 + b[2] * 2 ^ 16 + b[3] * 2 ^ 8 + b[4]
Big8ToInt16(b) == SignedByte(b[1]) * 2 ^ 8 + b[2]
Little8AsBig(b) == Big8ToInt16(b)
Little8ToInt16(b) == SignedByte(b[2]) * 2 ^ 8 + b[1]
-----------------------------------------------------------------------------
fixedVars == <<arg>>
FixedInit == arg = 1
NextArg == arg' = 1 + (arg % (2 * One - 1))
FixedNext == NextArg
FixedSpec == FixedInit /\ [][FixedNext]_fixedVars
-----------------------------------------------------------------------------
Abs(x) == IF x < 0 THEN -x ELSE x

(* The scaling never leaves the range the iterations are made for, and only
   multiplies by a power of two: a wrong power would scale every result by a
   factor of sqrt 2 or 2 (test_limits_and_scale and its three callers). *)
ScaledIntoRange ==
    LET s == Limits(arg)
    IN  /\ s.x \in (LowerLimit - 1)..UpperLimit
        /\ IF s.pow >= 0 THEN s.x = arg * 2 ^ s.pow ELSE s.x = Shr(arg, 1)

(* The square root is within its rounding of the true one, for every
   argument: its square brackets the argument (inv_fast_sqrt). *)
RootTolerance == 6
SqrtBracketsArgument ==
    LET r == FastSqrt(arg)
        lo == IF r < RootTolerance THEN 0 ELSE r - RootTolerance
    IN  /\ lo * lo <= arg * One
        /\ (r + RootTolerance) * (r + RootTolerance) >= arg * One

(* x times its reciprocal is one, the left-over power of two applied, and
   the reciprocal of -x is its negative (inv_one_over_x). *)
ReciprocalInverts ==
    LET r == OneOverX(arg)
        product == arg * r.val
    IN  /\ IF r.pow >= 0 THEN Abs(product * 2 ^ r.pow - One * One) <= RootTolerance * One
                         ELSE Abs(product - 2 * One * One) <= RootTolerance * 2 * One
        /\ OneOverX(-arg).val = -r.val

(* x times the square of its inverse root is one, the left-over power of two
   applied to the root (inv_inverse_sqrt). *)
InverseSqrtInverts ==
    LET r == InverseSqrt(arg)
        square == Q30Mult(r.val, r.val)
    IN  r.pow >= 0 /\ Abs(arg * square * 4 ^ r.pow - One * One) <= 10 * One

(* A word written in either byte order is read back as it was, negative ones
   included (the byte conversions of ml_math_func.c). *)
BytesRoundTrip ==
    LET wide == (arg - One) * 2 ^ (31 - Q) + arg
        narrow == (arg - One) * 2 ^ (15 - Q) + 1
        b == Int16ToBig8(narrow)
    IN  /\ Big8ToInt32(Int32ToBig8(wide)) = wide
        /\ Big8ToInt16(b) = narrow
        /\ Little8ToInt16(<<b[2], b[1]>>) = narrow

(* The fixed-point functions invert what they say they invert, for every
   argument of their range. *)
FunctionsInvert == /\ ScaledIntoRange /\ SqrtBracketsArgument /\ ReciprocalInverts
                   /\ InverseSqrtInverts /\ BytesRoundTrip
=============================================================================
