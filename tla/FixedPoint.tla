------------------------------ MODULE FixedPoint ------------------------------
(* The fixed-point numbers of fw/fpmath.h, whose widths are constants here: *)
(* a number is a multiple of 1/One within a signed word of 2 * IntMax * One *)
(* values, and an int16_t has 2 * IntMax values.                            *)
EXTENDS Integers

CONSTANTS
    One,   \* 1 << FP_R, an even number
    IntMax \* number of values of int16_t that are not negative

ASSUME FixedPointAssumption ==
    /\ One \in Nat /\ IntMax \in Nat /\ One >= 2 /\ IntMax >= 2
    /\ (One \div 2) * 2 = One

(* INT32_MAX and INT32_MIN                                                  *)
FpMax == IntMax * One - 1
FpMin == -(IntMax * One)

(* The conversion of an unsigned number to int16_t.                         *)
ToInt(n) == ((n + IntMax) % (2 * IntMax)) - IntMax

(* C's division, which rounds towards 0.                                    *)
Quotient(a, b) ==
    IF b > 0 THEN IF a >= 0 THEN a \div b ELSE -((-a) \div b)
             ELSE IF a >= 0 THEN -(a \div (-b)) ELSE (-a) \div (-b)

Saturate(n) == IF n > FpMax THEN FpMax ELSE IF n < FpMin THEN FpMin ELSE n

I2fp(n) == n * One
Fp2i(f) == f \div One

(* num2fp for numbers that are not negative, fractions of tenth = 10^d      *)
Num2fp(n, fraction, tenth) == I2fp(n) + (I2fp(fraction) \div tenth)

FpAdd(a, b) ==
    IF a + b \in FpMin..FpMax THEN a + b
    ELSE IF a > 0 /\ b > 0 THEN FpMax ELSE FpMin

FpSub(a, b) ==
    IF a - b \in FpMin..FpMax THEN a - b
    ELSE IF a >= 0 /\ b < 0 THEN FpMax ELSE FpMin

FpMul(a, b) == Saturate((a * b + (One \div 2)) \div One)

FpDiv(a, b) ==
    IF b = 0 THEN IF a >= 0 THEN FpMax ELSE FpMin
             ELSE Saturate(Quotient(a * One, b))

FpClamp(x, min, max) == IF x < min THEN min ELSE IF x > max THEN max ELSE x

(* Mutant of FpMap: the range of the source is taken from its end alone.    *)
FpMapSwapped(x, srcStart, srcEnd, dstStart, dstEnd) ==
    FpAdd(FpDiv(FpMul(FpSub(x, srcStart), FpSub(srcEnd, srcStart)),
                FpSub(dstEnd, dstStart)), dstStart)

FpMap(x, srcStart, srcEnd, dstStart, dstEnd) ==
    FpAdd(FpDiv(FpMul(FpSub(x, srcStart), FpSub(dstEnd, dstStart)),
                FpSub(srcEnd, srcStart)), dstStart)
=============================================================================
