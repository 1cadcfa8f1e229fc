------------------------------ MODULE AVMArith ------------------------------
(***************************************************************************)
(* The numeric kernels of the AVM opcodes (avm/src/machine.cpp, lines      *)
(* 387-673) on unsigned words of WordBits bits, standing for the 256-bit    *)
(* uint256_t of the code.  A "byte" has ByteBits bits (8 in the code) and   *)
(* a word WordBits \div ByteBits of them (32 in the code); a uint64_t has   *)
(* PcBits bits (64 in the code).  Each operator takes the operands the way  *)
(* the code reads them: a is stack[0] (the top), b is stack[1], c stack[2]. *)
(*                                                                         *)
(* Next to each kernel is its reference: the signed meaning of the word    *)
(* (two's complement) or the wording of the spec, section 4.E.             *)
(***************************************************************************)
EXTENDS Integers

CONSTANTS
    WordBits,   \* width of uint256_t
    ByteBits,   \* width of a byte
    PcBits      \* width of uint64_t

ASSUME /\ WordBits \in Nat \ {0}
       /\ ByteBits \in Nat \ {0}
       /\ WordBits % ByteBits = 0
       /\ PcBits \in 1..WordBits

Modulus   == 2^WordBits
Word      == 0..(Modulus - 1)
MinInt    == Modulus \div 2              \* (numeric_limits<uint256_t>::max() / 2) + 1
MinusOne  == Modulus - 1                 \* the uint256_t that compares equal to -1
WordBytes == WordBits \div ByteBits
MaxU64    == 2^PcBits - 1

\* get_sign (bigint_utils): -1 when the top bit is set, else 1.
GetSign(a) == IF a >= MinInt THEN -1 ELSE 1

\* 0 - a on uint256_t.
Negate(a) == (Modulus - a) % Modulus

\* Multiplying a uint256_t by an int sign: -1 converts to 2^256 - 1, so the
\* product is the two's-complement negation.
TimesSign(x, s) == IF s = -1 THEN Negate(x) ELSE x

\* Storing get_sign in a uint8_t (slt, sgt): -1 becomes 255.
Uint8(x) == x % 256

\* sdiv: the min / -1 case first, then divide the magnitudes and apply both
\* signs.
SDivCode(a, b) ==
    IF a = MinInt /\ b = MinusOne THEN a
    ELSE LET sa == GetSign(a)
             sb == GetSign(b)
             ma == IF sa = -1 THEN Negate(a) ELSE a
             mb == IF sb = -1 THEN Negate(b) ELSE b
         IN  TimesSign(TimesSign(ma \div mb, sa), sb)

\* A faulty variant: smod applies the sign of the divisor as well.
SModCodeMut(a, b) ==
    LET sa == GetSign(a)
        ma == IF sa = -1 THEN Negate(a) ELSE a
        mb == IF GetSign(b) = -1 THEN Negate(b) ELSE b
    IN  TimesSign(TimesSign(ma % mb, sa), GetSign(b))

\* smod: the remainder of the magnitudes with the sign of the dividend.
SModCode(a, b) ==
    LET sa == GetSign(a)
        ma == IF sa = -1 THEN Negate(a) ELSE a
        mb == IF GetSign(b) = -1 THEN Negate(b) ELSE b
    IN  TimesSign(ma % mb, sa)

\* addmod / mulmod: the operands are widened to uint512_t before reducing.
AddModCode(a, b, c) == (a + b) % c
MulModCode(a, b, c) == (a * b) % c

\* slt: equal words are not less; words of different sign compare by sign.
SltCode(a, b) ==
    IF a = b THEN 0
    ELSE LET sa == Uint8(GetSign(a))
             sb == Uint8(GetSign(b))
         IN  IF sa # sb THEN (IF sa = 1 THEN 0 ELSE 1)
             ELSE IF a < b THEN 1 ELSE 0

\* sgt
SgtCode(a, b) ==
    IF a = b THEN 0
    ELSE LET sa == Uint8(GetSign(a))
             sb == Uint8(GetSign(b))
         IN  IF sa # sb THEN (IF sa = 1 THEN 1 ELSE 0)
             ELSE IF a > b THEN 1 ELSE 0

\* byte: the code takes the index from b = stack[1] and the word from
\* a = stack[0]; it shifts byte number b (counted from the most significant
\* end) down to the bottom and masks it.
ByteCode(a, b) ==
    IF b >= WordBytes THEN 0
    ELSE LET shift == WordBits - ByteBits - ByteBits * (b % 256)
         IN  (a \div 2^shift) % 2^ByteBits

\* signExtend: the position comes from b = stack[1], the word from a; bit
\* number 255 - t = 8b + 7 is the sign bit; below it the word is kept, from
\* it upward every bit is cleared or set.
SignExtendCode(a, b) ==
    IF b >= WordBytes THEN a
    ELSE LET t       == (WordBits - ByteBits) - ByteBits * b
             k       == WordBits - 1 - t
             signBit == (a \div 2^k) % 2
             low     == a % 2^k
         IN  IF signBit = 0 THEN low ELSE low + (Modulus - 2^k)

\* power(a, b) on uint256_t, for a b that fits a uint64_t.
RECURSIVE PowerMod(_, _)
PowerMod(a, b) == IF b = 0 THEN 1 % Modulus ELSE (a * PowerMod(a, b - 1)) % Modulus

-----------------------------------------------------------------------------
(***************************************************************************)
(* References: integers of the signed reading, and the spec's wording.     *)
(***************************************************************************)
ToSigned(a)   == IF a >= MinInt THEN a - Modulus ELSE a
FromSigned(x) == x % Modulus
AbsVal(x)     == IF x < 0 THEN -x ELSE x

\* Division rounding toward zero, as SDIV promises.
TruncDiv(x, y) ==
    LET q == AbsVal(x) \div AbsVal(y)
    IN  IF (x < 0) = (y < 0) THEN q ELSE -q

SDivRef(a, b) == FromSigned(TruncDiv(ToSigned(a), ToSigned(b)))
SModRef(a, b) == FromSigned(ToSigned(a) - ToSigned(b) * TruncDiv(ToSigned(a), ToSigned(b)))
SltRef(a, b)  == IF ToSigned(a) < ToSigned(b) THEN 1 ELSE 0
SgtRef(a, b)  == IF ToSigned(a) > ToSigned(b) THEN 1 ELSE 0

\* Spec 4.E, "BYTE idx x": idx is the top of the stack, x under it; the
\* result is byte idx of x from the most significant end, 0 if idx >= 32.
ByteSpec(top, second) ==
    IF top >= WordBytes THEN 0
    ELSE (second \div 2^(WordBits - ByteBits * (top + 1))) % 2^ByteBits

\* Spec 4.E, "SIGNEXTEND pos x": pos is the top of the stack, x under it;
\* x is sign-extended from bit 8*pos+7.
SignExtendSpec(top, second) ==
    IF top >= WordBytes THEN second
    ELSE LET k   == ByteBits * (top + 1)
             low == second % 2^k
         IN  FromSigned(IF low >= 2^(k - 1) THEN low - 2^k ELSE low)

=============================================================================
