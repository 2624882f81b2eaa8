-------------------------- MODULE WordArithmetic ---------------------------
(***************************************************************************)
(* The arithmetic under src/src/dataipsum/seeds.py: unsigned words of      *)
(* HalfWord^2 values (2^64 in the code), their 128-bit product, the offset *)
(* and the rejection rule of Lemire's sampling, the offset through a       *)
(* float64, and the return to signed integers.                             *)
(***************************************************************************)
EXTENDS Integers

CONSTANTS
  HalfWord,      \* values of half a word: 2^32
  UniformLimit   \* values of the mantissa of a float64: 2^53

Modulus == HalfWord * HalfWord
Word    == 0 .. Modulus - 1

\* The powers of two up to UniformLimit: their divisors are 1 and even.
Ulps == {s \in 1..UniformLimit : \A d \in 2..s : s % d = 0 => d % 2 = 0}

ASSUME WordAssumption ==
  /\ HalfWord \in Nat /\ HalfWord > 1
  /\ UniformLimit \in Ulps
  /\ Modulus % UniformLimit = 0

Wrap(x) == x % Modulus

(* astype(np.int64) of a word, and the int64 that an int64 sum wraps to. *)
Signed(x) == LET w == Wrap(x) IN IF 2 * w < Modulus THEN w ELSE w - Modulus

(* _widening_multiply: the high and the low word of a product.  HiLo is the *)
(* high half of x times the low half of y, and so on.                       *)
LoHalf(x) == x % HalfWord
HiHalf(x) == x \div HalfWord

LoLo(x, y) == LoHalf(x) * LoHalf(y)
HiLo(x, y) == HiHalf(x) * LoHalf(y)
LoHi(x, y) == LoHalf(x) * HiHalf(y)
HiHi(x, y) == HiHalf(x) * HiHalf(y)

Cross(x, y) == HiHalf(LoLo(x, y)) + LoHalf(HiLo(x, y)) + LoHalf(LoHi(x, y))
Low(x, y)   == LoHalf(Cross(x, y)) * HalfWord + LoHalf(LoLo(x, y))
BugHigh(x, y) ==                              \* the carry of the cross products lost
  Wrap(HiHi(x, y) + HiHalf(HiLo(x, y)) + HiHalf(LoHi(x, y)))
High(x, y)  == Wrap(HiHi(x, y) + HiHalf(HiLo(x, y)) + HiHalf(LoHi(x, y)) + HiHalf(Cross(x, y)))

(* _lemire_offsets: a candidate whose low word is below the threshold is *)
(* rejected, for otherwise some offsets would be drawn more often.       *)
BugThreshold(span) == 0                       \* plain multiplication, no rejection
Threshold(span) == (Modulus - span) % span
Accepts(candidate, span) == Low(candidate, span) >= Threshold(span)

(* uniform(...) * span for span <= UniformLimit, in units of 2^-53: the top *)
(* 53 bits times span, rounded to a mantissa, ties to even.                 *)
Bits(candidate) == candidate \div (Modulus \div UniformLimit)

Ulp(x) == CHOOSE s \in Ulps : x < s * UniformLimit /\ (s > 1 => 2 * x >= s * UniformLimit)

RoundToMantissa(x) ==
  LET s  == Ulp(x)
      up == \/ 2 * (x % s) > s
            \/ 2 * (x % s) = s /\ (x \div s) % 2 = 1
  IN  (x \div s + (IF up THEN 1 ELSE 0)) * s

BugUniformOffset(candidate, span) ==          \* rounded to the nearest, not floored
  (2 * RoundToMantissa(Bits(candidate) * span) + UniformLimit) \div (2 * UniformLimit)
UniformOffset(candidate, span) ==
  RoundToMantissa(Bits(candidate) * span) \div UniformLimit
=============================================================================
