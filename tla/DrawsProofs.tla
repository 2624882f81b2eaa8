---------------------------- MODULE DrawsProofs ----------------------------
(***************************************************************************)
(* Theorems of Draws for every word and mantissa size, every draw_u64, all *)
(* batches, ranges and ceilings: the 128-bit product is exact, the integer *)
(* of a row is a function of the row, it lies in the range on both paths,  *)
(* no integer is reached by more words than another, and only a row        *)
(* refused at every slot makes a call fail.                                *)
(*                                                                         *)
(* What makes RowIsPure inductive is LoopInv: a pending row was refused at *)
(* each slot tried so far, and a row that is no longer pending holds the   *)
(* offset of its first accepted slot, however long the others went on.     *)
(* On the float path the range rests on rounding: a product just below the *)
(* span rounds to no more than the largest value under it.  Absence of     *)
(* bias is counted: the accepted words that give an offset are an interval *)
(* of as many words as a modulus holds spans.                              *)
(***************************************************************************)
EXTENDS Draws, FiniteSetTheorems, WellFoundedInduction, TLAPS

(* _widening_multiply computes the exact product of two words: no partial *)
(* sum of its 32-bit halves loses a carry.                                *)
LEMMA WideningMultiply ==
  ASSUME NEW x \in Word, NEW y \in Word
  PROVE  High(x, y) * Modulus + Low(x, y) = x * y /\ High(x, y) \in Word /\ Low(x, y) \in Word
<1> DEFINE H == HalfWord
           xl == x % H   xh == x \div H
           yl == y % H   yh == y \div H
           ll == xl * yl  hl == xh * yl  lh == xl * yh  hh == xh * yh
           ll0 == ll % H  ll1 == ll \div H
           hl0 == hl % H  hl1 == hl \div H
           lh0 == lh % H  lh1 == lh \div H
           c == ll1 + hl0 + lh0
           c0 == c % H    c1 == c \div H
           t == hh + hl1 + lh1 + c1
<1>1. H \in Nat /\ H > 1 /\ x \in Nat /\ y \in Nat
  BY WordAssumption DEF Word, Modulus
<1>2. /\ x = H * xh + xl /\ xl \in Nat /\ xh \in Nat /\ xl < H
      /\ y = H * yh + yl /\ yl \in Nat /\ yh \in Nat /\ yl < H
  BY <1>1
<1>3. ll \in Nat /\ hl \in Nat /\ lh \in Nat /\ hh \in Nat
  BY <1>2
<1> HIDE DEF xl, xh, yl, yh
<1>4. x * y = hh * (H * H) + hl * H + lh * H + ll
  <2>1. x * y = (H * xh + xl) * (H * yh + yl)
    BY <1>2
  <2>2. QED
    BY <2>1, <1>1, <1>2
<1> HIDE DEF ll, hl, lh, hh
<1>5. /\ ll = H * ll1 + ll0 /\ ll0 \in Nat /\ ll1 \in Nat /\ ll0 < H
      /\ hl = H * hl1 + hl0 /\ hl0 \in Nat /\ hl1 \in Nat
      /\ lh = H * lh1 + lh0 /\ lh0 \in Nat /\ lh1 \in Nat
  BY <1>1, <1>3
<1> HIDE DEF ll0, ll1, hl0, hl1, lh0, lh1
<1>6. c \in Nat /\ c = H * c1 + c0 /\ c0 \in Nat /\ c1 \in Nat /\ c0 < H
  BY <1>1, <1>5
<1> HIDE DEF c0, c1
<1>7. x * y = t * (H * H) + (c0 * H + ll0)
  <2>1. hl * H = hl1 * (H * H) + hl0 * H
    BY <1>1, <1>5
  <2>2. lh * H = lh1 * (H * H) + lh0 * H
    BY <1>1, <1>5
  <2>3. ll1 * H + hl0 * H + lh0 * H = c1 * (H * H) + c0 * H
    <3>1. ll1 * H + hl0 * H + lh0 * H = c * H
      BY <1>1, <1>5
    <3>2. c * H = (H * c1 + c0) * H
      BY <1>6
    <3>3. (H * c1 + c0) * H = c1 * (H * H) + c0 * H
      BY <1>1, <1>6
    <3>4. QED
      BY <3>1, <3>2, <3>3
  <2>4. t * (H * H) = hh * (H * H) + hl1 * (H * H) + lh1 * (H * H) + c1 * (H * H)
    BY <1>1, <1>3, <1>5, <1>6
  <2>5. QED
    BY <1>1, <1>3, <1>4, <1>5, <1>6, <2>1, <2>2, <2>3, <2>4
<1>8. c0 * H + ll0 \in 0 .. H * H - 1
  BY <1>1, <1>5, <1>6
<1>9. x * y < (H * H) * (H * H)
  BY <1>1 DEF Word, Modulus
<1>10. t \in Nat
  BY <1>3, <1>5, <1>6
<1>11. t < H * H
  BY <1>1, <1>7, <1>8, <1>9, <1>10
<1>12. High(x, y) = t % (H * H) /\ Low(x, y) = c0 * H + ll0
  BY DEF High, Low, Cross, Wrap, Modulus, LoLo, HiLo, LoHi, HiHi, LoHalf, HiHalf, xl, xh, yl, yh, ll, hl, lh, hh, ll0, ll1, hl0, hl1, lh0, lh1, c0, c1
<1>13. t % (H * H) = t
  BY <1>1, <1>10, <1>11
<1>14. QED
  BY <1>1, <1>7, <1>8, <1>10, <1>11, <1>12, <1>13 DEF Word, Modulus

LEMMA ModulusIsPositive == Modulus \in Nat /\ Modulus > 1 /\ UniformLimit \in Nat
BY WordAssumption DEF Modulus, Ulps

LEMMA WideningMultiplyDivides ==
  ASSUME NEW x \in Word, NEW y \in Word
  PROVE  High(x, y) = (x * y) \div Modulus /\ Low(x, y) = (x * y) % Modulus
<1> DEFINE q == High(x, y)   r == Low(x, y)   m == Modulus
<1>1. q \in Int /\ r \in 0 .. m - 1 /\ m \in Nat /\ m > 0 /\ x * y = q * m + r
  BY WideningMultiply, ModulusIsPositive DEF Word
<1> HIDE DEF q, r, m
<1>2. (q * m + r) \div m = q /\ (q * m + r) % m = r
  BY <1>1
<1>3. QED
  BY <1>1, <1>2 DEF q, r, m

(* The high word of a product is an offset of the range. *)
LEMMA OffsetInSpan ==
  ASSUME NEW x \in Word, NEW s \in Nat, s > 0
  PROVE  (x * s) \div Modulus \in 0 .. s - 1
<1> DEFINE m == Modulus   q == (x * s) \div m
<1>1. m \in Nat /\ m > 0 /\ x \in Nat /\ x <= m - 1
  BY ModulusIsPositive DEF Word
<1>2. x * s \in Nat /\ x * s <= (m - 1) * s
  BY <1>1
<1>3. q \in Nat /\ q * m <= x * s
  BY <1>1, <1>2
<1> HIDE DEF m, q
<1>4. q * m <= m * s - s
  BY <1>1, <1>2, <1>3
<1>5. q < s
  BY <1>1, <1>3, <1>4
<1>6. QED
  BY <1>3, <1>5 DEF q, m

(* Adding in int64 gives the sum when the sum is an int64, although offsets *)
(* from 2^63 on wrap to negative numbers first.                             *)
LEMMA SignedSum ==
  ASSUME NEW a \in Int, NEW o \in Word, -Modulus <= 2 * a, 2 * (a + o) < Modulus
  PROVE  Signed(a + Signed(o)) = a + o
<1> DEFINE m == Modulus
<1>1. m \in Nat /\ m > 1 /\ o \in 0 .. m - 1
  BY ModulusIsPositive DEF Word
<1>2. o % m = o
  BY <1>1
<1>3. Signed(o) \in {o, o - m}
  BY <1>2 DEF Signed, Wrap
<1>4. (a + o) % m = IF a + o < 0 THEN a + o + m ELSE a + o
  <2>1. CASE a + o < 0
    <3>1. a + o = (-1) * m + (a + o + m) /\ a + o + m \in 0 .. m - 1
      BY <1>1, <2>1
    <3>2. QED
      BY <1>1, <2>1, <3>1
  <2>2. CASE a + o >= 0
    <3>1. a + o \in 0 .. m - 1
      BY <1>1, <2>2
    <3>2. QED
      BY <1>1, <2>2, <3>1
  <2>3. QED
    BY <1>1, <2>1, <2>2
<1>5. (a + (o - m)) % m = (a + o) % m
  BY <1>1
<1>6. (a + Signed(o)) % m = (a + o) % m
  BY <1>1, <1>3, <1>5
<1>7. QED
  BY <1>1, <1>4, <1>6 DEF Signed, Wrap

-----------------------------------------------------------------------------
(* The offset through a float64 is in the range: Bits is below the mantissa, *)
(* the unit in the last place of the product is less than twice the span,    *)
(* and so the rounding adds less than the span, which the product lacks.     *)

(* A set of naturals has a least element. *)
LEMMA LeastNatural ==
  ASSUME NEW S \in SUBSET Nat, S # {}
  PROVE  \E m \in S : \A n \in S : m <= n
<1>1. \E m \in S : \A n \in S : <<n, m>> \notin OpToRel(<, Nat)
  BY NatLessThanWellFounded, WFMin
<1>2. \A n, m \in Nat : <<n, m>> \notin OpToRel(<, Nat) => m <= n
  BY DEF OpToRel
<1>3. QED
  BY <1>1, <1>2

(* The units in the last place are the powers of two. *)
LEMMA HalfOfUlp ==
  ASSUME NEW s \in Ulps, s > 1
  PROVE  s \div 2 \in Ulps /\ 2 * (s \div 2) = s
<1> DEFINE h == s \div 2
<1>1. s \in Nat /\ s \in 2..s /\ s <= UniformLimit /\ UniformLimit \in Nat
  BY WordAssumption DEF Ulps
<1>2. s % s = 0
  BY <1>1
<1>3. s % 2 = 0
  BY <1>1, <1>2 DEF Ulps
<1>4. h \in Nat /\ 2 * h = s /\ h \in 1..UniformLimit
  BY <1>1, <1>3
<1> HIDE DEF h
<1>5. ASSUME NEW d \in 2..h, h % d = 0 PROVE d % 2 = 0
  <2>1. s % d = 0
    <3>1. h = d * (h \div d)
      BY <1>4, <1>5
    <3>2. h \div d \in Nat
      BY <1>4
    <3>3. s = d * (2 * (h \div d))
      BY <1>4, <3>1, <3>2
    <3>4. \A k \in Nat : (d * k) % d = 0
      BY <1>4
    <3>5. QED
      BY <3>2, <3>3, <3>4
  <2>2. d \in 2..s
    BY <1>1, <1>4
  <2>3. QED
    BY <2>1, <2>2 DEF Ulps
<1>6. QED
  BY <1>4, <1>5 DEF Ulps, h

(* A product of mantissas has a unit in the last place. *)
LEMMA UlpIs ==
  ASSUME NEW x \in Nat, x < UniformLimit * UniformLimit
  PROVE  /\ Ulp(x) \in Ulps
         /\ x < Ulp(x) * UniformLimit
         /\ Ulp(x) > 1 => 2 * x >= Ulp(x) * UniformLimit
<1> DEFINE U == UniformLimit
           wide == {s \in Ulps : x < s * U}
<1>1. U \in Nat /\ U > 0 /\ U \in Ulps /\ Ulps \in SUBSET Nat
  BY WordAssumption DEF Ulps
<1>2. PICK s \in wide : \A n \in wide : s <= n
  <2>1. wide # {} /\ wide \in SUBSET Nat
    BY <1>1
  <2>2. QED
    BY <2>1, LeastNatural
<1>3. s > 1 => 2 * x >= s * U
  <2> SUFFICES ASSUME s > 1, 2 * x < s * U PROVE FALSE
    BY <1>1
  <2> DEFINE h == s \div 2
  <2>1. h \in Ulps /\ 2 * h = s /\ h < s /\ h \in Nat
    BY HalfOfUlp, <1>1
  <2>2. x < h * U
    <3>1. s * U = 2 * (h * U)
      BY <1>1, <2>1
    <3>2. h * U \in Nat
      BY <1>1, <2>1
    <3>3. QED
      BY <3>1, <3>2
  <2>3. QED
    BY <1>1, <1>2, <2>1, <2>2
<1>4. \E n \in Ulps : x < n * U /\ (n > 1 => 2 * x >= n * U)
  BY <1>2, <1>3
<1>5. QED
  BY <1>4 DEF Ulp
(* The top bits of a word are a mantissa. *)
LEMMA BitsInMantissa ==
  ASSUME NEW c \in Word
  PROVE  Bits(c) \in 0 .. UniformLimit - 1
<1> DEFINE m == Modulus   U == UniformLimit   w == m \div U   b == c \div w
<1>1. U \in Nat /\ U > 0 /\ m \in Nat /\ m > 1 /\ m % U = 0 /\ c \in 0 .. m - 1
  BY WordAssumption, ModulusIsPositive DEF Word, Ulps
<1> HIDE DEF m, U
<1>2. w \in Nat /\ m = w * U
  BY <1>1
<1>3. w > 0
  BY <1>1, <1>2
<1> HIDE DEF w
<1>4. b \in Nat /\ b * w <= c
  BY <1>1, <1>2, <1>3
<1> HIDE DEF b
<1>5. b * w < U * w
  BY <1>1, <1>2, <1>4
<1>6. b < U
  BY <1>1, <1>2, <1>3, <1>4, <1>5
<1>7. QED
  BY <1>1, <1>4, <1>6 DEF Bits, b, w, m, U

(* Rounding does not reach the next multiple of the mantissa. *)
LEMMA RoundedBelow ==
  ASSUME NEW x \in Nat, NEW s \in Nat, 0 < s, s <= UniformLimit,
         x <= UniformLimit * s - s
  PROVE  RoundToMantissa(x) \in Nat /\ RoundToMantissa(x) < UniformLimit * s
<1> DEFINE U == UniformLimit   u == Ulp(x)   k == x \div u   r == x % u
           up == 2 * r > u \/ (2 * r = u /\ k % 2 = 1)
           y == (k + (IF up THEN 1 ELSE 0)) * u
<1>1. U \in Nat /\ U > 0
  BY WordAssumption DEF Ulps
<1>2. x < U * U
  <2>1. U * s <= U * U
    BY <1>1
  <2>2. QED
    BY <1>1, <2>1
<1>3. /\ u \in Nat /\ u > 0
      /\ u > 1 => 2 * x >= u * U
  BY <1>2, UlpIs DEF Ulps
<1>4. y = RoundToMantissa(x)
  BY DEF RoundToMantissa
<1> HIDE DEF U, u
<1>5. k \in Nat /\ r \in Nat /\ r < u /\ x = k * u + r
  BY <1>3
<1> HIDE DEF k, r
<1>6. y \in {k * u, k * u + u} /\ (y = k * u + u => up)
  BY <1>3, <1>5
<1>7. k * u \in Nat /\ U * s \in Nat /\ u * U \in Nat
  BY <1>1, <1>3, <1>5
<1>8. y \in Nat /\ 2 * y <= 2 * x + u
  BY <1>3, <1>5, <1>6, <1>7
<1>9. CASE u = 1
  <2>1. y = x
    BY <1>5, <1>6, <1>9
  <2>2. x < U * s
    BY <1>7 DEF U
  <2>3. QED
    BY <1>4, <2>1, <2>2 DEF U
<1>10. CASE u > 1
  <2>1. u * U <= 2 * (U * s) - 2 * s
    BY <1>3, <1>7, <1>10 DEF U
  <2>2. u < 2 * s
    <3>1. u * U < (2 * s) * U
      BY <1>1, <1>7, <2>1
    <3>2. QED
      BY <1>1, <1>3, <3>1
  <2>3. 2 * y < 2 * (U * s)
    BY <1>3, <1>7, <1>8, <2>2 DEF U
  <2>4. QED
    BY <1>4, <1>7, <1>8, <2>3 DEF U
<1>11. QED
  BY <1>3, <1>9, <1>10

(* The offset through a float64 is an offset of the range. *)
LEMMA UniformInSpan ==
  ASSUME NEW c \in Word, NEW s \in Nat, 0 < s, s <= UniformLimit
  PROVE  UniformOffset(c, s) \in 0 .. s - 1
<1> DEFINE U == UniformLimit   x == Bits(c) * s   y == RoundToMantissa(x)
<1>1. U \in Nat /\ U > 0 /\ Bits(c) \in Nat /\ Bits(c) <= U - 1
  BY WordAssumption, BitsInMantissa DEF Ulps
<1>2. x \in Nat /\ x <= U * s - s
  <2>1. x <= (U - 1) * s
    BY <1>1
  <2>2. QED
    BY <1>1, <2>1
<1> HIDE DEF x
<1>3. y \in Nat /\ y < U * s
  BY <1>2, RoundedBelow
<1> HIDE DEF y, U
<1>4. y \div U \in Nat /\ (y \div U) * U <= y
  BY <1>1, <1>3
<1>5. (y \div U) * U < s * U
  BY <1>1, <1>3, <1>4
<1>6. y \div U < s
  BY <1>1, <1>4, <1>5
<1>7. QED
  BY <1>4, <1>6 DEF UniformOffset, x, y, U
-----------------------------------------------------------------------------
(* Lemire's rejection: the words accepted for offset o are those of which    *)
(* the product with the span falls in an interval that is Modulus \div span  *)
(* multiples of the span long.                                               *)

(* The threshold is what the whole multiples of the span leave of Modulus. *)
LEMMA ThresholdIs ==
  ASSUME NEW s \in Word, s > 0
  PROVE  /\ Threshold(s) \in 0 .. s - 1
         /\ Modulus = (Modulus \div s) * s + Threshold(s)
         /\ Modulus \div s \in Nat
<1> DEFINE m == Modulus   q == m \div s   r == m % s
<1>1. m \in Nat /\ s \in Nat /\ s <= m - 1
  BY ModulusIsPositive DEF Word
<1>2. Threshold(s) = (m - s) % s
  BY DEF Threshold
<1> HIDE DEF m
<1>3. q \in Nat /\ r \in 0 .. s - 1 /\ m = q * s + r
  BY <1>1
<1> HIDE DEF q, r
<1>4. m - s = (q - 1) * s + r
  BY <1>1, <1>3
<1>5. (m - s) % s = r
  BY <1>1, <1>3, <1>4
<1>6. QED
  BY <1>2, <1>3, <1>5 DEF q, r, m

(* The first multiple from a on. *)
LEMMA FirstMultiple ==
  ASSUME NEW a \in Nat, NEW s \in Nat, s > 0
  PROVE  \E k \in Nat : a <= k * s /\ (k - 1) * s < a
<1> DEFINE n == a + s - 1   k == n \div s   r == n % s
<1>1. n \in Nat
  OBVIOUS
<1> HIDE DEF n
<1>2. k \in Nat /\ r \in 0 .. s - 1 /\ n = k * s + r
  BY <1>1
<1> HIDE DEF k, r
<1>3. a <= k * s /\ k * s - s < a
  BY <1>2 DEF n
<1>4. k * s - s = (k - 1) * s
  BY <1>2
<1>5. QED
  BY <1>2, <1>3, <1>4

(* The words that are accepted with offset o. *)
Hits(s, o) == {w \in {v \in Word : Accepts(v, s)} : High(w, s) = o}

(* There are equally many for each offset. *)
LEMMA EquallyManyHits ==
  ASSUME NEW s \in Word, s > 0, NEW o \in 0 .. s - 1
  PROVE  Cardinality(Hits(s, o)) = Modulus \div s
<1> DEFINE m == Modulus   q == m \div s   t == Threshold(s)   a == o * m + t
<1>1. m \in Nat /\ m > 0 /\ s \in Nat /\ s <= m - 1
  BY ModulusIsPositive DEF Word
<1>2. t \in Nat /\ q \in Nat /\ m = q * s + t /\ Word = 0 .. m - 1
  BY ThresholdIs DEF Word
<1>3. ASSUME NEW w \in Word
      PROVE  w \in Hits(s, o) <=> a <= w * s /\ w * s < a + q * s
  <2> DEFINE h == High(w, s)   l == Low(w, s)
  <2>1. h * m + l = w * s /\ h \in Nat /\ l \in 0 .. m - 1 /\ w * s \in Nat
    BY <1>1, <1>3, WideningMultiply DEF Word
  <2>2. w \in Hits(s, o) <=> l >= t /\ h = o
    BY DEF Hits, Accepts
  <2> HIDE DEF h, l, m, q, t
  <2>3. a + q * s = o * m + m
    BY <1>1, <1>2
  <2>4. ASSUME l >= t, h = o PROVE a <= w * s /\ w * s < a + q * s
    BY <1>1, <1>2, <2>1, <2>3, <2>4
  <2>5. ASSUME a <= w * s, w * s < a + q * s PROVE l >= t /\ h = o
    <3>1. o * m <= h * m + l /\ h * m + l < o * m + m
      BY <1>1, <1>2, <2>1, <2>3, <2>5
    <3>2. o * m < (h + 1) * m /\ h * m < (o + 1) * m
      BY <1>1, <2>1, <3>1
    <3>3. o < h + 1 /\ h < o + 1
      BY <1>1, <2>1, <3>2
    <3>4. h = o
      BY <2>1, <3>3
    <3>5. QED
      BY <1>1, <1>2, <2>1, <2>5, <3>4
  <2>6. QED
    BY <2>2, <2>4, <2>5
<1>4. PICK k \in Nat : a <= k * s /\ (k - 1) * s < a
  <2>1. a \in Nat
    BY <1>1, <1>2
  <2>2. QED
    BY <1>1, <2>1, FirstMultiple
<1> HIDE DEF m, q, t
<1>5. ASSUME NEW w \in Nat
      PROVE  w \in k .. k + q - 1 <=> a <= w * s /\ w * s < a + q * s
  <2>1. ASSUME w \in k .. k + q - 1 PROVE a <= w * s /\ w * s < a + q * s
    <3>1. k * s <= w * s
      BY <1>1, <2>1
    <3>2. w * s <= (k + q - 1) * s
      BY <1>1, <1>2, <2>1
    <3>3. (k + q - 1) * s = (k - 1) * s + q * s
      BY <1>1, <1>2
    <3>4. QED
      BY <1>1, <1>2, <1>4, <3>1, <3>2, <3>3
  <2>2. ASSUME a <= w * s, w * s < a + q * s PROVE w \in k .. k + q - 1
    <3>1. (k - 1) * s < w * s
      BY <1>1, <1>2, <1>4, <2>2
    <3>2. w * s < (k + q) * s
      <4>1. (k + q) * s = k * s + q * s
        BY <1>1, <1>2
      <4>2. QED
        BY <1>1, <1>2, <1>4, <2>2, <4>1
    <3>3. k - 1 < w /\ w < k + q
      BY <1>1, <1>2, <3>1, <3>2
    <3>4. QED
      BY <1>2, <3>3
  <2>3. QED
    BY <2>1, <2>2
<1>6. ASSUME NEW w \in Nat, w * s < a + q * s PROVE w \in Word
  <2>1. a + q * s = (o + 1) * m
    BY <1>1, <1>2
  <2>2. (o + 1) * m <= s * m
    BY <1>1
  <2>3. w * s < m * s
    BY <1>1, <1>6, <2>1, <2>2
  <2>4. w < m
    BY <1>1, <2>3
  <2>5. QED
    BY <1>2, <2>4
<1>7. Hits(s, o) = k .. k + q - 1
  <2>1. Hits(s, o) \subseteq Word /\ Word \subseteq Nat /\ k .. k + q - 1 \subseteq Nat
    BY <1>2 DEF Hits
  <2>2. QED
    BY <1>3, <1>5, <1>6, <2>1
<1>8. Cardinality(k .. k + q - 1) = q
  <2>1. k \in Int /\ k + q - 1 \in Int
    BY <1>2
  <2>2. Cardinality(k .. k + q - 1) = IF k > k + q - 1 THEN 0 ELSE (k + q - 1) - k + 1
    BY <2>1, FS_Interval
  <2>3. QED
    BY <1>2, <2>2
<1>9. QED
  BY <1>7, <1>8 DEF q, m
-----------------------------------------------------------------------------
Attempts == 0 .. MaxRejectionAttempts

ColumnInv ==
  /\ raw \in [Rows -> [Slots -> Word]]
  /\ <<lo, hi>> \in Ranges

LoopInv ==
  /\ attempt \in 0 .. MaxRejectionAttempts + 1
  /\ slot = SlotOf(attempt)
  /\ rows \in Seq(Rows)
  /\ pending \in SUBSET DOMAIN rows
  /\ offsets \in [DOMAIN rows -> Word]
  /\ \A i \in pending : \A a \in 0 .. attempt - 1 : ~Fair(raw[rows[i]][SlotOf(a)])
  /\ \A i \in DOMAIN rows \ pending :
       offsets[i] = WideOffset(rows[i]) /\ offsets[i] \in 0 .. span - 1

PublishedInv == \A r \in Rows : \A v \in published[r] :
  v = ValueOfRow(r) /\ v \in Int /\ lo <= v /\ v < hi

DrawsInv ==
  /\ ColumnInv
  /\ PublishedInv
  /\ pc = "lemire" => span > UniformLimit
  /\ pc = "lemire" => LoopInv
  /\ RaisesOnlyWhenExhausted

(* The slots that the loop draws at are slots of draw_u64's table. *)
LEMMA SlotOfAttempt == \A a \in Attempts : SlotOf(a) \in Slots
BY DrawsAssumption DEF Attempts, SlotOf, Slots

LEMMA RangeFacts ==
  ASSUME ColumnInv
  PROVE  /\ lo \in Int /\ hi \in Int /\ span \in Int /\ span < Modulus
         /\ -Modulus <= 2 * lo /\ 2 * hi <= Modulus
<1>1. PICK range \in Ranges : range = <<lo, hi>>
  BY DEF ColumnInv
<1>2. range \in Int \X Int
  BY DrawsAssumption
<1>3. range[1] = lo /\ range[2] = hi
  BY <1>1
<1>4. lo \in Int /\ hi \in Int
  BY <1>2, <1>3
<1>5. QED
  BY <1>3, <1>4, DrawsAssumption DEF span

(* Accepts, on halves of words, decides Fair, on exact products. *)
LEMMA AcceptsIsFair ==
  ASSUME ColumnInv, span > UniformLimit, NEW c \in Word
  PROVE  /\ span \in Word /\ span > 0
         /\ Accepts(c, span) <=> Fair(c)
         /\ High(c, span) = (c * span) \div Modulus
         /\ High(c, span) \in Word
         /\ High(c, span) \in 0 .. span - 1
<1>1. span \in Word /\ span \in Nat /\ span > 0
  BY RangeFacts, ModulusIsPositive DEF Word
<1>2. QED
  BY <1>1, WideningMultiply, WideningMultiplyDivides, OffsetInSpan DEF Accepts, Fair

(* The first accepted slot of a row is the one at which it was accepted. *)
LEMMA FirstFairIs ==
  ASSUME NEW r, NEW a \in Attempts,
         Fair(raw[r][SlotOf(a)]), \A b \in 0 .. a - 1 : ~Fair(raw[r][SlotOf(b)])
  PROVE  FirstFair(r) = a
<1> DEFINE First(x) == Fair(raw[r][SlotOf(x)]) /\ \A b \in 0 .. x - 1 : ~Fair(raw[r][SlotOf(b)])
<1>1. a \in Attempts /\ First(a)
  OBVIOUS
<1>2. ASSUME NEW x \in Attempts, First(x) PROVE x = a
  <2>1. x \in Int /\ a \in Int /\ 0 <= x /\ 0 <= a
    BY DEF Attempts
  <2>2. ~(x < a)
    BY <1>2, <2>1
  <2>3. ~(a < x)
    BY <1>1, <1>2, <2>1
  <2>4. QED
    BY <2>1, <2>2, <2>3
<1>3. FirstFair(r) = CHOOSE x \in Attempts : First(x)
  BY DEF FirstFair, Attempts
<1> HIDE DEF First
<1>4. QED
  BY <1>1, <1>2, <1>3

(* A turn of the loop keeps what it knows of every row. *)
LEMMA AttemptKeepsLoopInv ==
  ASSUME DrawsInv, LemireAttempt
  PROVE  LoopInv'
<1>1. ColumnInv /\ LoopInv /\ span > UniformLimit /\ pc = "lemire" /\ attempt \in Attempts
  BY DrawsAssumption DEF DrawsInv, LemireAttempt, LoopInv, Attempts
<1> DEFINE cand(i) == raw[rows[i]][slot]
           acc     == {i \in pending : Accepts(cand(i), span)}
<1>2. \A i \in pending : rows[i] \in Rows /\ cand(i) \in Word
  BY <1>1, SlotOfAttempt DEF LoopInv, ColumnInv
<1>3. /\ pending' = pending \ acc
      /\ offsets' = [i \in DOMAIN rows |-> IF i \in acc THEN High(cand(i), span) ELSE offsets[i]]
      /\ slot' = FirstRejectionSlot + attempt /\ attempt' = attempt + 1
      /\ UNCHANGED <<raw, lo, hi, rows>>
  <2>1. {i \in pending : Accepts([j \in pending |-> raw[rows[j]][slot]][i], span)} = acc
    OBVIOUS
  <2>2. \A i \in acc : [j \in pending |-> raw[rows[j]][slot]][i] = cand(i)
    OBVIOUS
  <2>3. QED
    BY <2>1, <2>2 DEF LemireAttempt, column
<1>4. span' = span /\ (\A c : Fair(c)' <=> Fair(c)) /\ \A r : WideOffset(r)' = WideOffset(r)
  BY <1>3 DEF span, Fair, WideOffset, FirstFair
<1>5. slot' = SlotOf(attempt')
  BY <1>1, <1>3, DrawsAssumption DEF SlotOf, Attempts
<1>6. ASSUME NEW i \in acc
      PROVE  /\ High(cand(i), span) \in Word /\ High(cand(i), span) = WideOffset(rows[i])
             /\ High(cand(i), span) \in 0 .. span - 1
  <2>1. i \in pending /\ Accepts(cand(i), span) /\ cand(i) \in Word
    BY <1>2, <1>6
  <2>2. /\ High(cand(i), span) \in Word /\ Fair(cand(i))
        /\ High(cand(i), span) = (cand(i) * span) \div Modulus
        /\ High(cand(i), span) \in 0 .. span - 1
    BY <1>1, <2>1, AcceptsIsFair
  <2>3. cand(i) = raw[rows[i]][SlotOf(attempt)]
    BY <1>1 DEF LoopInv
  <2>4. FirstFair(rows[i]) = attempt
    BY <1>1, <2>1, <2>2, <2>3, FirstFairIs DEF LoopInv
  <2>5. QED
    BY <2>2, <2>3, <2>4 DEF WideOffset
<1>7. ASSUME NEW i \in pending \ acc, NEW a \in 0 .. attempt
      PROVE  ~Fair(raw[rows[i]][SlotOf(a)])
  <2>1. CASE a = attempt
    BY <1>1, <1>2, <1>7, <2>1, AcceptsIsFair DEF LoopInv
  <2>2. CASE a # attempt
    BY <1>1, <1>7, <2>2 DEF LoopInv, Attempts
  <2>3. QED
    BY <2>1, <2>2
<1>8. offsets' \in [DOMAIN rows -> Word]
  BY <1>1, <1>3, <1>6 DEF LoopInv
<1>9. \A i \in DOMAIN rows \ (pending \ acc) :
         offsets'[i] = WideOffset(rows[i]) /\ offsets'[i] \in 0 .. span - 1
  BY <1>1, <1>3, <1>6 DEF LoopInv
<1>10. attempt' \in 0 .. MaxRejectionAttempts + 1 /\ attempt' - 1 = attempt
  <2>1. MaxRejectionAttempts \in Nat
    BY DrawsAssumption
  <2>2. QED
    BY <1>1, <1>3, <2>1 DEF Attempts
<1> HIDE DEF acc, cand
<1>11. QED
  BY <1>1, <1>3, <1>4, <1>5, <1>7, <1>8, <1>9, <1>10 DEF LoopInv, SlotOf

(* What a finished loop publishes is lo plus the offsets of the rows. *)
LEMMA ReturnPublishes ==
  ASSUME DrawsInv, LemireReturn, NEW r \in Rows, NEW v \in published'[r]
  PROVE  v = ValueOfRow(r) /\ v \in Int /\ lo <= v /\ v < hi
<1>1. CASE v \in published[r]
  BY <1>1 DEF DrawsInv, PublishedInv, LemireReturn
<1>2. CASE v \notin published[r]
  <2>1. published'[r] = published[r] \cup
          {Value(offsets[i]) : i \in {j \in DOMAIN rows : rows[j] = r}}
    BY DEF LemireReturn, Publish
  <2>2. PICK i \in DOMAIN rows : rows[i] = r /\ v = Value(offsets[i])
    BY <1>2, <2>1
  <2>3. /\ offsets[i] = WideOffset(r) /\ offsets[i] \in 0 .. span - 1 /\ offsets[i] \in Word
        /\ ColumnInv /\ span > UniformLimit
    BY <2>2 DEF LemireReturn, DrawsInv, LoopInv
  <2>4. /\ lo \in Int /\ hi \in Int /\ offsets[i] \in Int /\ -Modulus <= 2 * lo
        /\ lo <= lo + offsets[i] /\ lo + offsets[i] < hi /\ 2 * (lo + offsets[i]) < Modulus
    BY <2>3, RangeFacts, ModulusIsPositive DEF span
  <2>5. v = lo + offsets[i]
    BY <2>2, <2>3, <2>4, SignedSum DEF Value
  <2>6. QED
    BY <2>3, <2>4, <2>5 DEF ValueOfRow
<1>3. QED
  BY <1>1, <1>2

LEMMA UniformPublishes ==
  ASSUME DrawsInv, NEW batch \in Batches, IntegersByUniform(batch),
         NEW r \in Rows, NEW v \in published'[r]
  PROVE  v = ValueOfRow(r) /\ v \in Int /\ lo <= v /\ v < hi
<1>1. CASE v \in published[r]
  BY <1>1 DEF DrawsInv, PublishedInv
<1>2. CASE v \notin published[r]
  <2> DEFINE o == [i \in DOMAIN batch |-> UniformOffset(raw[batch[i]][BaseSlot], span)]
  <2>1. published'[r] = published[r] \cup
          {Value(o[i]) : i \in {j \in DOMAIN batch : batch[j] = r}}
    BY DEF IntegersByUniform, Publish
  <2>2. PICK i \in DOMAIN batch : batch[i] = r /\ v = Value(o[i])
    BY <1>2, <2>1
  <2>3. v = Value(UniformOffset(raw[r][BaseSlot], span))
    BY <2>2
  <2>4. /\ span \in Nat /\ 0 < span /\ span <= UniformLimit /\ ~(span > UniformLimit)
        /\ lo \in Int /\ hi \in Int /\ -Modulus <= 2 * lo /\ 2 * hi <= Modulus
        /\ span \in Word
    BY RangeFacts, ModulusIsPositive DEF IntegersByUniform, DrawsInv, Word
  <2>5. raw[r][BaseSlot] \in Word
    BY DEF DrawsInv, ColumnInv, Slots
  <2> DEFINE offset == UniformOffset(raw[r][BaseSlot], span)
  <2>6. offset \in 0 .. span - 1
    BY <2>4, <2>5, UniformInSpan
  <2> HIDE DEF offset
  <2>7. /\ offset \in Word /\ lo + offset \in Int /\ lo <= lo + offset /\ lo + offset < hi
        /\ 2 * (lo + offset) < Modulus
    BY <2>4, <2>6, ModulusIsPositive DEF span, Word
  <2>8. Value(offset) = lo + offset
    BY <2>4, <2>7, SignedSum DEF Value
  <2>9. QED
    BY <2>3, <2>4, <2>7, <2>8 DEF ValueOfRow, offset
<1>3. QED
  BY <1>1, <1>2

LEMMA ExhaustedAtCeiling ==
  ASSUME DrawsInv, LemireRaise
  PROVE  \E i \in DOMAIN rows : Exhausted(rows[i])
<1>1. LoopInv /\ pending # {} /\ attempt > MaxRejectionAttempts
  BY DEF DrawsInv, LemireRaise
<1>2. attempt - 1 = MaxRejectionAttempts
  BY <1>1, DrawsAssumption DEF LoopInv
<1>3. QED
  BY <1>1, <1>2 DEF LoopInv, Exhausted

(* The operators that the column alone decides. *)
LEMMA SameColumn ==
  ASSUME UNCHANGED column
  PROVE  /\ span' = span /\ UNCHANGED <<raw, lo, hi>>
         /\ \A r : Exhausted(r)' <=> Exhausted(r)
         /\ \A r : ValueOfRow(r)' = ValueOfRow(r)
         /\ \A r : WideOffset(r)' = WideOffset(r)
         /\ \A c : Fair(c)' <=> Fair(c)
BY DEF column, span, Exhausted, ValueOfRow, WideOffset, Fair, FirstFair, Value

LEMMA DrawsInvInitially == Init => DrawsInv
<1> SUFFICES ASSUME Init PROVE DrawsInv
  OBVIOUS
<1>1. ColumnInv
  <2>1. PICK c \in Columns : raw = c.words /\ lo = c.range[1] /\ hi = c.range[2]
    BY DEF Init
  <2>2. c.range \in Ranges
    BY DEF Ranges
  <2>3. c.range \in Int \X Int /\ c.words \in [Rows -> [Slots -> Word]]
    BY <2>2, DrawsAssumption
  <2>4. <<lo, hi>> = c.range
    BY <2>1, <2>3
  <2>5. QED
    BY <2>1, <2>2, <2>3, <2>4 DEF ColumnInv
<1>2. PublishedInv
  BY DEF Init, PublishedInv
<1>3. pc = "idle" /\ outcome = "none"
  BY DEF Init
<1>4. QED
  BY <1>1, <1>2, <1>3 DEF DrawsInv, RaisesOnlyWhenExhausted

LEMMA DrawsInvStep == DrawsInv /\ [Next]_vars => DrawsInv'
<1> SUFFICES ASSUME DrawsInv, [Next]_vars PROVE DrawsInv'
  OBVIOUS
<1>1. UNCHANGED column
  BY DEF Next, RejectRange, DrawBatch, IntegersByUniform, StartLemire, Loop, LemireAttempt,
         LemireReturn, LemireRaise, vars
<1>2. ColumnInv'
  BY <1>1, SameColumn DEF DrawsInv, ColumnInv
<1> USE DEF DrawsInv, RaisesOnlyWhenExhausted
<1>3. ASSUME UNCHANGED published PROVE PublishedInv'
  BY <1>1, <1>3, SameColumn DEF PublishedInv
<1>4. ASSUME UNCHANGED loop, LoopInv PROVE LoopInv'
  BY <1>1, <1>4, SameColumn DEF LoopInv, loop, SlotOf
<1>5. ASSUME UNCHANGED rows, outcome' = outcome PROVE RaisesOnlyWhenExhausted'
  BY <1>1, <1>5, SameColumn
<1>6. CASE RejectRange
  BY <1>1, <1>2, <1>3, <1>4, <1>6, SameColumn DEF RejectRange, loop
<1>7. ASSUME NEW batch \in Batches, IntegersByUniform(batch) PROVE DrawsInv'
  <2>1. PublishedInv'
    <3>1. ~(span > UniformLimit)
      BY <1>7, RangeFacts, ModulusIsPositive DEF IntegersByUniform
    <3>2. QED
      BY <1>1, <1>7, <3>1, UniformPublishes, SameColumn DEF PublishedInv
  <2>2. pc' = "idle" /\ outcome' = "ok"
    BY <1>7 DEF IntegersByUniform
  <2>3. QED
    BY <1>2, <2>1, <2>2
<1>8. ASSUME NEW batch \in Batches, StartLemire(batch) PROVE DrawsInv'
  <2>1. batch \in Seq(Rows) /\ 0 \in Word
    BY DrawsAssumption, ModulusIsPositive DEF Word
  <2>2. LoopInv'
    <3>1. /\ attempt' = 0 /\ slot' = BaseSlot /\ rows' = batch /\ pending' = DOMAIN batch
          /\ offsets' = [i \in DOMAIN batch |-> 0]
      BY <1>8 DEF StartLemire
    <3>2. attempt' \in 0 .. MaxRejectionAttempts + 1
      BY <3>1, DrawsAssumption
    <3>3. slot' = SlotOf(attempt')
      BY <3>1 DEF SlotOf
    <3>4. QED
      BY <2>1, <3>1, <3>2, <3>3 DEF LoopInv, SlotOf
  <2>3. outcome' = "none" /\ span > UniformLimit /\ UNCHANGED published
    BY <1>8 DEF StartLemire
  <2>4. QED
    BY <1>1, <1>2, <1>3, <2>2, <2>3, SameColumn
<1>9. CASE LemireAttempt
  BY <1>1, <1>2, <1>3, <1>5, <1>9, AttemptKeepsLoopInv, SameColumn DEF LemireAttempt
<1>10. CASE LemireReturn
  <2>1. PublishedInv'
    BY <1>1, <1>10, ReturnPublishes, SameColumn DEF PublishedInv
  <2>2. pc' = "idle" /\ outcome' = "ok"
    BY <1>10 DEF LemireReturn
  <2>3. QED
    BY <1>2, <2>1, <2>2
<1>11. CASE LemireRaise
  BY <1>1, <1>2, <1>3, <1>11, ExhaustedAtCeiling, SameColumn DEF LemireRaise, loop
<1>12. CASE UNCHANGED vars
  BY <1>1, <1>2, <1>3, <1>4, <1>5, <1>12, SameColumn DEF vars, loop
<1>13. QED
  BY <1>6, <1>7, <1>8, <1>9, <1>10, <1>11, <1>12 DEF Next, DrawBatch, Loop

(* The parts of the inductive invariant hold together. *)
THEOREM DrawsInvariance == Spec => []DrawsInv
BY DrawsInvInitially, DrawsInvStep, PTL DEF Spec

(* The integer of a row depends on the column, the row and the slot alone:  *)
(* the chunk it is drawn in, the rows drawn with it and the calls before do *)
(* not matter.                                                              *)
THEOREM RowPurity == Spec => []RowIsPure
<1>1. DrawsInv => RowIsPure
  BY DEF DrawsInv, PublishedInv, RowIsPure
<1>2. QED
  BY <1>1, DrawsInvariance, PTL

(* The integers are in [lo, hi), whatever the wrap of int64 or the rounding *)
(* of float64 does on the way.                                              *)
THEOREM IntegersInRange == Spec => []InRange
<1>1. DrawsInv => InRange
  BY DEF DrawsInv, PublishedInv, InRange
<1>2. QED
  BY <1>1, DrawsInvariance, PTL

(* Each offset is drawn from equally many of the words that are accepted, so *)
(* _lemire_offsets has no bias, for every span that takes that way.          *)
THEOREM NoBias == Spec => []Unbiased
<1>1. DrawsInv => Unbiased
  <2> SUFFICES ASSUME DrawsInv, pc = "lemire", NEW o \in 0 .. span - 1
               PROVE  Cardinality(Hits(span, o)) = Modulus \div span
    BY DEF Unbiased, Hits
  <2>1. span \in Word /\ span > 0
    BY RangeFacts, ModulusIsPositive DEF DrawsInv, Word
  <2>2. QED
    BY <2>1, EquallyManyHits
<1>2. QED
  BY <1>1, DrawsInvariance, PTL

(* The RuntimeError of the ceiling is raised only for a row that each of its *)
(* MAX_REJECTION_ATTEMPTS + 1 draws refused.                                 *)
THEOREM HonestFailure == Spec => []RaisesOnlyWhenExhausted
<1>1. DrawsInv => RaisesOnlyWhenExhausted
  BY DEF DrawsInv
<1>2. QED
  BY <1>1, DrawsInvariance, PTL

(* The loop leaves its variables in their types between calls, too. *)
LEMMA TypeStep == DrawsInv /\ DrawsInv' /\ TypeOK /\ [Next]_vars => TypeOK'
<1> SUFFICES ASSUME DrawsInv, DrawsInv', TypeOK, [Next]_vars PROVE TypeOK'
  OBVIOUS
<1>1. raw' \in [Rows -> [Slots -> Word]] /\ <<lo, hi>>' \in Ranges
  BY DEF DrawsInv, ColumnInv
<1>2. published' \in [Rows -> SUBSET Int]
  <2>1. ASSUME NEW batch, NEW at, Publish(batch, at)
        PROVE  published' \in [Rows -> SUBSET Int]
    <3>1. \A r \in Rows : published'[r] \subseteq Int
      BY DEF DrawsInv, PublishedInv
    <3>2. DOMAIN published' = Rows /\ published' = [r \in Rows |-> published'[r]]
      BY <2>1 DEF Publish
    <3>3. QED
      BY <3>1, <3>2
  <2>2. published' \in [Rows -> SUBSET Int] \/ published' = published
    <3>1. ASSUME NEW batch \in Batches, IntegersByUniform(batch) PROVE published' \in [Rows -> SUBSET Int]
      BY <2>1, <3>1 DEF IntegersByUniform
    <3>2. CASE LemireReturn
      BY <2>1, <3>2 DEF LemireReturn
    <3>3. QED
      BY <3>1, <3>2 DEF Next, RejectRange, DrawBatch, StartLemire, Loop, LemireAttempt, LemireRaise, vars
  <2>3. QED
    BY <2>2 DEF TypeOK
<1>3. /\ pc' \in {"idle", "lemire"}
      /\ outcome' \in {"none", "ok", "ValueError", "RuntimeError"}
  BY DEF TypeOK, Next, RejectRange, DrawBatch, IntegersByUniform, StartLemire, Loop, LemireAttempt,
    LemireReturn, LemireRaise, vars
<1>4. rows' \in Batches \cup {<<>>}
  BY DEF TypeOK, Next, RejectRange, DrawBatch, IntegersByUniform, StartLemire, Loop, LemireAttempt,
    LemireReturn, LemireRaise, vars, loop
<1>5. CASE pc' = "lemire"
  <2>1. LoopInv'
    BY <1>5 DEF DrawsInv
  <2>2. attempt' <= MaxRejectionAttempts => slot' \in Slots
    <3>1. attempt' <= MaxRejectionAttempts => attempt' \in Attempts
      BY <2>1, DrawsAssumption DEF LoopInv, Attempts
    <3>2. slot' = SlotOf(attempt')
      BY <2>1 DEF LoopInv, SlotOf
    <3>3. QED
      BY <3>1, <3>2, SlotOfAttempt
  <2>3. QED
    BY <1>1, <1>2, <1>3, <1>4, <2>1, <2>2 DEF TypeOK, LoopInv
<1>6. CASE pc' = "idle"
  <2>1. UNCHANGED loop
    BY <1>6 DEF TypeOK, Next, RejectRange, DrawBatch, IntegersByUniform, StartLemire, Loop,
      LemireAttempt, LemireReturn, LemireRaise, vars
  <2>2. QED
    BY <1>1, <1>2, <1>3, <1>6, <2>1 DEF TypeOK, loop
<1>7. QED
  BY <1>3, <1>5, <1>6

(* The variables are in their types: a slot that the loop draws at is one of *)
(* draw_u64's, and an offset is a word.                                      *)
THEOREM TypeCorrect == Spec => []TypeOK
<1>1. Init => TypeOK
  <2> SUFFICES ASSUME Init PROVE TypeOK
    OBVIOUS
  <2>1. raw \in [Rows -> [Slots -> Word]] /\ <<lo, hi>> \in Ranges
    BY DrawsInvInitially DEF DrawsInv, ColumnInv
  <2>2. 0 \in 0 .. MaxRejectionAttempts + 1 /\ BaseSlot \in Slots
    BY DrawsAssumption DEF Slots
  <2>3. QED
    BY <2>1, <2>2 DEF Init, TypeOK
<1>2. QED
  BY <1>1, DrawsInvariance, TypeStep, PTL DEF Spec
=============================================================================
