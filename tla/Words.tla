------------------------------- MODULE Words -------------------------------
(***************************************************************************)
(* Machine words as the bytecode and the x86 instructions see them: an     *)
(* n-bit word is a number in 0..2^n-1, read as signed where an instruction *)
(* does. WordBits stands for the 32 bits of an asDWORD; bytes and shorts   *)
(* are its quarter and its half, a 64-bit value is a pair of words.        *)
(***************************************************************************)
EXTENDS Integers, Sequences

CONSTANT WordBits

\* Less leaves no room for a byte of two bits and a floating-point format.
ASSUME WordBitsAssumption ==
  WordBits \in Nat /\ WordBits >= 8 /\ WordBits % 4 = 0

ByteBits == WordBits \div 4
ShortBits == WordBits \div 2
QuadBits == 2 * WordBits

Power(b, e) == LET p[k \in 0..e] == IF k = 0 THEN 1 ELSE b * p[k - 1] IN p[e]
Bits(n) == Power(2, n)
Word == 0..Bits(WordBits) - 1

\* The low n bits of any integer; TLA+'s % is never negative.
Low(x, n) == x % Bits(n)

Signed(x, n) == IF x >= Bits(n - 1) THEN x - Bits(n) ELSE x

IsNegative(x, n) == x >= Bits(n - 1)

\* Sign extension of the low n bits of x to m bits.
Extend(x, n, m) == Low(Signed(Low(x, n), n), m)

MinSigned(n) == Bits(n - 1)
MinusOne(n) == Bits(n) - 1
Complement(x, n) == MinusOne(n) - x

-----------------------------------------------------------------------------
(* 64-bit values: the low word first, as in the frame.                     *)

Quad(lo, hi) == lo + Bits(WordBits) * hi
LowHalf(q) == Low(q, WordBits)
HighHalf(q) == q \div Bits(WordBits)

-----------------------------------------------------------------------------
(* Operations of C++ and of the processor on n-bit words.                  *)

Magnitude(i) == IF i < 0 THEN -i ELSE i

\* Division of C++: the quotient is rounded towards zero.
Quotient(i, j) ==
  LET q == Magnitude(i) \div Magnitude(j)
  IN  IF (i < 0) = (j < 0) THEN q ELSE -q

Remainder(i, j) == i - j * Quotient(i, j)

ShiftLeft(x, c, n) == Low(x * Bits(c), n)
ShiftRight(x, c) == x \div Bits(c)
ShiftArithmetic(x, c, n) == Low(Signed(x, n) \div Bits(c), n)

\* -1, 0 or 1 as a word.
Ordering(i, j) == IF i = j THEN 0 ELSE IF i < j THEN MinusOne(WordBits) ELSE 1

Truth(b) == IF b THEN 1 ELSE 0

\* and, or, xor of n-bit words: the bits of the result, and their number.
BitAt(x, k) == (x \div Bits(k)) % 2

FromBits(b, n) ==
  LET low[k \in 0..n] == IF k = 0 THEN 0 ELSE low[k - 1] + Bits(k - 1) * b[k - 1]
  IN  low[n]

And(x, y, n) == FromBits([k \in 0..n - 1 |-> BitAt(x, k) * BitAt(y, k)], n)
Or(x, y, n) ==
  FromBits([k \in 0..n - 1 |-> Truth(BitAt(x, k) + BitAt(y, k) > 0)], n)
Xor(x, y, n) == FromBits([k \in 0..n - 1 |-> (BitAt(x, k) + BitAt(y, k)) % 2], n)

\* The flags a cmp of the words x and y leaves.
Compare(x, y) ==
  LET d == Low(x - y, WordBits)
      overflow == Signed(x, WordBits) - Signed(y, WordBits)
                    # Signed(d, WordBits)
  IN  [zero |-> d = 0, carry |-> x < y, sign |-> IsNegative(d, WordBits),
       overflow |-> overflow]

SignedLess(f) == f.sign # f.overflow
SignedGreater(f) == ~f.zero /\ ~SignedLess(f)
UnsignedGreater(f) == ~f.zero /\ ~f.carry

-----------------------------------------------------------------------------
(* A small binary floating-point format: a sign, an exponent of 3 bits (4  *)
(* for doubles) and Mantissa(n) bits, with gradual underflow at one, so    *)
(* that every finite number is an integer. The codes above the largest     *)
(* finite one are the infinity and, beyond it, the NaNs.                   *)

Mantissa(n) == IF n = QuadBits THEN n - 5 ELSE n - 4
Code(x, n) == Low(x, n - 1)
InfinityCode(n) == Bits(n - 1) - Bits(Mantissa(n))
NaN(n) == InfinityCode(n) + 1

IsZero(x, n) == Code(x, n) = 0
IsNaN(x, n) == Code(x, n) > InfinityCode(n)
IsFinite(x, n) == Code(x, n) < InfinityCode(n)

\* A monotone image of a number, with one zero.
Rank(x, n) == IF IsNegative(x, n) THEN -Code(x, n) ELSE Code(x, n)

\* The integer a finite code stands for.
Value(x, n) ==
  LET m == Mantissa(n)
      e == Code(x, n) \div Bits(m)
      f == Code(x, n) % Bits(m)
      v == IF e = 0 THEN f ELSE (Bits(m) + f) * Bits(e - 1)
  IN  IF IsNegative(x, n) THEN -v ELSE v

RoundHalfEven(i, d) ==
  LET q == i \div d
      r == i % d
  IN  IF 2 * r > d \/ (2 * r = d /\ q % 2 = 1) THEN q + 1 ELSE q

\* No magnitude that occurs has more bits than this bound.
BitLength(i) ==
  CHOOSE k \in 0..QuadBits + 14 :
    Bits(k) > i /\ (k = 0 \/ Bits(k - 1) <= i)

\* The nearest number of the format, with the sign of i.
Nearest(i, n) ==
  LET p == Mantissa(n) + 1
      a == Magnitude(i)
      s == BitLength(a) - p
      c == IF s <= 0 THEN a ELSE s * Bits(p - 1) + RoundHalfEven(a, Bits(s))
      code == IF c > InfinityCode(n) THEN InfinityCode(n) ELSE c
  IN  IF i < 0 THEN code + Bits(n - 1) ELSE code

Negated(x, n) == Low(x + Bits(n - 1), n)

SumOf(x, y, n) ==
  IF IsFinite(x, n) /\ IsFinite(y, n) THEN Nearest(Value(x, n) + Value(y, n), n)
  ELSE NaN(n)

\* A number of one format in another.
Converted(x, n, m) ==
  IF IsFinite(x, n) THEN Nearest(Value(x, n), m)
  ELSE IF IsNaN(x, n) THEN NaN(m)
  ELSE InfinityCode(m) + (IF IsNegative(x, n) THEN Bits(m - 1) ELSE 0)

\* Products, quotients, remainders and powers of the floating-point unit and
\* of the C library: some fixed function of the operands.
Opaque(kind, x, y, n) == Low(7 * x + 13 * y + kind + ShiftRight(x, 2), n)

\* Conversion to an integer of m bits, with the processor's "integer
\* indefinite" value for what does not fit.
Truncated(x, n, m) ==
  IF IsFinite(x, n) /\ Value(x, n) \in -Bits(m - 1)..Bits(m - 1) - 1
  THEN Low(Value(x, n), m) ELSE MinSigned(m)

=============================================================================
