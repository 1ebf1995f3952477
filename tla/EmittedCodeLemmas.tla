------------------------- MODULE EmittedCodeLemmas --------------------------
(***************************************************************************)
(* What the proofs about emitted code rest on. Words: powers of two,       *)
(* halves, products, shifts and logic of words of any width that is a      *)
(* multiple of four bits, against the quads they make up. Frames:          *)
(* registers and memory together are one frame.                            *)
(***************************************************************************)
EXTENDS EmittedMemory, TLAPS, WellFoundedInduction

-----------------------------------------------------------------------------
(* Induction and recursion over the numbers, for the recursive functions   *)
(* of Words.                                                               *)

\* A set of numbers that is not empty has a least one.
LEMMA LeastExists ==
  ASSUME NEW T \in SUBSET Nat, T # {}
  PROVE  \E t \in T : \A y \in T : t <= y
<1>1. PICK t \in T : \A y \in T : ~(<<y, t>> \in OpToRel(<, Nat))
  BY WFMin, NatLessThanWellFounded
<1>2. ASSUME NEW y \in T PROVE t <= y
  <2>1. y \in Nat /\ t \in Nat
    OBVIOUS
  <2>2. <<y, t>> \in Nat \X Nat /\ <<y, t>>[1] = y /\ <<y, t>>[2] = t
    BY <2>1
  <2>3. y < t => <<y, t>> \in OpToRel(<, Nat)
    BY <2>2, Zenon DEF OpToRel
  <2>4. ~(y < t)
    BY <1>1, <2>3, Zenon
  <2> QED  BY <2>1, <2>4
<1> QED  BY <1>2

\* Induction over a set of numbers.
LEMMA SetInduction ==
  ASSUME NEW S, 0 \in S, \A n \in Nat : n \in S => n + 1 \in S
  PROVE  \A n \in Nat : n \in S
<1> DEFINE T == {n \in Nat : n \notin S}
<1>1. SUFFICES ASSUME T # {} PROVE FALSE
  OBVIOUS
<1>2. PICK t \in T : \A y \in T : t <= y
  <2>1. T \in SUBSET Nat
    OBVIOUS
  <2> HIDE DEF T
  <2> QED  BY <1>1, <2>1, LeastExists
<1>3. t # 0 /\ t \in Nat
  OBVIOUS
<1>4. t - 1 \in Nat /\ t - 1 \notin T
  BY <1>2, <1>3
<1>5. t - 1 + 1 = t /\ t - 1 \in S
  BY <1>3, <1>4
<1>6. t \in S
  BY <1>4, <1>5
<1> QED  BY <1>6

\* A product of numbers is a number.
LEMMA ProductIsNatural ==
  ASSUME NEW n \in Nat, NEW d \in Nat
  PROVE  n * d \in Nat /\ (d >= 1 => n * d >= n)
<1> DEFINE S == {k \in Nat : n * k \in Nat /\ (k >= 1 => n * k >= n)}
<1>1. 0 \in S
  BY SMT
<1>2. ASSUME NEW k \in Nat, k \in S PROVE k + 1 \in S
  <2>1. n * (k + 1) = n * k + n
    BY SMT
  <2> QED  BY <1>2, <2>1
<1>3. \A k \in Nat : k \in S
  <2> HIDE DEF S
  <2> QED  BY <1>1, <1>2, SetInduction
<1> QED  BY <1>3

\* Quotient and remainder, and their bounds.
LEMMA DivideAgain ==
  ASSUME NEW n \in Nat, n > 0, NEW x \in Int
  PROVE  x = n * (x \div n) + (x % n) /\ x % n \in 0..n - 1 /\ x \div n \in Int
BY SMT

\* The quotient and the remainder are the only ones.
LEMMA DivideOnce ==
  ASSUME NEW n \in Nat, n > 0, NEW k \in Int, NEW r \in 0..n - 1, NEW x \in Int,
         x = n * k + r
  PROVE  x % n = r /\ x \div n = k
<1>1. PICK q \in Int, s \in 0..n-1 : q = x \div n /\ s = x % n /\ x = n*q + s
  BY DivideAgain
<1>2. n * (k - q) = s - r /\ n * (q - k) = r - s
  <2>1. n * (k - q) = n * k - n * q /\ n * (q - k) = n * q - n * k
    OBVIOUS
  <2> QED  BY <2>1, <1>1
<1>3. ~(k - q >= 1)
  <2>1. SUFFICES ASSUME k - q >= 1 PROVE FALSE
    OBVIOUS
  <2>2. PICK d \in Nat : d = k - q /\ d >= 1
    BY <2>1
  <2>3. n * d >= n
    BY <2>2, ProductIsNatural
  <2> QED  BY <2>2, <2>3, <1>2
<1>4. ~(q - k >= 1)
  <2>1. SUFFICES ASSUME q - k >= 1 PROVE FALSE
    OBVIOUS
  <2>2. PICK d \in Nat : d = q - k /\ d >= 1
    BY <2>1
  <2>3. n * d >= n
    BY <2>2, ProductIsNatural
  <2> QED  BY <2>2, <2>3, <1>2
<1>5. k = q
  BY <1>3, <1>4
<1> QED  BY <1>1, <1>5

-----------------------------------------------------------------------------
(* Recursion up to a number: s is the function of the step and of what the *)
(* step before it gave.                                                    *)

Follows(f, n, z, s) ==
  /\ f = [k \in 0..n |-> f[k]]
  /\ \A k \in 0..n : f[k] = IF k = 0 THEN z ELSE s[<<k, f[k - 1]>>]

\* What such a function is at a number.
LEMMA FollowsAt ==
  ASSUME NEW f, NEW n, NEW z, NEW s, Follows(f, n, z, s), NEW k \in 0..n
  PROVE  f[k] = IF k = 0 THEN z ELSE s[<<k, f[k - 1]>>]
BY Zenon DEF Follows

\* There is one up to every number.
LEMMA RecursionExists ==
  ASSUME NEW z, NEW s, NEW n \in Nat
  PROVE  \E f : Follows(f, n, z, s)
<1> DEFINE S == {k \in Nat : \E f : Follows(f, k, z, s)}
<1>1. 0 \in S
  <2> DEFINE f == [k \in 0..0 |-> z]
  <2>1. Follows(f, 0, z, s)
    BY DEF Follows
  <2> HIDE DEF f
  <2> QED  BY <2>1
<1>2. ASSUME NEW k \in Nat, k \in S PROVE k + 1 \in S
  <2>1. PICK g : Follows(g, k, z, s)
    BY <1>2
  <2> DEFINE f == [j \in 0..k + 1 |-> IF j = k + 1 THEN s[<<k + 1, g[k]>>] ELSE g[j]]
  <2>2. \A j \in 0..k + 1 : f[j] = IF j = 0 THEN z ELSE s[<<j, f[j - 1]>>]
    <3> SUFFICES ASSUME NEW j \in 0..k + 1
                 PROVE  f[j] = IF j = 0 THEN z ELSE s[<<j, f[j - 1]>>]
      OBVIOUS
    <3>1. CASE j = k + 1
      <4>1. f[j] = s[<<k + 1, g[k]>>] /\ f[j - 1] = g[k] /\ j - 1 = k /\ j # 0
        BY <3>1
      <4> HIDE DEF f
      <4> QED  BY <3>1, <4>1
    <3>2. CASE j # k + 1
      <4>1. j \in 0..k /\ f[j] = g[j] /\ (j # 0 => f[j - 1] = g[j - 1])
        BY <3>2
      <4>2. g[j] = IF j = 0 THEN z ELSE s[<<j, g[j - 1]>>]
        BY <2>1, <4>1 DEF Follows
      <4> HIDE DEF f
      <4> QED  BY <4>1, <4>2
    <3> QED  BY <3>1, <3>2
  <2>3. f = [j \in 0..k + 1 |-> f[j]]
    OBVIOUS
  <2>4. Follows(f, k + 1, z, s)
    <3> HIDE DEF f
    <3> QED  BY <2>2, <2>3 DEF Follows
  <2> HIDE DEF f
  <2> QED  BY <2>4
<1>3. \A k \in Nat : k \in S
  <2> HIDE DEF S
  <2> QED  BY <1>1, <1>2, SetInduction
<1> QED  BY <1>3

\* A recursive function over the numbers is given by its first value and its
\* step.
LEMMA RecursionAgrees ==
  ASSUME NEW z, NEW s, NEW m \in Nat, NEW n \in Nat, NEW f, NEW g,
         Follows(f, m, z, s), Follows(g, n, z, s)
  PROVE  \A k \in Nat : k <= m /\ k <= n => f[k] = g[k]
<1> DEFINE S == {k \in Nat : k <= m /\ k <= n => f[k] = g[k]}
<1>1. 0 \in S
  <2>1. 0 \in 0..m /\ 0 \in 0..n
    OBVIOUS
  <2>2. f[0] = z
    BY <2>1, FollowsAt, ZenonT(30)
  <2>3. g[0] = z
    BY <2>1, FollowsAt, ZenonT(30)
  <2> QED  BY <2>2, <2>3
<1>2. ASSUME NEW k \in Nat, k \in S PROVE k + 1 \in S
  <2> SUFFICES ASSUME k + 1 <= m, k + 1 <= n PROVE f[k + 1] = g[k + 1]
    OBVIOUS
  <2>1. f[k] = g[k] /\ k + 1 \in 0..m /\ k + 1 \in 0..n /\ k + 1 # 0 /\ k + 1 - 1 = k
    BY <1>2
  <2>2. f[k + 1] = s[<<k + 1, f[k + 1 - 1]>>] /\ g[k + 1] = s[<<k + 1, g[k + 1 - 1]>>]
    BY <2>1, FollowsAt
  <2> QED  BY <2>1, <2>2
<1>3. \A k \in Nat : k \in S
  <2> HIDE DEF S
  <2> QED  BY <1>1, <1>2, SetInduction
<1> QED  BY <1>3

-----------------------------------------------------------------------------
(* Powers: Power(b, e) and the powers of two.                              *)

Times(b) == [x \in Nat \X Int |-> b * x[2]]

\* What follows from an integer by a function into the integers stays there.
LEMMA RecursionStays ==
  ASSUME NEW z \in Int, NEW s \in [Nat \X Int -> Int], NEW n \in Nat, NEW f,
         Follows(f, n, z, s)
  PROVE  \A k \in Nat : k <= n => f[k] \in Int
<1> DEFINE S == {k \in Nat : k <= n => f[k] \in Int}
<1>1. 0 \in S
  <2>1. 0 \in 0..n
    OBVIOUS
  <2>2. f[0] = z
    BY <2>1, FollowsAt
  <2> QED  BY <2>2
<1>2. ASSUME NEW k \in Nat, k \in S PROVE k + 1 \in S
  <2> SUFFICES ASSUME k + 1 <= n PROVE f[k + 1] \in Int
    OBVIOUS
  <2>1. f[k] \in Int /\ k + 1 \in 0..n /\ k + 1 # 0 /\ k + 1 - 1 = k
    BY <1>2
  <2>2. f[k + 1] = s[<<k + 1, f[k + 1 - 1]>>]
    BY <2>1, FollowsAt
  <2>3. <<k + 1, f[k]>> \in Nat \X Int
    BY <2>1
  <2> QED  BY <2>1, <2>2, <2>3
<1>3. \A k \in Nat : k \in S
  <2> HIDE DEF S
  <2> QED  BY <1>1, <1>2, SetInduction
<1> QED  BY <1>3

Powers(p, b, e) == p = [k \in 0..e |-> IF k = 0 THEN 1 ELSE b * p[k - 1]]

\* The powers up to e, as a function.
LEMMA PowersAt ==
  ASSUME NEW b, NEW e, NEW p, Powers(p, b, e), NEW k \in 0..e
  PROVE  p[k] = IF k = 0 THEN 1 ELSE b * p[k - 1]
BY Zenon DEF Powers

\* There is such a function for every e.
LEMMA PowersExist ==
  ASSUME NEW b \in Int, NEW e \in Nat
  PROVE  \E p : Powers(p, b, e)
<1>1. PICK p : Follows(p, e, 1, Times(b))
  BY RecursionExists
<1>2. Times(b) \in [Nat \X Int -> Int]
  BY DEF Times
<1>3. \A k \in Nat : k <= e => p[k] \in Int
  BY <1>1, <1>2, RecursionStays
<1>4. \A k \in 0..e : p[k] = IF k = 0 THEN 1 ELSE b * p[k - 1]
  <2> SUFFICES ASSUME NEW k \in 0..e
               PROVE  p[k] = IF k = 0 THEN 1 ELSE b * p[k - 1]
    OBVIOUS
  <2>1. p[k] = IF k = 0 THEN 1 ELSE Times(b)[<<k, p[k - 1]>>]
    BY <1>1, FollowsAt
  <2>2. CASE k = 0
    BY <2>1, <2>2
  <2>3. CASE k # 0
    <3>1. <<k, p[k - 1]>> \in Nat \X Int
      BY <1>3, <2>3
    <3> QED  BY <2>1, <2>3, <3>1 DEF Times
  <2> QED  BY <2>2, <2>3
<1>5. p = [k \in 0..e |-> p[k]]
  BY <1>1 DEF Follows
<1>6. [k \in 0..e |-> p[k]] = [k \in 0..e |-> IF k = 0 THEN 1 ELSE b * p[k - 1]]
  BY <1>4
<1> QED  BY <1>5, <1>6, Zenon DEF Powers

\* Power is its last value.
LEMMA PowerOfPowers ==
  ASSUME NEW b \in Int, NEW e \in Nat
  PROVE  \E p : Powers(p, b, e) /\ Power(b, e) = p[e]
<1>1. PICK p : p = CHOOSE q : Powers(q, b, e)
  OBVIOUS
<1>2. Powers(p, b, e)
  BY <1>1, PowersExist, Zenon
<1>3. Power(b, e) = (CHOOSE q : Powers(q, b, e))[e]
  BY Zenon DEF Power, Powers
<1> QED  BY <1>1, <1>2, <1>3

\* Two such functions agree where both are defined.
LEMMA PowersAgree ==
  ASSUME NEW b \in Int, NEW m \in Nat, NEW n \in Nat, NEW p, NEW q,
         Powers(p, b, m), Powers(q, b, n)
  PROVE  \A k \in Nat : k <= m /\ k <= n => p[k] = q[k] /\ p[k] \in Int
<1> DEFINE S == {k \in Nat : k <= m /\ k <= n => p[k] = q[k] /\ p[k] \in Int}
<1>1. 0 \in S
  <2>1. p[0] = 1 /\ q[0] = 1
    BY PowersAt
  <2> QED  BY <2>1
<1>2. ASSUME NEW k \in Nat, k \in S PROVE k + 1 \in S
  <2> SUFFICES ASSUME k + 1 <= m, k + 1 <= n
               PROVE  p[k + 1] = q[k + 1] /\ p[k + 1] \in Int
    OBVIOUS
  <2>1. /\ p[k] = q[k] /\ p[k] \in Int
        /\ k + 1 \in 0..m /\ k + 1 \in 0..n /\ k + 1 # 0 /\ k + 1 - 1 = k
    BY <1>2
  <2>2. p[k + 1] = b * p[k + 1 - 1] /\ q[k + 1] = b * q[k + 1 - 1]
    BY <2>1, PowersAt
  <2> QED  BY <2>1, <2>2
<1>3. \A k \in Nat : k \in S
  <2> HIDE DEF S
  <2> QED  BY <1>1, <1>2, SetInduction
<1> QED  BY <1>3

\* The equations of the power.
LEMMA PowerEquations ==
  ASSUME NEW b \in Int, NEW e \in Nat
  PROVE  /\ Power(b, 0) = 1
         /\ Power(b, e) \in Int
         /\ Power(b, e + 1) = b * Power(b, e)
<1>1. PICK p : Powers(p, b, e) /\ Power(b, e) = p[e]
  BY PowerOfPowers
<1>2. PICK q : Powers(q, b, e + 1) /\ Power(b, e + 1) = q[e + 1]
  <2>1. e + 1 \in Nat
    OBVIOUS
  <2> QED  BY <2>1, PowerOfPowers
<1>3. PICK r : Powers(r, b, 0) /\ Power(b, 0) = r[0]
  BY PowerOfPowers
<1>4. r[0] = 1
  BY <1>3, PowersAt
<1>5. p[e] = q[e] /\ p[e] \in Int
  <2>1. e + 1 \in Nat /\ e <= e + 1 /\ e <= e
    OBVIOUS
  <2> QED  BY <1>1, <1>2, <2>1, PowersAgree
<1>6. q[e + 1] = b * q[e + 1 - 1]
  <2>1. e + 1 \in 0..e + 1 /\ e + 1 # 0
    OBVIOUS
  <2> QED  BY <1>2, <2>1, PowersAt
<1> QED  BY <1>1, <1>2, <1>3, <1>4, <1>5, <1>6

\* Exponents add.
LEMMA PowerOfSum ==
  ASSUME NEW b \in Int, NEW m \in Nat, NEW n \in Nat
  PROVE  Power(b, m + n) = Power(b, m) * Power(b, n)
<1> DEFINE S == {k \in Nat : Power(b, m + k) = Power(b, m) * Power(b, k)}
<1>0. Power(b, m) \in Int
  BY PowerEquations
<1>1. 0 \in S
  <2>1. Power(b, 0) = 1 /\ m + 0 = m
    BY PowerEquations
  <2> QED  BY <1>0, <2>1
<1>2. ASSUME NEW k \in Nat, k \in S PROVE k + 1 \in S
  <2>1. Power(b, k) \in Int /\ Power(b, k + 1) = b * Power(b, k)
    BY PowerEquations
  <2>2. PICK j \in Nat : j = m + k
    OBVIOUS
  <2>3. Power(b, j + 1) = b * Power(b, j)
    BY PowerEquations
  <2>4. Power(b, j) = Power(b, m) * Power(b, k)
    BY <1>2, <2>2
  <2>5. m + (k + 1) = j + 1
    BY <2>2
  <2>6. b * (Power(b, m) * Power(b, k)) = Power(b, m) * (b * Power(b, k))
    BY <1>0, <2>1
  <2>7. Power(b, m + (k + 1)) = Power(b, m) * Power(b, k + 1)
    BY <2>1, <2>3, <2>4, <2>5, <2>6
  <2> QED  BY <2>7
<1>3. \A k \in Nat : k \in S
  <2> HIDE DEF S
  <2> QED  BY <1>1, <1>2, SetInduction
<1> QED  BY <1>3

\* Powers of two double.
LEMMA BitsEquations ==
  ASSUME NEW n \in Nat
  PROVE  Bits(0) = 1 /\ Bits(n + 1) = 2 * Bits(n) /\ Bits(n) \in Int
BY PowerEquations DEF Bits

\* Exponents of two add.
LEMMA BitsOfSum ==
  ASSUME NEW m \in Nat, NEW n \in Nat
  PROVE  Bits(m + n) = Bits(m) * Bits(n)
BY PowerOfSum DEF Bits

\* A power of two is a positive number.
LEMMA BitsPositive ==
  ASSUME NEW n \in Nat
  PROVE  Bits(n) \in Nat /\ Bits(n) > 0
<1> DEFINE S == {k \in Nat : Bits(k) \in Nat /\ Bits(k) > 0}
<1>1. 0 \in S
  BY BitsEquations
<1>2. ASSUME NEW k \in Nat, k \in S PROVE k + 1 \in S
  <2>1. Bits(k + 1) = 2 * Bits(k)
    BY BitsEquations
  <2> QED  BY <1>2, <2>1
<1>3. \A k \in Nat : k \in S
  <2> HIDE DEF S
  <2> QED  BY <1>1, <1>2, SetInduction
<1> QED  BY <1>3

\* More bits, more numbers.
LEMMA BitsGrow ==
  ASSUME NEW m \in Nat, NEW n \in Nat, m <= n
  PROVE  Bits(m) <= Bits(n)
<1>1. PICK d \in Nat : n = m + d
  <2>1. n - m \in Nat /\ n = m + (n - m)
    OBVIOUS
  <2> QED  BY <2>1
<1>2. Bits(n) = Bits(m) * Bits(d)
  BY <1>1, BitsOfSum
<1>3. PICK x \in Nat, y \in Nat : x = Bits(m) /\ y = Bits(d) /\ y >= 1
  <2>1. Bits(m) \in Nat /\ Bits(d) \in Nat /\ Bits(d) > 0
    BY BitsPositive
  <2> QED  BY <2>1
<1>4. x * y >= x
  BY <1>3, ProductIsNatural
<1> QED  BY <1>2, <1>3, <1>4

\* The first powers of two.
LEMMA SmallBits ==
  Bits(1) = 2 /\ Bits(2) = 4 /\ Bits(3) = 8 /\ Bits(4) = 16
<1>1. Bits(0 + 1) = 2 * Bits(0) /\ Bits(1 + 1) = 2 * Bits(1) /\ Bits(2 + 1) = 2 * Bits(2)
      /\ Bits(3 + 1) = 2 * Bits(3) /\ Bits(0) = 1
  BY BitsEquations
<1>2. Bits(1) = 2
  BY <1>1
<1>3. Bits(2) = 4
  BY <1>1, <1>2
<1>4. Bits(3) = 8
  BY <1>1, <1>3
<1> QED  BY <1>1, <1>2, <1>3, <1>4

-----------------------------------------------------------------------------
(* Words, their parts and the two halves of a quad.                        *)

Base == Bits(WordBits)
Top1 == Bits(WordBits - 1)

\* A word has a positive number of bits, and more than its parts.
LEMMA Sizes ==
  /\ WordBits \in Nat /\ QuadBits \in Nat /\ WordBits - 1 \in Nat /\ QuadBits - 1 \in Nat
  /\ ByteBits \in Nat /\ ShortBits \in Nat
  /\ 2 <= ByteBits /\ ByteBits < ShortBits /\ ShortBits < WordBits /\ WordBits < QuadBits
  /\ QuadBits = WordBits + WordBits /\ QuadBits - 1 = WordBits + (WordBits - 1)
BY WordBitsAssumption DEF QuadBits, ByteBits, ShortBits

\* The numbers of values of words, parts and quads.
LEMMA Bases ==
  /\ Base \in Nat /\ Base >= 256 /\ Top1 \in Nat /\ Base = 2 * Top1
  /\ Bits(QuadBits) = Base * Base
  /\ Bits(QuadBits - 1) = Base * Top1
  /\ Word = 0..Base - 1
<1>1. Bits(QuadBits) = Base * Base /\ Bits(QuadBits - 1) = Base * Top1
  BY Sizes, BitsOfSum DEF Base, Top1
<1>2. Base \in Nat /\ Top1 \in Nat
  BY Sizes, BitsPositive DEF Base, Top1
<1>3. Base = 2 * Top1
  <2>0. WordBits - 1 \in Nat /\ WordBits = (WordBits - 1) + 1
    BY WordBitsAssumption
  <2>1. PICK k \in Nat : k = WordBits - 1 /\ WordBits = k + 1
    BY <2>0
  <2>2. Bits(k + 1) = 2 * Bits(k)
    BY BitsEquations
  <2> QED  BY <2>1, <2>2 DEF Base, Top1
<1>4. Base >= 256
  <2>1. Bits(8) = Bits(4) * Bits(4)
    <3>1. Bits(4 + 4) = Bits(4) * Bits(4)
      BY BitsOfSum
    <3> QED  BY <3>1
  <2>2. Bits(8) = 256
    BY <2>1, SmallBits
  <2>3. Bits(8) <= Bits(WordBits)
    BY WordBitsAssumption, BitsGrow
  <2> QED  BY <2>2, <2>3, <1>2 DEF Base
<1> QED  BY <1>1, <1>2, <1>3, <1>4 DEF Word, Base

\* The low bits of a number are what a power of two leaves of it.
LEMMA LowIs ==
  ASSUME NEW n \in Nat, NEW x \in Int
  PROVE  /\ Low(x, n) \in 0..Bits(n) - 1
         /\ \E k \in Int : x = Bits(n) * k + Low(x, n)
<1>1. Bits(n) \in Nat /\ Bits(n) > 0
  BY BitsPositive
<1>2. x = Bits(n) * (x \div Bits(n)) + (x % Bits(n)) /\ x % Bits(n) \in 0..Bits(n) - 1
      /\ x \div Bits(n) \in Int
  BY <1>1, DivideAgain
<1> QED  BY <1>2 DEF Low

\* They are the only number in range that is congruent.
LEMMA LowOnce ==
  ASSUME NEW n \in Nat, NEW k \in Int, NEW r \in 0..Bits(n) - 1, NEW x \in Int,
         x = Bits(n) * k + r
  PROVE  Low(x, n) = r /\ x \div Bits(n) = k
<1>1. PICK b \in Nat : b = Bits(n) /\ b > 0
  BY BitsPositive
<1>2. x = b * k + r /\ r \in 0..b - 1
  BY <1>1
<1>3. x % b = r /\ x \div b = k
  <2>1. b > 0
    BY <1>1
  <2> QED  BY <1>2, <2>1, DivideOnce, Zenon
<1> QED  BY <1>1, <1>3 DEF Low

\* Low bits of low bits.
LEMMA LowKeeps ==
  ASSUME NEW n \in Nat, NEW r \in 0..Bits(n) - 1
  PROVE  Low(r, n) = r
<1>1. r \in Int /\ r = Bits(n) * 0 + r
  BY BitsPositive
<1> QED  BY <1>1, LowOnce

\* A word is its own low word.
LEMMA LowOfWord ==
  ASSUME NEW x \in Word
  PROVE  Low(x, WordBits) = x /\ Half(x) = x
BY Sizes, LowKeeps DEF Word, Half

\* The halves of a quad are words.
LEMMA HalfIsWord ==
  ASSUME NEW x \in Int
  PROVE  /\ Half(x) \in Word /\ Low(x, WordBits) = Half(x)
         /\ \E k \in Int : x = Half(x) + Base * k
<1>1. /\ Low(x, WordBits) \in 0..Bits(WordBits) - 1
      /\ \E k \in Int : x = Bits(WordBits) * k + Low(x, WordBits)
  BY Sizes, LowIs
<1>2. PICK k \in Int : x = Bits(WordBits) * k + Low(x, WordBits)
  BY <1>1
<1>3. Low(x, WordBits) \in Int /\ Bits(WordBits) \in Nat
  BY <1>1, Sizes, BitsPositive
<1>4. x = Low(x, WordBits) + Bits(WordBits) * k
  BY <1>2, <1>3
<1> QED  BY <1>1, <1>4 DEF Base, Half, Word

\* Words are numbers.
LEMMA WordIsNat == Word \subseteq Nat /\ 0 \in Word /\ 1 \in Word
BY Bases

\* A quad has one low and one high half.
LEMMA HalfOnce ==
  ASSUME NEW x \in Int, NEW k \in Int, NEW r \in Word, x = r + Base * k
  PROVE  Half(x) = r /\ HighHalf(x) = k
<1>1. x = Bits(WordBits) * k + r
  BY Bases, WordIsNat DEF Base
<1> QED  BY <1>1, Sizes, LowOnce, ZenonT(30) DEF Half, HighHalf, Word

\* A number written as a word and any multiple of the base.
LEMMA HalvesOf ==
  ASSUME NEW lo \in Word, NEW hi \in Int, NEW x \in Int, x = lo + Base * hi
  PROVE  /\ Halves(x) = <<lo, Half(hi)>>
         /\ Low(x, QuadBits) = Quad(lo, Half(hi))
<1>1. PICK k \in Int : hi = Half(hi) + Base * k
  BY HalfIsWord
<1>2. Half(hi) \in Word
  BY HalfIsWord
<1>3. PICK h \in Word : h = Half(hi) /\ h \in Nat /\ lo \in Nat
  BY <1>2, WordIsNat
<1>4. PICK b \in Nat : b = Base /\ b >= 256 /\ Word = 0..b - 1
  BY Bases
<1>5. b * h \in Nat /\ b * b \in Nat /\ b * h <= b * b - b
  <2>1. PICK d \in Nat : d = b - 1 - h
    BY <1>4
  <2>2. b * d \in Nat /\ b * h \in Nat /\ b * b \in Nat
    BY <1>4, ProductIsNatural
  <2>3. b * d = b * (b - 1 - h)
    BY <2>1
  <2>4. b * (b - 1 - h) = b * b - b - b * h
    BY <1>3
  <2> QED  BY <2>2, <2>3, <2>4
<1>6. lo + b * h \in 0..b * b - 1
  BY <1>4, <1>5
<1>7. x = (b * b) * k + (lo + b * h)
  <2>1. x = lo + b * (h + b * k)
    BY <1>1, <1>3, <1>4
  <2>2. b * (h + b * k) = b * h + (b * b) * k
    BY <1>3
  <2> QED  BY <2>1, <2>2, <1>4
<1>8. Low(x, QuadBits) = lo + b * h
  <2>1. Bits(QuadBits) = b * b
    BY Bases, <1>4
  <2>2. PICK r \in 0..Bits(QuadBits) - 1 : r = lo + b * h
    BY <2>1, <1>6
  <2>3. x = Bits(QuadBits) * k + r
    BY <1>7, <2>1, <2>2
  <2>4. PICK n \in Nat : n = QuadBits
    BY Sizes
  <2>5. r \in 0..Bits(n) - 1 /\ x = Bits(n) * k + r
    BY <2>3, <2>4
  <2>6. Low(x, n) = r /\ x \div Bits(n) = k
    BY <2>5, LowOnce, ZenonT(30)
  <2> QED  BY <2>2, <2>4, <2>6
<1>9. PICK q \in Int : q = lo + b * h
  BY <1>6
<1>10. Half(q) = lo /\ HighHalf(q) = h
  <2>1. q = lo + Base * h /\ h \in Int
    BY <1>3, <1>9, <1>4
  <2> QED  BY <2>1, HalfOnce
<1>11. Halves(x) = <<lo, h>>
  BY <1>8, <1>9, <1>10 DEF Halves, LowHalf, Half
<1> QED  BY <1>3, <1>4, <1>8, <1>11 DEF Quad, Base

\* Two words make a number of quad size.
LEMMA QuadIsQuad ==
  ASSUME NEW lo \in Word, NEW hi \in Word
  PROVE  /\ Quad(lo, hi) \in 0..Bits(QuadBits) - 1
         /\ Low(Quad(lo, hi), QuadBits) = Quad(lo, hi)
         /\ LowHalf(Quad(lo, hi)) = lo /\ HighHalf(Quad(lo, hi)) = hi
         /\ Halves(Quad(lo, hi)) = <<lo, hi>>
<1>1. Base \in Nat /\ Base * hi \in Int /\ lo \in Int /\ hi \in Int
  BY Bases, WordIsNat
<1>2. PICK x \in Int : x = Quad(lo, hi) /\ x = lo + Base * hi
  BY <1>1 DEF Quad, Base
<1>3. Half(hi) = hi
  BY LowOfWord
<1>4. Halves(x) = <<lo, hi>> /\ Low(x, QuadBits) = Quad(lo, hi)
  <2>1. /\ Halves(x) = <<lo, Half(hi)>>
        /\ Low(x, QuadBits) = Quad(lo, Half(hi))
    BY <1>1, <1>2, HalvesOf
  <2> QED  BY <1>3, <2>1
<1>5. Low(x, QuadBits) \in 0..Bits(QuadBits) - 1
  BY Sizes, LowIs
<1>6. Half(x) = lo /\ HighHalf(x) = hi
  BY <1>1, <1>2, HalfOnce
<1> QED  BY <1>2, <1>4, <1>5, <1>6 DEF LowHalf, Half

\* A quad is made of its halves.
LEMMA QuadOfHalves ==
  ASSUME NEW x \in Int
  PROVE  \E lo \in Word, hi \in Word :
           Low(x, QuadBits) = Quad(lo, hi) /\ Halves(x) = <<lo, hi>>
<1>1. PICK k \in Int : x = Half(x) + Base * k
  BY HalfIsWord
<1>2. PICK lo \in Word : lo = Half(x)
  BY HalfIsWord
<1>3. x = lo + Base * k
  BY <1>1, <1>2
<1>4. Low(x, QuadBits) = Quad(lo, Half(k)) /\ Halves(x) = <<lo, Half(k)>>
  BY <1>3, HalvesOf
<1> QED  BY <1>4, HalfIsWord

-----------------------------------------------------------------------------
(* Arithmetic on two words against arithmetic on the quad they make.       *)

\* The base, the number of words, and its half.
LEMMA BaseFacts ==
  \E b \in Nat, t \in Nat :
    /\ b = Base /\ t = Top1 /\ b = 2 * t /\ b >= 256
    /\ Bits(WordBits) = b /\ Bits(WordBits - 1) = t
    /\ Bits(QuadBits) = b * b /\ Bits(QuadBits - 1) = b * t
    /\ Word = 0..b - 1
    /\ MinusOne(WordBits) = b - 1 /\ MinSigned(WordBits) = t
BY Bases DEF Base, Top1, MinusOne, MinSigned

\* Two words, the low one with a carry into the high one.
LEMMA HalvesWithCarry ==
  ASSUME NEW lo \in Int, NEW hi \in Int, NEW r \in Word, NEW k \in Int,
         lo = r + Base * k
  PROVE  /\ Half(lo) = r
         /\ Halves(lo + Base * hi) = <<r, Half(hi + k)>>
         /\ Low(lo + Base * hi, QuadBits) = Quad(r, Half(hi + k))
<1>1. Half(lo) = r
  BY HalfOnce
<1>2. Base \in Nat /\ r \in Int
  BY Bases, WordIsNat
<1>3. PICK x \in Int : x = lo + Base * hi
  BY <1>2
<1>4. PICK h \in Int : h = hi + k
  OBVIOUS
<1>5. Base * k \in Int /\ Base * hi \in Int /\ Base * h = Base * hi + Base * k
  BY <1>2, <1>4
<1>6. x = r + Base * h
  BY <1>2, <1>3, <1>5
<1>7. Halves(x) = <<r, Half(h)>> /\ Low(x, QuadBits) = Quad(r, Half(h))
  BY <1>6, HalvesOf
<1> QED  BY <1>1, <1>3, <1>4, <1>7

\* add and adc, sub and sbb.
LEMMA AddHalves ==
  ASSUME NEW x \in Word, NEW u \in Word, NEW y \in Word, NEW v \in Word
  PROVE  /\ Halves(Quad(x, u) + Quad(y, v)) =
              <<Half(x + y), Half(u + v + Truth(x + y >= Bits(WordBits)))>>
         /\ Halves(Quad(x, u) - Quad(y, v)) =
              <<Half(x - y), Half(u - v - Truth(x < y))>>
<1>1. PICK b \in Nat : b = Base /\ Bits(WordBits) = b /\ Word = 0..b - 1 /\ b >= 256
  BY BaseFacts
<1>2. Quad(x, u) = x + b * u /\ Quad(y, v) = y + b * v
      /\ x \in Int /\ u \in Int /\ y \in Int /\ v \in Int
  BY <1>1 DEF Quad
<1>3. b * (u + v) = b * u + b * v /\ b * (u - v) = b * u - b * v
      /\ b * u \in Int /\ b * v \in Int
  BY <1>1, <1>2
<1>4. /\ Quad(x, u) + Quad(y, v) = (x + y) + Base * (u + v)
      /\ Quad(x, u) - Quad(y, v) = (x - y) + Base * (u - v)
  BY <1>1, <1>2, <1>3
<1>5. \E r \in Word, k \in Int :
        x + y = r + Base * k /\ k = Truth(x + y >= Bits(WordBits))
  <2>1. CASE x + y >= b
    <3>1. x + y - b \in Word /\ x + y = (x + y - b) + b * 1
      BY <1>1, <2>1
    <3> QED  BY <1>1, <2>1, <3>1 DEF Truth
  <2>2. CASE ~(x + y >= b)
    <3>1. x + y \in Word /\ x + y = (x + y) + b * 0
      BY <1>1, <1>2, <2>2
    <3> QED  BY <1>1, <2>2, <3>1 DEF Truth
  <2> QED  BY <2>1, <2>2
<1>6. \E r \in Word, k \in Int : x - y = r + Base * k /\ k + Truth(x < y) = 0
  <2>1. CASE x < y
    <3>1. x - y + b \in Word /\ x - y = (x - y + b) + b * (-1) /\ -1 \in Int /\ -1 + Truth(x < y) = 0
      BY <1>1, <2>1 DEF Truth
    <3> QED  BY <1>1, <3>1
  <2>2. CASE ~(x < y)
    <3>1. PICK r \in Word : r = x - y
      BY <1>1, <1>2, <2>2
    <3>2. r \in Int /\ b * 0 = 0
      BY <1>1
    <3>3. x - y = r + b * 0 /\ 0 + Truth(x < y) = 0
      BY <3>1, <3>2, <2>2 DEF Truth
    <3> QED  BY <1>1, <3>3
  <2> QED  BY <2>1, <2>2
<1>7. u + v \in Int /\ u - v \in Int /\ x + y \in Int /\ x - y \in Int
  BY <1>2
<1>8. Halves((x + y) + Base * (u + v)) =
        <<Half(x + y), Half(u + v + Truth(x + y >= Bits(WordBits)))>>
  <2>1. PICK r \in Word, k \in Int :
          x + y = r + Base * k /\ k = Truth(x + y >= Bits(WordBits))
    BY <1>5
  <2>2. PICK l \in Int, h \in Int : l = x + y /\ h = u + v
    BY <1>7
  <2>3. l = r + Base * k
    BY <2>1, <2>2
  <2>4. Half(l) = r /\ Halves(l + Base * h) = <<r, Half(h + k)>>
    BY <2>3, HalvesWithCarry
  <2> QED  BY <2>1, <2>2, <2>4
<1>9. Halves((x - y) + Base * (u - v)) = <<Half(x - y), Half(u - v - Truth(x < y))>>
  <2>1. PICK r \in Word, k \in Int : x - y = r + Base * k /\ k + Truth(x < y) = 0
    BY <1>6
  <2>2. PICK l \in Int, h \in Int : l = x - y /\ h = u - v
    BY <1>7
  <2>3. l = r + Base * k
    BY <2>1, <2>2
  <2>4. Half(l) = r /\ Halves(l + Base * h) = <<r, Half(h + k)>>
    BY <2>3, HalvesWithCarry
  <2>5. h + k = u - v - Truth(x < y)
    BY <2>1, <2>2, <1>2 DEF Truth
  <2> QED  BY <2>2, <2>4, <2>5
<1> QED  BY <1>4, <1>8, <1>9

\* inc and dec of both words.
LEMMA StepHalves ==
  ASSUME NEW x \in Word, NEW u \in Word
  PROVE  /\ Halves(Quad(x, u) + 1) =
              <<Half(x + 1), Half(u + Truth(x = MinusOne(WordBits)))>>
         /\ Halves(Quad(x, u) - 1) = <<Half(x - 1), Half(u - Truth(x = 0))>>
<1>1. PICK b \in Nat : b = Base /\ Bits(WordBits) = b /\ Word = 0..b - 1 /\ b >= 256
                         /\ MinusOne(WordBits) = b - 1
  BY BaseFacts
<1>2. 0 \in Word /\ 1 \in Word /\ x \in Int /\ u \in Int
  BY <1>1
<1>3. Quad(1, 0) = 1 /\ Quad(x, u) \in Int
  BY <1>1, <1>2 DEF Quad
<1>4. /\ Truth(x + 1 >= Bits(WordBits)) = Truth(x = MinusOne(WordBits))
      /\ Truth(x < 1) = Truth(x = 0)
  BY <1>1 DEF Truth
<1>5. /\ Halves(Quad(x, u) + Quad(1, 0)) =
              <<Half(x + 1), Half(u + 0 + Truth(x + 1 >= Bits(WordBits)))>>
      /\ Halves(Quad(x, u) - Quad(1, 0)) =
              <<Half(x - 1), Half(u - 0 - Truth(x < 1))>>
  BY <1>2, AddHalves
<1> QED  BY <1>2, <1>3, <1>4, <1>5

\* neg, adc with zero, neg.
LEMMA NegateHalves ==
  ASSUME NEW x \in Word, NEW u \in Word
  PROVE  Halves(-Quad(x, u)) = <<Half(-x), Half(-(u + Truth(x # 0)))>>
<1>1. PICK b \in Nat : b = Base /\ Bits(WordBits) = b /\ Word = 0..b - 1 /\ b >= 256
  BY BaseFacts
<1>2. 0 \in Word /\ x \in Int /\ u \in Int
  BY <1>1
<1>3. Quad(0, 0) = 0 /\ Quad(x, u) \in Int
  BY <1>1, <1>2 DEF Quad
<1>4. Halves(Quad(0, 0) - Quad(x, u)) = <<Half(0 - x), Half(0 - u - Truth(0 < x))>>
  BY <1>2, AddHalves
<1>5. 0 - u - Truth(0 < x) = -(u + Truth(x # 0)) /\ 0 - x = -x
  BY <1>1, <1>2 DEF Truth
<1>6. 0 - Quad(x, u) = -Quad(x, u)
  BY <1>3
<1> QED  BY <1>3, <1>4, <1>5, <1>6

\* not of both words.
LEMMA ComplementHalves ==
  ASSUME NEW x \in Word, NEW u \in Word
  PROVE  /\ Complement(x, WordBits) \in Word /\ Complement(u, WordBits) \in Word
         /\ Halves(Complement(Quad(x, u), QuadBits)) =
              <<Complement(x, WordBits), Complement(u, WordBits)>>
<1>1. PICK b \in Nat : b = Base /\ Bits(WordBits) = b /\ Word = 0..b - 1 /\ b >= 256
                         /\ Bits(QuadBits) = b * b
  BY BaseFacts
<1>2. PICK p \in Word, q \in Word :
        p = Complement(x, WordBits) /\ q = Complement(u, WordBits)
        /\ p = b - 1 - x /\ q = b - 1 - u
  BY <1>1 DEF Complement, MinusOne
<1>3. b * q = b * b - b - b * u /\ b * u \in Int /\ b * b \in Int /\ x \in Int
  BY <1>1, <1>2
<1>4. Complement(Quad(x, u), QuadBits) = p + b * q
  BY <1>1, <1>2, <1>3 DEF Complement, MinusOne, Quad
<1>5. Complement(Quad(x, u), QuadBits) = Quad(p, q)
  BY <1>1, <1>4 DEF Quad
<1> QED  BY <1>2, <1>5, QuadIsQuad

\* movsx by sar, movzx.
LEMMA WidenHalves ==
  ASSUME NEW x \in Word
  PROVE  /\ Halves(x) = <<x, 0>>
         /\ Halves(Signed(x, WordBits)) =
              <<x, ShiftArithmetic(x, WordBits - 1, WordBits)>>
<1>1. PICK b \in Nat, t \in Nat :
        b = Base /\ Bits(WordBits) = b /\ Bits(WordBits - 1) = t
        /\ Word = 0..b - 1 /\ b >= 256 /\ b = 2 * t
  BY BaseFacts
<1>2. x \in Int /\ 0 \in Word
  BY <1>1
<1>3. Half(0) = 0 /\ Low(0, WordBits) = 0
  BY <1>2, LowOfWord
<1>4. Halves(x) = <<x, 0>>
  <2>1. x = x + Base * 0
    BY <1>1, <1>2
  <2>2. Halves(x) = <<x, Half(0)>>
    BY <1>2, <2>1, HalvesOf
  <2> QED  BY <1>3, <2>2
<1>5. CASE x < t
  <2>1. Signed(x, WordBits) = x
    BY <1>1, <1>2, <1>5 DEF Signed
  <2>2. x \div t = 0
    BY <1>1, <1>2, <1>5, DivideOnce
  <2> QED  BY <1>1, <1>3, <1>4, <2>1, <2>2 DEF ShiftArithmetic
<1>6. CASE ~(x < t)
  <2>1. Signed(x, WordBits) = x - b /\ x - b = x + Base * (-1) /\ x - b \in Int /\ -1 \in Int
    BY <1>1, <1>2, <1>6 DEF Signed
  <2>2. Halves(x - b) = <<x, Half(-1)>>
    BY <2>1, HalvesOf
  <2>3. (x - b) \div t = -1
    <3>1. x - t \in 0..t - 1 /\ x - b = t * (-1) + (x - t) /\ t > 0
      BY <1>1, <1>2, <1>6
    <3> QED  BY <3>1, <2>1, DivideOnce
  <2>4. ShiftArithmetic(x, WordBits - 1, WordBits) = Half(-1)
    BY <1>1, <2>1, <2>3 DEF ShiftArithmetic, Half
  <2> QED  BY <1>4, <2>1, <2>2, <2>4
<1> QED  BY <1>4, <1>5, <1>6

\* The sign of a double is in its high word.
LEMMA NegatedHalves ==
  ASSUME NEW x \in Word, NEW u \in Word
  PROVE  Halves(Negated(Quad(x, u), QuadBits)) = <<x, Half(u + MinSigned(WordBits))>>
<1>1. PICK b \in Nat, t \in Nat :
        b = Base /\ Bits(WordBits) = b /\ Bits(QuadBits - 1) = b * t
        /\ Word = 0..b - 1 /\ MinSigned(WordBits) = t
  BY BaseFacts
<1>2. x \in Int /\ u \in Int /\ u + t \in Int /\ b * u \in Int /\ b * t \in Int
      /\ b * (u + t) = b * u + b * t
  BY <1>1
<1>3. PICK z \in Int : z = Quad(x, u) + Bits(QuadBits - 1) /\ z = x + Base * (u + t)
  BY <1>1, <1>2 DEF Quad
<1>4. PICK h \in Word : h = Half(u + t)
  BY <1>2, HalfIsWord
<1>5. Low(z, QuadBits) = Quad(x, h)
  BY <1>2, <1>3, <1>4, HalvesOf
<1>6. Halves(Quad(x, h)) = <<x, h>>
  BY QuadIsQuad
<1> QED  BY <1>1, <1>3, <1>4, <1>5, <1>6 DEF Negated

\* A double is zero when both words are, but for the sign.
LEMMA ZeroHalves ==
  ASSUME NEW x \in Word, NEW u \in Word
  PROVE  IsZero(Quad(x, u), QuadBits) <=> x = 0 /\ Low(u, WordBits - 1) = 0
<1>1. PICK b \in Nat, t \in Nat :
        b = Base /\ Bits(WordBits) = b /\ Bits(WordBits - 1) = t /\ t > 0
        /\ Bits(QuadBits - 1) = b * t /\ Word = 0..b - 1 /\ b >= 256
  BY BaseFacts
<1>2. PICK k \in Int, l \in 0..t - 1 : u = t * k + l /\ l = Low(u, WordBits - 1)
  <2>1. u \in Int /\ WordBits - 1 \in Nat
    BY <1>1, Sizes
  <2> QED  BY <1>1, <2>1, LowIs
<1>3. b * u = b * (t * k) + b * l /\ b * (t * k) = (b * t) * k /\ b * l \in Nat
      /\ (b * t) * k \in Int /\ b * t \in Nat
  BY <1>1, <1>2, ProductIsNatural
<1>4. Quad(x, u) = (b * t) * k + (x + b * l)
  BY <1>1, <1>3 DEF Quad
<1>5. x + b * l \in 0..b * t - 1
  <2>1. PICK d \in Nat : d = t - 1 - l
    BY <1>1, <1>2
  <2>2. b * d \in Nat /\ b * d = b * t - b - b * l
    BY SMTT(30), <1>1, <2>1, <1>2, ProductIsNatural
  <2> QED  BY <1>1, <1>3, <2>2
<1>6. Low(Quad(x, u), QuadBits - 1) = x + b * l
  <2>1. PICK n \in Nat : n = QuadBits - 1 /\ Bits(n) = b * t
    BY <1>1, Sizes
  <2>2. PICK r \in 0..Bits(n) - 1 : r = x + b * l
    BY <1>5, <2>1
  <2>3. PICK q \in Int : q = Quad(x, u) /\ q = Bits(n) * k + r
    BY <1>3, <1>4, <1>1, <2>1, <2>2
  <2>4. Low(q, n) = r
    BY <2>3, LowOnce
  <2> QED  BY <2>1, <2>2, <2>3, <2>4
<1>7. x + b * l = 0 <=> x = 0 /\ l = 0
  <2>1. l # 0 => b * l >= b
    BY <1>1, <1>2, ProductIsNatural
  <2>2. l = 0 => b * l = 0
    BY <1>1
  <2>3. x \in Nat /\ b * l \in Nat
    BY <1>1, <1>3
  <2> QED  BY <1>1, <2>1, <2>2, <2>3
<1> QED  BY <1>2, <1>6, <1>7 DEF IsZero, Code

-----------------------------------------------------------------------------
(* Products of two words, signs.                                           *)

\* Half of the base, for the signs.
LEMMA HalfCongruent ==
  ASSUME NEW x \in Int, NEW y \in Int, NEW k \in Int, x = y + Base * k
  PROVE  Half(x) = Half(y)
<1>1. PICK l \in Int, r \in Word : y = r + Base * l /\ r = Half(y)
  BY HalfIsWord
<1>2. Base \in Nat /\ r \in Int
  BY Bases, WordIsNat
<1>3. PICK n \in Int : n = l + k
  OBVIOUS
<1>4. Base * n = Base * l + Base * k /\ Base * l \in Int /\ Base * k \in Int
  BY <1>2, <1>3
<1>5. x = r + Base * n
  BY <1>1, <1>2, <1>4
<1> QED  BY <1>1, <1>5, HalfOnce

\* What LowIs gives, with the base as a name.
LEMMA QuadIs ==
  ASSUME NEW x \in Int
  PROVE  \E k \in Int : Low(x, QuadBits) = x + (Base * Base) * k
<1>1. PICK b \in Nat : b = Base /\ Bits(QuadBits) = b * b
  BY BaseFacts
<1>2. PICK k \in Int : x = Bits(QuadBits) * k + Low(x, QuadBits)
  BY Sizes, LowIs
<1>3. PICK l \in Int, c \in Nat : l = -k /\ c = b * b
  BY <1>1
<1>4. c * l = -(c * k) /\ c * k \in Int
  BY <1>3
<1>5. Low(x, QuadBits) \in Int
  <2>1. Low(x, QuadBits) \in 0..Bits(QuadBits) - 1
    BY Sizes, LowIs
  <2> QED  BY <2>1
<1>6. Low(x, QuadBits) = x + c * l
  BY <1>1, <1>2, <1>3, <1>4, <1>5
<1> QED  BY <1>1, <1>3, <1>6

\* mul of the low words, two imul for the high one.
THEOREM MultiplyHalves ==
  ASSUME NEW x \in Word, NEW u \in Word, NEW y \in Word, NEW v \in Word
  PROVE  Halves(Product(Quad(x, u), Quad(y, v), QuadBits)) =
           <<LowHalf(x * y), Half(HighHalf(x * y) + Half(u * y) + Half(v * x))>>
<1>1. PICK b \in Nat : b = Base /\ Bits(WordBits) = b /\ Word = 0..b - 1 /\ b >= 256
  BY BaseFacts
<1>2. x \in Int /\ u \in Int /\ y \in Int /\ v \in Int
  BY <1>1
<1>3. PICK q \in Int : q = Quad(x, u) /\ q = x + b * u
  BY <1>1, <1>2 DEF Quad
<1>4. LowHalf(Quad(y, v)) = y /\ HighHalf(Quad(y, v)) = v
  BY QuadIsQuad
<1>5. PICK k \in Int, p \in Int : p = Low(q * y, QuadBits) /\ p = q * y + (b * b) * k
  <2>1. q * y \in Int
    BY <1>2
  <2>2. PICK k \in Int : Low(q * y, QuadBits) = q * y + (b * b) * k
    BY <1>1, <2>1, QuadIs
  <2>3. q * y + (b * b) * k \in Int
    BY <2>1
  <2> QED  BY <2>2, <2>3
<1>6. PICK l \in Int, s \in Int : s = Low(q * v, QuadBits) /\ s = q * v + (b * b) * l
  <2>1. q * v \in Int
    BY <1>2
  <2>2. PICK l \in Int : Low(q * v, QuadBits) = q * v + (b * b) * l
    BY <1>1, <2>1, QuadIs
  <2>3. q * v + (b * b) * l \in Int
    BY <2>1
  <2> QED  BY <2>2, <2>3
<1>7. PICK n \in Int, w \in Int : w = ShiftLeft(s, WordBits, QuadBits) /\ w = s * b + (b * b) * n
  <2>1. s * b \in Int
    OBVIOUS
  <2>2. PICK n \in Int : Low(s * b, QuadBits) = s * b + (b * b) * n
    BY <1>1, <2>1, QuadIs
  <2>3. s * b + (b * b) * n \in Int
    BY <2>1
  <2> QED  BY <1>1, <2>2, <2>3 DEF ShiftLeft
<1>8. Product(Quad(x, u), Quad(y, v), QuadBits) = Low(p + w, QuadBits)
  BY <1>3, <1>4, <1>5, <1>6, <1>7 DEF Product
<1>9. PICK a \in Int, c \in Int, d \in Int, e \in Int :
        a = x * y /\ c = u * y /\ d = v * x /\ e = u * v
  BY <1>2
<1>10. PICK h \in Int, g \in Int : h = c + d + b * g /\ g = e + k + b * l + n
  <2>1. e + k + b * l + n \in Int
    OBVIOUS
  <2> QED  BY <2>1
<1>11. p + w = a + b * h
  <2>1. q * y = a + b * c
    BY <1>2, <1>3, <1>9
  <2>2. q * v = d + b * e
    BY <1>2, <1>3, <1>9
  <2>3. s * b = b * d + (b * b) * e + (b * b) * (b * l)
    <3>1. s * b = (d + b * e + (b * b) * l) * b
      BY <1>6, <2>2
    <3> QED  BY <3>1
  <2>4. b * h = b * c + b * d + (b * b) * g
    BY <1>10
  <2>5. (b * b) * g = (b * b) * e + (b * b) * k + (b * b) * (b * l) + (b * b) * n
    BY <1>10
  <2>6. PICK c1 \in Int, k1 \in Int, d1 \in Int, e1 \in Int, l1 \in Int, n1 \in Int :
          /\ c1 = b * c /\ k1 = (b * b) * k /\ d1 = b * d /\ e1 = (b * b) * e
          /\ l1 = (b * b) * (b * l) /\ n1 = (b * b) * n
    OBVIOUS
  <2>7. p = (a + c1) + k1 /\ w = (d1 + e1 + l1) + n1
    BY <1>5, <1>7, <2>1, <2>3, <2>6
  <2>8. b * h = c1 + d1 + (e1 + k1 + l1 + n1)
    BY <2>4, <2>5, <2>6
  <2> QED  BY <2>7, <2>8
<1>12. PICK r \in Word, j \in Int :
         a = r + Base * j /\ r = LowHalf(a) /\ j = HighHalf(a)
  <2>1. PICK j \in Int : a = Half(a) + Base * j
    BY HalfIsWord
  <2>2. PICK r \in Word : r = Half(a)
    BY HalfIsWord
  <2>3. Half(a) = r /\ HighHalf(a) = j
    BY <2>1, <2>2, HalfOnce
  <2> QED  BY <2>1, <2>2, <2>3 DEF LowHalf, Half
<1>13. Low(a + Base * h, QuadBits) = Quad(r, Half(h + j))
  BY <1>12, HalvesWithCarry
<1>15. Halves(Low(p + w, QuadBits)) = <<r, Half(h + j)>>
  <2>1. Half(h + j) \in Word
    BY HalfIsWord
  <2>2. Halves(Quad(r, Half(h + j))) = <<r, Half(h + j)>>
    BY <2>1, QuadIsQuad, Zenon
  <2>3. Low(p + w, QuadBits) = Low(a + Base * h, QuadBits)
    BY <1>1, <1>11
  <2> QED  BY <1>13, <2>2, <2>3
<1>16. Half(h + j) = Half(j + Half(c) + Half(d))
  <2>1. PICK f \in Int : c = Half(c) + Base * f
    BY HalfIsWord
  <2>2. PICK i \in Int : d = Half(d) + Base * i
    BY HalfIsWord
  <2>3. PICK c1 \in Word, d1 \in Word : c1 = Half(c) /\ d1 = Half(d)
    BY HalfIsWord
  <2>9. c1 \in Int /\ d1 \in Int
    BY WordIsNat
  <2>4. PICK m \in Int : m = f + i + g
    OBVIOUS
  <2>5. b * m = b * f + b * i + b * g
    BY <2>4
  <2>10. b * f \in Int /\ b * i \in Int /\ b * g \in Int /\ c = c1 + b * f /\ d = d1 + b * i
         /\ h = c + d + b * g
    BY <1>1, <1>10, <2>1, <2>2, <2>3
  <2>11. h + j = (j + c1 + d1) + b * m
    BY <2>5, <2>9, <2>10
  <2>6. h + j = (j + c1 + d1) + Base * m
    BY <1>1, <2>11
  <2>7. h + j \in Int /\ j + c1 + d1 \in Int
    BY <2>9
  <2>8. Half(h + j) = Half(j + c1 + d1)
    BY <2>6, <2>7, HalfCongruent
  <2> QED  BY <2>3, <2>8
<1> QED  BY <1>8, <1>9, <1>12, <1>15, <1>16

-----------------------------------------------------------------------------
(* Comparisons.                                                            *)

\* What the flags of a cmp say.
LEMMA CompareMeans ==
  ASSUME NEW x \in Word, NEW y \in Word
  PROVE  /\ Compare(x, y).zero <=> x = y
         /\ Compare(x, y).carry <=> x < y
         /\ UnsignedGreater(Compare(x, y)) <=> x > y
         /\ SignedLess(Compare(x, y)) <=> Signed(x, WordBits) < Signed(y, WordBits)
         /\ SignedGreater(Compare(x, y)) <=> Signed(x, WordBits) > Signed(y, WordBits)
<1>1. PICK b \in Nat, t \in Nat :
        b = Base /\ Bits(WordBits) = b /\ Bits(WordBits - 1) = t
        /\ Word = 0..b - 1 /\ b >= 256 /\ b = 2 * t
  BY BaseFacts
<1>2. x \in Int /\ y \in Int
  BY <1>1
<1>3. PICK d \in Word : d = Low(x - y, WordBits) /\ (d = x - y \/ d = x - y + b)
  <2>1. CASE x < y
    <3>1. PICK r \in Word : r = x - y + b
      BY <1>1, <1>2, <2>1
    <3>2. r \in Int /\ -1 \in Int /\ x - y = r + Base * (-1)
      BY <1>1, <1>2, <3>1
    <3>3. Half(x - y) = r
      BY <1>2, <3>2, HalfOnce
    <3> QED  BY <3>1, <3>3 DEF Half
  <2>2. CASE ~(x < y)
    <3>1. PICK r \in Word : r = x - y
      BY <1>1, <1>2, <2>2
    <3> QED  BY <3>1, LowOfWord
  <2> QED  BY <2>1, <2>2
<1>4. PICK f : f = Compare(x, y)
  OBVIOUS
<1>5. /\ f.zero = (d = 0) /\ f.carry = (x < y) /\ f.sign = (d >= t)
      /\ f.overflow = (Signed(x, WordBits) - Signed(y, WordBits) # Signed(d, WordBits))
  BY <1>1, <1>3, <1>4 DEF Compare, IsNegative
<1>a. \A z \in Word : /\ Signed(z, WordBits) \in Int
                      /\ Signed(z, WordBits) = IF z >= t THEN z - b ELSE z
  BY <1>1 DEF Signed
<1>6. PICK p \in Int, q \in Int, r \in Int :
        /\ p = Signed(x, WordBits) /\ q = Signed(y, WordBits) /\ r = Signed(d, WordBits)
        /\ p = (IF x >= t THEN x - b ELSE x) /\ q = (IF y >= t THEN y - b ELSE y)
        /\ r = (IF d >= t THEN d - b ELSE d)
  BY <1>a
<1>7. (d = 0 <=> x = y)
  BY <1>1, <1>2, <1>3
<1>8. ((d >= t) # (p - q # r)) <=> p < q
  BY <1>1, <1>2, <1>3, <1>6
<1>9. p > q <=> x # y /\ ~(p < q)
  BY <1>1, <1>2, <1>6
<1>10. SignedLess(f) <=> p < q
  BY <1>5, <1>6, <1>8 DEF SignedLess
<1>11. SignedGreater(f) <=> p > q
  BY <1>5, <1>7, <1>9, <1>10 DEF SignedGreater
<1>12. UnsignedGreater(f) <=> x > y
  <2>1. x > y <=> ~(x = y) /\ ~(x < y)
    BY <1>2
  <2> QED  BY <2>1, <1>5, <1>7, Zenon DEF UnsignedGreater
<1> QED  BY <1>4, <1>5, <1>6, <1>7, <1>10, <1>11, <1>12

\* The order of two numbers of two words is that of the high words, then that
\* of the low ones.
THEOREM OrderOfHalves ==
  ASSUME NEW x \in Word, NEW u \in Int, NEW y \in Word, NEW v \in Int
  PROVE  /\ x + Base * u < y + Base * v <=> u < v \/ (u = v /\ x < y)
         /\ x + Base * u = y + Base * v <=> u = v /\ x = y
<1>1. PICK b \in Nat : b = Base /\ Word = 0..b - 1 /\ b >= 256
  BY BaseFacts
<1>2. x \in Int /\ y \in Int /\ b * u \in Int /\ b * v \in Int
  BY <1>1
<1>3. u < v => b * v - b * u >= b
  <2>1. HAVE u < v
  <2>2. PICK d \in Nat : d = v - u /\ d >= 1
    BY <2>1
  <2>3. b * d >= b /\ b * d = b * v - b * u
    BY <2>2, ProductIsNatural
  <2> QED  BY <2>3
<1>4. v < u => b * u - b * v >= b
  <2>1. HAVE v < u
  <2>2. PICK d \in Nat : d = u - v /\ d >= 1
    BY <2>1
  <2>3. b * d >= b /\ b * d = b * u - b * v
    BY <2>2, ProductIsNatural
  <2> QED  BY <2>3
<1>5. u = v => b * u = b * v
  OBVIOUS
<1>6. /\ x + b * u < y + b * v <=> u < v \/ (u = v /\ x < y)
      /\ x + b * u = y + b * v <=> u = v /\ x = y
  BY <1>1, <1>2, <1>3, <1>4, <1>5
<1> QED  BY <1>1, <1>6

\* The sign of a word.
LEMMA SignedWord ==
  ASSUME NEW x \in Word
  PROVE  /\ Signed(x, WordBits) \in Int
         /\ Signed(x, WordBits) = 0 <=> x = 0
         /\ Signed(x, WordBits) = -1 <=> x = MinusOne(WordBits)
BY BaseFacts DEF Signed

\* The sign of a quad is that of its high word.
LEMMA SignedQuad ==
  ASSUME NEW x \in Word, NEW u \in Word
  PROVE  /\ Signed(u, WordBits) \in Int
         /\ Signed(Quad(x, u), QuadBits) = x + Base * Signed(u, WordBits)
         /\ Signed(Quad(x, u), QuadBits) \in Int
<1>1. PICK b \in Nat, t \in Nat :
        b = Base /\ Bits(WordBits) = b /\ Bits(WordBits - 1) = t
        /\ Word = 0..b - 1 /\ b >= 256
        /\ Bits(QuadBits) = b * b /\ Bits(QuadBits - 1) = b * t
  BY BaseFacts
<1>2. x \in Int /\ u \in Int /\ b * u \in Int /\ b * t \in Int /\ b * b \in Int
      /\ 0 <= x /\ x < b
  BY <1>1
<1>3. CASE u >= t
  <2>1. PICK d \in Nat : d = u - t
    BY <1>1, <1>2, <1>3
  <2>2. b * d \in Nat /\ b * d = b * u - b * t
    BY <2>1, <1>2, ProductIsNatural
  <2>3. Quad(x, u) >= b * t /\ Quad(x, u) = x + b * u
    BY <1>1, <1>2, <2>2 DEF Quad
  <2>4. Signed(Quad(x, u), QuadBits) = x + b * u - b * b
    BY <1>1, <2>3 DEF Signed
  <2>5. Signed(u, WordBits) = u - b /\ b * (u - b) = b * u - b * b
    BY <1>1, <1>2, <1>3 DEF Signed
  <2> QED  BY <1>1, <1>2, <2>4, <2>5
<1>4. CASE ~(u >= t)
  <2>1. PICK d \in Nat : d = t - 1 - u
    BY <1>1, <1>2, <1>4
  <2>2. b * d \in Nat /\ b * d = b * t - b - b * u
    BY <2>1, <1>2, ProductIsNatural
  <2>3. ~(Quad(x, u) >= b * t) /\ Quad(x, u) = x + b * u
    BY <1>1, <1>2, <2>2 DEF Quad
  <2>4. Signed(Quad(x, u), QuadBits) = x + b * u
    BY <1>1, <2>3 DEF Signed
  <2>5. Signed(u, WordBits) = u
    BY <1>1, <1>2, <1>4 DEF Signed
  <2> QED  BY <1>1, <1>2, <2>4, <2>5
<1> QED  BY <1>3, <1>4

-----------------------------------------------------------------------------
(* Shifts.                                                                 *)

\* Two divisions are one by the product.
LEMMA DivideTwice ==
  ASSUME NEW x \in Int, NEW m \in Nat, m > 0, NEW n \in Nat, n > 0
  PROVE  (x \div m) \div n = x \div (m * n) /\ m * n \in Nat /\ m * n > 0
<1>1. PICK q \in Int, r \in 0..m - 1 : x = m * q + r /\ q = x \div m
  BY DivideAgain
<1>2. PICK p \in Int, s \in 0..n - 1 : q = n * p + s /\ p = q \div n
  BY DivideAgain
<1>3. m * n \in Nat /\ m * n >= m
  BY ProductIsNatural
<1>4. m * s \in Nat /\ m * s <= m * n - m
  <2>1. PICK d \in Nat : d = n - 1 - s
    BY <1>2
  <2>2. m * d \in Nat /\ m * s \in Nat /\ m * d = m * n - m - m * s
    BY <2>1, ProductIsNatural
  <2> QED  BY <2>2, <1>3
<1>5. PICK t \in 0..m * n - 1 : t = m * s + r
  BY <1>1, <1>3, <1>4
<1>6. m * q = m * (n * p) + m * s /\ m * (n * p) = (m * n) * p
  BY <1>2
<1>7. x = (m * n) * p + t
  BY <1>1, <1>5, <1>6
<1>8. PICK k \in Nat : k = m * n /\ k > 0
  BY <1>3
<1>9. x = k * p + t /\ t \in 0..k - 1
  BY <1>7, <1>8
<1>10. x \div k = p
  BY <1>8, <1>9, DivideOnce
<1> QED  BY <1>1, <1>2, <1>3, <1>8, <1>10

\* The factors of the base.
LEMMA BaseOfBits ==
  ASSUME NEW c \in Nat, c <= WordBits
  PROVE  \E n \in Nat, e \in Nat : /\ n = Bits(c) /\ n > 0 /\ e = Bits(WordBits - c)
                                   /\ e > 0 /\ Base = n * e /\ Base = e * n
<1>1. WordBits - c \in Nat /\ WordBits = c + (WordBits - c) /\ WordBits \in Nat
  BY WordBitsAssumption
<1>2. PICK d \in Nat : d = WordBits - c /\ WordBits = c + d
  BY <1>1
<1>3. Bits(c + d) = Bits(c) * Bits(d)
  BY BitsOfSum
<1>4. Bits(c) \in Nat /\ Bits(c) > 0 /\ Bits(d) \in Nat /\ Bits(d) > 0
  BY BitsPositive
<1>5. Bits(c) * Bits(d) = Bits(d) * Bits(c)
  BY <1>4
<1> QED  BY <1>2, <1>3, <1>4, <1>5 DEF Base

\* A quotient is a number.
LEMMA DivideBy ==
  ASSUME NEW n \in Nat, n > 0, NEW x \in Int
  PROVE  \E q \in Int, r \in Nat : q = x \div n /\ r = x % n /\ r <= n - 1 /\ x = n * q + r
<1>1. x = n * (x \div n) + (x % n) /\ x % n \in 0..n - 1 /\ x \div n \in Int
  BY DivideAgain
<1>2. PICK q \in Int : q = x \div n
  BY <1>1
<1>3. PICK r \in 0..n - 1 : r = x % n
  BY <1>1
<1>4. r \in Nat /\ r <= n - 1 /\ x = n * q + r
  BY <1>1, <1>2, <1>3
<1> QED  BY <1>2, <1>3, <1>4

\* Products of sums, as the solver needs them.
LEMMA Distribute ==
  ASSUME NEW a \in Int, NEW x \in Int, NEW y \in Int
  PROVE  /\ a * (x + y) = a * x + a * y /\ a * (x - y) = a * x - a * y
         /\ a * x \in Int /\ a * y \in Int /\ a * x = x * a
OBVIOUS

\* A shorter dividend, a smaller quotient.
LEMMA QuotientBounds ==
  ASSUME NEW n \in Nat, n > 0, NEW m \in Nat, NEW z \in Nat, NEW q \in Int,
         NEW t \in Nat, t <= n - 1, z = n * q + t, z <= m * n - 1
  PROVE  q \in 0..m - 1
<1>1. q >= 0
  <2>1. SUFFICES ASSUME q < 0 PROVE FALSE
    OBVIOUS
  <2>2. PICK d \in Nat : d = -q /\ d >= 1
    BY <2>1
  <2>3. n * d >= n /\ n * d = -(n * q) /\ n * q \in Int
    BY <2>2, ProductIsNatural
  <2> QED  BY <2>3
<1>2. q < m
  <2>1. SUFFICES ASSUME q >= m PROVE FALSE
    OBVIOUS
  <2>2. PICK d \in Nat : d = q - m
    BY <2>1
  <2>3. n * d \in Nat /\ n * d = n * q - n * m /\ n * m = m * n /\ n * q \in Int /\ n * m \in Int
    BY <2>2, ProductIsNatural
  <2> QED  BY <2>3
<1> QED  BY <1>1, <1>2

\* A shift to the right of two words: what leaves the high one enters the low one.
LEMMA ShiftedRight ==
  ASSUME NEW x \in Word, NEW h \in Int, NEW c \in Nat, c <= WordBits
  PROVE  \E r \in Word : /\ r = (x + Base * (h % Bits(c))) \div Bits(c)
                         /\ (x + Base * h) \div Bits(c) = r + Base * (h \div Bits(c))
                         /\ h \div Bits(c) \in Int
<1>1. PICK n \in Nat, b \in Nat : n = Bits(c) /\ n > 0 /\ b = Base /\ Word = 0..b - 1
                                    /\ x \in Nat /\ b >= 256
  BY BaseOfBits, BaseFacts
<1>2. PICK k \in Int, s \in Nat : k = h \div n /\ s = h % n /\ s <= n - 1 /\ h = n * k + s
  BY <1>1, DivideBy
<1>3. h = n * k + s /\ s <= n - 1
  BY <1>2
<1>4. PICK z \in Nat : z = x + b * s /\ z <= b * n - 1
  <2>1. PICK d \in Nat : d = n - 1 - s
    BY <1>3
  <2>2. b * d \in Nat /\ b * s \in Nat /\ b * n \in Nat
    BY ProductIsNatural
  <2>3. b * d = b * n - b - b * s
    BY <2>1
  <2> QED  BY SMTT(30), <1>1, <2>2, <2>3
<1>a. n \in Nat /\ n > 0 /\ z \in Int
  BY <1>1
<1>5. PICK q \in Int, t \in Nat : q = z \div n /\ t = z % n /\ t <= n - 1 /\ z = n * q + t
  BY <1>a, DivideBy, Zenon
<1>6. q \in 0..b - 1 /\ z = n * q + t /\ t <= n - 1
  BY <1>1, <1>4, <1>5, QuotientBounds
<1>b. b * h = b * (n * k) + b * s
  BY <1>3
<1>7. x + b * h = n * (q + b * k) + t
  <2>1. z = n * q + t /\ z = x + b * s
    BY <1>4, <1>6
  <2>2. n * (q + b * k) = n * q + n * (b * k) /\ n * (b * k) = b * (n * k)
    OBVIOUS
  <2>3. PICK u \in Int, v \in Int, w \in Int : u = b * (n * k) /\ v = b * s /\ w = n * q
    OBVIOUS
  <2>4. PICK a \in Int, c2 \in Int : a = b * h /\ c2 = n * (q + b * k)
    OBVIOUS
  <2>5. a = u + v /\ c2 = w + u /\ z = w + t /\ z = x + v
    BY <1>b, <2>1, <2>2, <2>3, <2>4
  <2>6. x \in Int
    BY <1>1
  <2>7. x + a = c2 + t
    BY <2>5, <2>6
  <2> QED  BY <2>4, <2>7
<1>8. (x + b * h) \div n = q + b * k
  <2>1. PICK y \in Int, p \in Int : y = x + b * h /\ p = q + b * k
    BY <1>1
  <2>2. y = n * p + t
    BY <1>7, <2>1
  <2>3. t \in 0..n - 1
    BY <1>6
  <2>4. y \div n = p
    BY <1>1, <2>2, <2>3, DivideOnce
  <2> QED  BY <2>1, <2>4
<1>9. q \in Word
  BY <1>1, <1>6
<1>10. q = (x + Base * (h % Bits(c))) \div Bits(c)
  BY <1>1, <1>2, <1>4, <1>5
<1>11. (x + Base * h) \div Bits(c) = q + Base * (h \div Bits(c))
  BY <1>1, <1>2, <1>8
<1> QED  BY <1>1, <1>2, <1>9, <1>10, <1>11

\* Up to a count of one word, shl of the low word gives the low word of a
\* shift to the left, shr and sar of the high word the high word of one to
\* the right; shld and shrd fill the other word (asBC_BSLL64, BSRL64 and
\* BSRA64 in numeric.cpp).
THEOREM ShiftHalves ==
  ASSUME NEW x \in Word, NEW u \in Word, NEW c \in Nat, c <= WordBits
  PROVE  /\ Halves(ShiftLeft(Quad(x, u), c, QuadBits)) =
              <<ShiftLeft(x, c, WordBits), HighHalf(ShiftLeft(Quad(x, u), c, QuadBits))>>
         /\ Halves(ShiftRight(Quad(x, u), c)) =
              <<LowHalf(ShiftRight(Quad(x, u), c)), ShiftRight(u, c)>>
         /\ Halves(ShiftArithmetic(Quad(x, u), c, QuadBits)) =
              <<LowHalf(ShiftRight(Quad(x, u), c)), ShiftArithmetic(u, c, WordBits)>>
         /\ ShiftRight(u, c) \in Word
<1>0. PICK n \in Nat, e \in Nat : n = Bits(c) /\ n > 0 /\ Base = n * e
  BY BaseOfBits
<1>1. PICK b \in Nat : n = Bits(c) /\ n > 0 /\ b = Base /\ Word = 0..b - 1
                         /\ Bits(WordBits) = b /\ b = n * e
  BY <1>0, BaseFacts
<1>2. x \in Int /\ u \in Int /\ u >= 0 /\ u <= b - 1
  BY <1>1
<1>3. PICK q \in Int : q = Quad(x, u) /\ q = x + b * u /\ q = x + Base * u
  BY <1>1, <1>2 DEF Quad
<1>4. Halves(ShiftLeft(q, c, QuadBits)) =
        <<ShiftLeft(x, c, WordBits), HighHalf(ShiftLeft(q, c, QuadBits))>>
  <2>1. PICK z \in Int : z = q * n
    BY <1>3
  <2>2. PICK lo \in Word, hi \in Word : Low(z, QuadBits) = Quad(lo, hi)
    BY QuadOfHalves
  <2>3. Halves(Quad(lo, hi)) = <<lo, hi>> /\ HighHalf(Quad(lo, hi)) = hi
    BY QuadIsQuad
  <2>4. PICK k \in Int : Low(z, QuadBits) = z + (Base * Base) * k
    BY QuadIs
  <2>5. lo = Half(x * n)
    <3>1. lo \in Int /\ hi \in Int
      BY WordIsNat
    <3>2. Quad(lo, hi) = lo + b * hi
      BY <1>1 DEF Quad
    <3>3. PICK a \in Int : a = x * n
      BY <1>2
    <3>4. z = a + b * (u * n)
      BY <1>2, <1>3, <2>1, <3>3
    <3>5. lo + b * hi = a + b * (u * n) + (b * b) * k
      BY <1>1, <2>2, <2>4, <3>2, <3>4
    <3>6. PICK j \in Int : j = u * n + b * k - hi
      BY <1>2, <3>1
    <3>7. b * j = b * (u * n) + (b * b) * k - b * hi
      BY <1>2, <3>1, <3>6
    <3>8. b * (u * n) \in Int /\ (b * b) * k \in Int /\ b * hi \in Int /\ b * j \in Int
      BY <1>2, <3>1
    <3>9. lo = a + b * j
      BY <3>1, <3>5, <3>7, <3>8
    <3>10. Half(lo) = Half(a)
      BY <1>1, <3>1, <3>9, HalfCongruent
    <3> QED  BY <3>3, <3>10, LowOfWord
  <2> QED  BY <1>1, <2>1, <2>2, <2>3, <2>5 DEF ShiftLeft, Half
<1>5. PICK r \in Word : /\ r = (x + Base * (u % n)) \div n
                        /\ q \div n = r + Base * (u \div n) /\ u \div n \in Int
  BY SMTT(30), <1>1, <1>2, <1>3, ShiftedRight
<1>6. PICK h \in Word : h = u \div n
  <2>1. PICK k \in Int, s \in Nat : k = u \div n /\ s = u % n /\ s <= n - 1 /\ u = n * k + s
    BY <1>1, <1>2, DivideBy
  <2>2. u \in Nat /\ u <= b * n - 1
    <3>1. b * n >= b /\ b * n \in Nat
      BY <1>0, ProductIsNatural
    <3> QED  BY <1>2, <3>1
  <2>3. k \in 0..b - 1
    BY <1>0, <2>1, <2>2, QuotientBounds
  <2> QED  BY <1>1, <2>1, <2>3
<1>7. q \div n = Quad(r, h)
  BY <1>1, <1>5, <1>6 DEF Quad
<1>8. Halves(q \div n) = <<r, h>> /\ LowHalf(q \div n) = r
  BY <1>7, QuadIsQuad
<1>9. Halves(ShiftArithmetic(q, c, QuadBits)) = <<r, ShiftArithmetic(u, c, WordBits)>>
  <2>1. PICK v \in Int : v = Signed(u, WordBits) /\ Signed(q, QuadBits) = x + Base * v
    BY <1>3, SignedQuad
  <2>2. v % n = u % n
    <3>1. v = u \/ v = u - n * e
      BY <1>1, <2>1 DEF Signed
    <3>2. PICK k \in Int, s \in Nat : k = u \div n /\ s = u % n /\ s <= n - 1 /\ u = n * k + s
      BY <1>1, <1>2, DivideBy
    <3>3. u = n * k + s
      BY <3>2
    <3>4. n * (k - e) = n * k - n * e /\ n * k \in Int /\ n * e \in Int
      OBVIOUS
    <3>5. v = n * k + s \/ v = n * (k - e) + s
      BY <3>1, <3>3, <3>4
    <3>6. PICK j \in Int : v = n * j + s
      <4>1. k - e \in Int
        OBVIOUS
      <4> QED  BY <3>5, <4>1
    <3>7. s \in 0..n - 1
      BY <3>2
    <3>8. v % n = s
      BY <1>0, <3>6, <3>7, DivideOnce
    <3> QED  BY <3>2, <3>8
  <2>a. \E r2 \in Word : /\ r2 = (x + Base * (v % Bits(c))) \div Bits(c)
                         /\ (x + Base * v) \div Bits(c) = r2 + Base * (v \div Bits(c))
                         /\ v \div Bits(c) \in Int
    BY ShiftedRight, ZenonT(30)
  <2>b. n = Bits(c)
    BY <1>1
  <2>7. PICK r2 \in Word : /\ r2 = (x + Base * (v % n)) \div n
                           /\ (x + Base * v) \div n = r2 + Base * (v \div n)
                           /\ v \div n \in Int
    BY <2>a, <2>b, Zenon
  <2>8. r2 = r
    BY <1>5, <2>2, <2>7
  <2>3. PICK k \in Int : k = v \div n /\ (x + Base * v) \div n = r + Base * k
    BY <2>7, <2>8
  <2>4. PICK z \in Int : z = r + Base * k
    BY SMTT(30), <1>1
  <2>5. Low(z, QuadBits) = Quad(r, Half(k)) /\ Half(k) \in Word
    BY <2>4, HalvesOf, HalfIsWord
  <2>6. Halves(Low(z, QuadBits)) = <<r, Half(k)>>
    BY <2>5, QuadIsQuad
  <2> QED  BY <1>1, <2>1, <2>3, <2>4, <2>6 DEF ShiftArithmetic, Half
<1> QED  BY <1>1, <1>3, <1>4, <1>6, <1>8, <1>9 DEF ShiftRight

-----------------------------------------------------------------------------
(* Bitwise logic: numbers as sums of bits.                                 *)

\* Numbers from their bits.
IsBits(b, n) == \A k \in Nat : k + 1 <= n => b[k] \in {0, 1}

Adding(b) ==
  [x \in Nat \X Int |-> IF x[1] - 1 \in Nat /\ b[x[1] - 1] \in Int
                        THEN x[2] + Bits(x[1] - 1) * b[x[1] - 1] ELSE 0]

Sums(f, b, n) ==
  f = [k \in 0..n |-> IF k = 0 THEN 0 ELSE f[k - 1] + Bits(k - 1) * b[k - 1]]

\* The sums of the first n bits, as a function.
LEMMA SumsAt ==
  ASSUME NEW b, NEW n, NEW f, Sums(f, b, n), NEW k \in 0..n
  PROVE  f[k] = IF k = 0 THEN 0 ELSE f[k - 1] + Bits(k - 1) * b[k - 1]
BY Zenon DEF Sums

\* There is such a function for every n.
LEMMA SumsExist ==
  ASSUME NEW n \in Nat, NEW b, IsBits(b, n)
  PROVE  \E f : Sums(f, b, n)
<1>1. PICK f : Follows(f, n, 0, Adding(b))
  BY RecursionExists
<1>2. Adding(b) \in [Nat \X Int -> Int]
  <2>1. ASSUME NEW x \in Nat \X Int
        PROVE  (IF x[1] - 1 \in Nat /\ b[x[1] - 1] \in Int
                THEN x[2] + Bits(x[1] - 1) * b[x[1] - 1] ELSE 0) \in Int
    <3>1. CASE x[1] - 1 \in Nat /\ b[x[1] - 1] \in Int
      <4>1. Bits(x[1] - 1) \in Int
        BY <3>1, BitsEquations
      <4> QED  BY <3>1, <4>1
    <3> QED  BY <3>1
  <2> QED  BY <2>1 DEF Adding
<1>3. \A k \in Nat : k <= n => f[k] \in Int
  BY <1>1, <1>2, RecursionStays
<1>4. \A k \in 0..n : f[k] = IF k = 0 THEN 0 ELSE f[k - 1] + Bits(k - 1) * b[k - 1]
  <2> SUFFICES ASSUME NEW k \in 0..n
               PROVE  f[k] = IF k = 0 THEN 0 ELSE f[k - 1] + Bits(k - 1) * b[k - 1]
    OBVIOUS
  <2>1. f[k] = IF k = 0 THEN 0 ELSE Adding(b)[<<k, f[k - 1]>>]
    BY <1>1, FollowsAt
  <2>2. CASE k = 0
    BY <2>1, <2>2
  <2>3. CASE k # 0
    <3>1. <<k, f[k - 1]>> \in Nat \X Int
      BY <1>3, <2>3
    <3>2. k - 1 \in Nat /\ b[k - 1] \in Int
      <4>1. k - 1 \in Nat /\ k - 1 + 1 <= n
        BY <2>3
      <4> QED  BY <4>1 DEF IsBits
    <3>3. Adding(b)[<<k, f[k - 1]>>] = f[k - 1] + Bits(k - 1) * b[k - 1]
      BY <3>1, <3>2 DEF Adding
    <3> QED  BY <2>1, <2>3, <3>3
  <2> QED  BY <2>2, <2>3
<1>5. f = [k \in 0..n |-> f[k]]
  BY <1>1 DEF Follows
<1>6. [k \in 0..n |-> f[k]] =
        [k \in 0..n |-> IF k = 0 THEN 0 ELSE f[k - 1] + Bits(k - 1) * b[k - 1]]
  BY <1>4, Zenon
<1> QED  BY <1>5, <1>6, Zenon DEF Sums

\* FromBits is its last value.
LEMMA SumOfBits ==
  ASSUME NEW n \in Nat, NEW b, IsBits(b, n)
  PROVE  \E f : Sums(f, b, n) /\ FromBits(b, n) = f[n]
<1>1. PICK f : f = CHOOSE g : Sums(g, b, n)
  OBVIOUS
<1>2. Sums(f, b, n)
  BY <1>1, SumsExist, Zenon
<1>3. FromBits(b, n) = (CHOOSE g : Sums(g, b, n))[n]
  BY Zenon DEF FromBits, Sums
<1> QED  BY <1>1, <1>2, <1>3

\* Two such functions agree where both are defined.
LEMMA SumsAgree ==
  ASSUME NEW m \in Nat, NEW n \in Nat, NEW b, NEW c, NEW f, NEW g,
         Sums(f, b, m), Sums(g, c, n), IsBits(b, m),
         \A k \in Nat : k + 1 <= m /\ k + 1 <= n => b[k] = c[k]
  PROVE  \A k \in Nat : k <= m /\ k <= n => f[k] = g[k] /\ f[k] \in Int
<1> DEFINE S == {k \in Nat : k <= m /\ k <= n => f[k] = g[k] /\ f[k] \in Int}
<1>1. 0 \in S
  <2>1. f[0] = 0 /\ g[0] = 0
    BY SumsAt
  <2> QED  BY <2>1
<1>2. ASSUME NEW k \in Nat, k \in S PROVE k + 1 \in S
  <2> SUFFICES ASSUME k + 1 <= m, k + 1 <= n
               PROVE  f[k + 1] = g[k + 1] /\ f[k + 1] \in Int
    OBVIOUS
  <2>1. /\ f[k] = g[k] /\ f[k] \in Int
        /\ k + 1 \in 0..m /\ k + 1 \in 0..n /\ k + 1 # 0 /\ k + 1 - 1 = k
    BY <1>2
  <2>2. f[k + 1] = f[k] + Bits(k) * b[k] /\ g[k + 1] = g[k] + Bits(k) * c[k]
    BY <2>1, SumsAt
  <2>3. b[k] = c[k] /\ b[k] \in Int
    BY DEF IsBits
  <2>4. Bits(k) \in Int
    BY BitsEquations
  <2> QED  BY <2>1, <2>2, <2>3, <2>4
<1>3. \A k \in Nat : k \in S
  <2> HIDE DEF S
  <2> QED  BY <1>1, <1>2, SetInduction
<1> QED  BY <1>3

\* FromBits depends on the first n bits only.
LEMMA BitsDependOnBits ==
  ASSUME NEW n \in Nat, NEW b, NEW c, IsBits(b, n),
         \A k \in Nat : k + 1 <= n => b[k] = c[k]
  PROVE  FromBits(b, n) = FromBits(c, n) /\ FromBits(b, n) \in Int
<1>1. IsBits(c, n)
  BY DEF IsBits
<1>2. PICK f : Sums(f, b, n) /\ FromBits(b, n) = f[n]
  BY SumOfBits
<1>3. PICK g : Sums(g, c, n) /\ FromBits(c, n) = g[n]
  BY <1>1, SumOfBits
<1>4. \A k \in Nat : k <= n /\ k <= n => f[k] = g[k] /\ f[k] \in Int
  BY <1>2, <1>3, SumsAgree
<1> QED  BY <1>2, <1>3, <1>4

\* One bit more.
LEMMA FromBitsEquations ==
  ASSUME NEW n \in Nat, NEW b, IsBits(b, n + 1)
  PROVE  /\ FromBits(b, 0) = 0
         /\ FromBits(b, n + 1) = FromBits(b, n) + Bits(n) * b[n]
<1>0. IsBits(b, n) /\ IsBits(b, 0) /\ n + 1 \in Nat
  BY DEF IsBits
<1>1. PICK f : Sums(f, b, n) /\ FromBits(b, n) = f[n]
  BY <1>0, SumOfBits
<1>2. PICK g : Sums(g, b, n + 1) /\ FromBits(b, n + 1) = g[n + 1]
  BY <1>0, SumOfBits
<1>3. PICK h : Sums(h, b, 0) /\ FromBits(b, 0) = h[0]
  BY <1>0, SumOfBits
<1>4. h[0] = 0
  BY <1>3, SumsAt
<1>5. \A k \in Nat : k <= n /\ k <= n + 1 => f[k] = g[k] /\ f[k] \in Int
  BY <1>0, <1>1, <1>2, SumsAgree
<1>6. f[n] = g[n]
  BY <1>5
<1>7. g[n + 1] = g[n] + Bits(n) * b[n]
  <2>1. n + 1 \in 0..n + 1 /\ n + 1 # 0 /\ n + 1 - 1 = n
    OBVIOUS
  <2> QED  BY <1>2, <2>1, SumsAt
<1> QED  BY <1>1, <1>2, <1>3, <1>4, <1>6, <1>7

\* n bits make a number below the power of two.
LEMMA FromBitsRange ==
  ASSUME NEW n \in Nat, NEW b, IsBits(b, n)
  PROVE  FromBits(b, n) \in 0..Bits(n) - 1
<1> DEFINE S == {k \in Nat : k <= n => FromBits(b, k) \in 0..Bits(k) - 1}
<1>1. 0 \in S
  <2>1. \A k \in Nat : 0 <= k
    OBVIOUS
  <2>2. Bits(0) = 1
    BY BitsEquations
  <2>3. FromBits(b, 0) = 0
    <3>1. PICK h : Sums(h, b, 0) /\ FromBits(b, 0) = h[0]
      <4>1. IsBits(b, 0)
        BY DEF IsBits
      <4> QED  BY <4>1, SumOfBits
    <3> QED  BY <3>1, SumsAt
  <2> QED  BY <2>2, <2>3
<1>2. ASSUME NEW k \in Nat, k \in S PROVE k + 1 \in S
  <2> SUFFICES ASSUME k + 1 <= n PROVE FromBits(b, k + 1) \in 0..Bits(k + 1) - 1
    OBVIOUS
  <2>1. FromBits(b, k) \in 0..Bits(k) - 1
    BY <1>2
  <2>2. IsBits(b, k + 1) /\ b[k] \in {0, 1}
    BY DEF IsBits
  <2>3. FromBits(b, k + 1) = FromBits(b, k) + Bits(k) * b[k]
    BY <2>2, FromBitsEquations
  <2>4. Bits(k + 1) = 2 * Bits(k) /\ Bits(k) \in Nat
    BY BitsEquations, BitsPositive
  <2>5. Bits(k) * b[k] \in {0, Bits(k)}
    BY <2>2, <2>4
  <2> QED  BY <2>1, <2>3, <2>4, <2>5
<1>3. \A k \in Nat : k \in S
  <2> HIDE DEF S
  <2> QED  BY <1>1, <1>2, SetInduction
<1> QED  BY <1>3

\* The low bits and the high ones.
LEMMA FromBitsSplit ==
  ASSUME NEW m \in Nat, NEW n \in Nat, NEW b, IsBits(b, m + n), NEW c,
         \A k \in Nat : k + 1 <= n => c[k] = b[m + k]
  PROVE  FromBits(b, m + n) = FromBits(b, m) + Bits(m) * FromBits(c, n)
<1>0. IsBits(c, n) /\ IsBits(b, m)
  BY DEF IsBits
<1>a. PICK x \in Int : x = FromBits(b, m)
  <2>1. FromBits(b, m) \in Int
    BY <1>0, BitsDependOnBits
  <2> QED  BY <2>1
<1>b. PICK w \in Int : w = Bits(m)
  BY BitsEquations
<1> DEFINE S == {k \in Nat : k <= n => FromBits(b, m + k) = x + w * FromBits(c, k)}
<1>1. 0 \in S
  <2>1. FromBits(c, 0) = 0
    <3>1. PICK h : Sums(h, c, 0) /\ FromBits(c, 0) = h[0]
      <4>1. IsBits(c, 0)
        BY DEF IsBits
      <4> QED  BY <4>1, SumOfBits
    <3> QED  BY <3>1, SumsAt
  <2>2. m + 0 = m
    OBVIOUS
  <2> QED  BY <1>a, <2>1, <2>2
<1>2. ASSUME NEW k \in Nat, k \in S PROVE k + 1 \in S
  <2> SUFFICES ASSUME k + 1 <= n PROVE FromBits(b, m + (k + 1)) = x + w * FromBits(c, k + 1)
    OBVIOUS
  <2>1. FromBits(b, m + k) = x + w * FromBits(c, k)
    BY <1>2
  <2>2. IsBits(b, m + k + 1) /\ IsBits(c, k + 1) /\ IsBits(c, k)
    BY <1>0 DEF IsBits
  <2>3. FromBits(b, m + k + 1) = FromBits(b, m + k) + Bits(m + k) * b[m + k]
    <3>1. m + k \in Nat
      OBVIOUS
    <3> QED  BY <2>2, <3>1, FromBitsEquations
  <2>4. FromBits(c, k + 1) = FromBits(c, k) + Bits(k) * c[k]
    BY <2>2, FromBitsEquations
  <2>5. Bits(m + k) = w * Bits(k)
    BY <1>b, BitsOfSum
  <2>6. PICK v \in Int, y \in Int, p \in Int : v = Bits(k) /\ y = c[k] /\ p = FromBits(c, k)
    <3>1. c[k] \in Int
      BY <1>0 DEF IsBits
    <3>2. FromBits(c, k) \in Int
      BY <2>2, BitsDependOnBits
    <3> QED  BY <3>1, <3>2, BitsEquations
  <2>7. c[k] = b[m + k]
    OBVIOUS
  <2>8. FromBits(b, m + k + 1) = x + w * p + (w * v) * y
    BY <2>1, <2>3, <2>5, <2>6, <2>7
  <2>9. FromBits(c, k + 1) = p + v * y
    BY <2>4, <2>6
  <2>10. w * (p + v * y) = w * p + (w * v) * y
    OBVIOUS
  <2>11. w * p \in Int /\ (w * v) * y \in Int
    OBVIOUS
  <2>12. m + (k + 1) = m + k + 1
    OBVIOUS
  <2> QED  BY <2>8, <2>9, <2>10, <2>11, <2>12
<1>3. \A k \in Nat : k \in S
  <2> HIDE DEF S
  <2> QED  BY <1>1, <1>2, SetInduction
<1> QED  BY <1>3, <1>a, <1>b

\* A bit is 0 or 1.
LEMMA BitAtIsBit ==
  ASSUME NEW x \in Int, NEW k \in Nat
  PROVE  BitAt(x, k) \in {0, 1}
<1>1. PICK q \in Int : q = x \div Bits(k)
  BY BitsPositive, DivideAgain
<1> QED  BY <1>1 DEF BitAt

\* The bits of a quad are those of its words.
LEMMA BitAtQuad ==
  ASSUME NEW x \in Word, NEW u \in Word, NEW k \in Nat, k + 1 <= WordBits
  PROVE  /\ BitAt(Quad(x, u), k) = BitAt(x, k)
         /\ BitAt(Quad(x, u), WordBits + k) = BitAt(u, k)
<1>1. PICK b \in Nat : b = Base /\ Bits(WordBits) = b /\ b > 0
  BY BaseFacts
<1>2. x \in Int /\ u \in Int /\ Quad(x, u) = x + b * u /\ Quad(x, u) \in Int
  BY <1>1, WordIsNat DEF Quad
<1>3. PICK n \in Nat : n = Bits(k) /\ n > 0
  BY BitsPositive
<1>4. PICK e \in Nat : b = n * (2 * e)
  <2>1. PICK j \in Nat : j = WordBits - k - 1
    BY Sizes
  <2>2. WordBits = k + (j + 1) /\ j + 1 \in Nat
    BY <2>1, Sizes
  <2>3. Bits(WordBits) = Bits(k) * Bits(j + 1)
    BY <2>2, BitsOfSum
  <2>4. Bits(j + 1) = 2 * Bits(j) /\ Bits(j) \in Nat
    BY BitsEquations, BitsPositive
  <2> QED  BY <1>1, <1>3, <2>3, <2>4
<1>5. BitAt(Quad(x, u), k) = BitAt(x, k)
  <2>1. PICK q \in Int, r \in Nat : q = x \div n /\ r <= n - 1 /\ x = n * q + r
    <3>1. x \in Int
      BY <1>2
    <3>2. n \in Nat /\ n > 0
      BY <1>3
    <3>3. \E q \in Int, r \in Nat :
            q = x \div n /\ r = x % n /\ r <= n - 1 /\ x = n * q + r
      BY <3>1, <3>2, DivideBy, Zenon
    <3> QED  BY <3>3, Zenon
  <2>2. x = n * q + r /\ r \in 0..n - 1
    BY <2>1
  <2>3. x + b * u = n * (q + 2 * (e * u)) + r
    <3>1. b * u = n * (2 * (e * u))
      BY <1>2, <1>4
    <3>2. n * (q + 2 * (e * u)) = n * q + n * (2 * (e * u))
      BY <1>2
    <3>3. PICK a \in Int, c \in Int, d \in Int, f \in Int :
            a = b * u /\ c = n * (2 * (e * u)) /\ d = n * q /\ f = n * (q + 2 * (e * u))
      BY <1>2
    <3>4. a = c /\ f = d + c /\ x = d + r
      BY <3>1, <3>2, <3>3, <2>2
    <3>5. x + a = f + r
      BY <1>2, <3>4
    <3> QED  BY <3>3, <3>5
  <2>4. PICK p \in Int, z \in Int : p = q + 2 * (e * u) /\ z = x + b * u
    BY <1>2
  <2>5. z \div n = p
    <3>1. z = n * p + r
      BY <2>3, <2>4
    <3> QED  BY <1>3, <2>2, <3>1, DivideOnce
  <2>6. p % 2 = q % 2
    <3>1. PICK i \in Int : i = e * u
      BY <1>2
    <3>2. p = q + 2 * i
      BY <2>4, <3>1
    <3> QED  BY <3>2
  <2> QED  BY <1>2, <1>3, <2>1, <2>4, <2>5, <2>6 DEF BitAt
<1>6. BitAt(Quad(x, u), WordBits + k) = BitAt(u, k)
  <2>1. Bits(WordBits + k) = b * n
    BY <1>1, <1>3, BitsOfSum, Sizes
  <2>2. PICK q \in Int : q = Quad(x, u)
    BY <1>2
  <2>3. (q \div b) \div n = q \div (b * n)
    BY <1>1, <1>3, DivideTwice
  <2>4. q \div b = u
    BY <1>1, <2>2, QuadIsQuad DEF HighHalf
  <2> QED  BY <1>3, <2>1, <2>2, <2>3, <2>4 DEF BitAt
<1> QED  BY <1>5, <1>6

\* The bits of and, or and xor.
AndBits(x, y, n) == [k \in 0..n - 1 |-> BitAt(x, k) * BitAt(y, k)]
OrBits(x, y, n) == [k \in 0..n - 1 |-> Truth(BitAt(x, k) + BitAt(y, k) > 0)]
XorBits(x, y, n) == [k \in 0..n - 1 |-> (BitAt(x, k) + BitAt(y, k)) % 2]

\* and, or and xor of bits are bits.
LEMMA LogicBits ==
  ASSUME NEW x \in Int, NEW y \in Int, NEW n \in Nat
  PROVE  /\ IsBits(AndBits(x, y, n), n) /\ IsBits(OrBits(x, y, n), n)
         /\ IsBits(XorBits(x, y, n), n)
<1> SUFFICES ASSUME NEW k \in Nat, k + 1 <= n
             PROVE  /\ AndBits(x, y, n)[k] \in {0, 1} /\ OrBits(x, y, n)[k] \in {0, 1}
                    /\ XorBits(x, y, n)[k] \in {0, 1}
  BY Zenon DEF IsBits
<1>1. k \in 0..n - 1
  OBVIOUS
<1>2. PICK s \in {0, 1}, t \in {0, 1} : s = BitAt(x, k) /\ t = BitAt(y, k)
  BY BitAtIsBit
<1>3. /\ AndBits(x, y, n)[k] = s * t /\ OrBits(x, y, n)[k] = Truth(s + t > 0)
      /\ XorBits(x, y, n)[k] = (s + t) % 2
  BY <1>1, <1>2 DEF AndBits, OrBits, XorBits
<1>4. s * t \in {0, 1} /\ (s + t) % 2 \in {0, 1}
  BY <1>2
<1>5. Truth(s + t > 0) \in {0, 1}
  BY DEF Truth
<1> QED  BY <1>3, <1>4, <1>5, Zenon

\* and, or and xor of words are words.
LEMMA LogicIsWord ==
  ASSUME NEW x \in Int, NEW y \in Int
  PROVE  /\ And(x, y, WordBits) \in Word /\ Or(x, y, WordBits) \in Word
         /\ Xor(x, y, WordBits) \in Word
<1>1. /\ And(x, y, WordBits) = FromBits(AndBits(x, y, WordBits), WordBits)
      /\ Or(x, y, WordBits) = FromBits(OrBits(x, y, WordBits), WordBits)
      /\ Xor(x, y, WordBits) = FromBits(XorBits(x, y, WordBits), WordBits)
  BY Zenon DEF And, Or, Xor, AndBits, OrBits, XorBits
<1>2. Word = 0..Bits(WordBits) - 1
  BY DEF Word
<1> QED  BY <1>1, <1>2, LogicBits, FromBitsRange, Sizes

\* and, or and xor of quads are those of their words, half by half.
THEOREM LogicOfHalves ==
  ASSUME NEW x \in Word, NEW u \in Word, NEW y \in Word, NEW v \in Word
  PROVE  /\ And(Quad(x, u), Quad(y, v), QuadBits) =
              Quad(And(x, y, WordBits), And(u, v, WordBits))
         /\ Or(Quad(x, u), Quad(y, v), QuadBits) =
              Quad(Or(x, y, WordBits), Or(u, v, WordBits))
         /\ Xor(Quad(x, u), Quad(y, v), QuadBits) =
              Quad(Xor(x, y, WordBits), Xor(u, v, WordBits))
<1>1. PICK w \in Nat : w = WordBits /\ QuadBits = w + w
  BY Sizes
<1>2. PICK p \in Int, q \in Int : p = Quad(x, u) /\ q = Quad(y, v)
  BY QuadIsQuad
<1>3. x \in Int /\ u \in Int /\ y \in Int /\ v \in Int
  BY WordIsNat
<1>4. ASSUME NEW k \in Nat, k + 1 <= w
      PROVE  /\ BitAt(p, k) = BitAt(x, k) /\ BitAt(q, k) = BitAt(y, k)
             /\ BitAt(p, w + k) = BitAt(u, k) /\ BitAt(q, w + k) = BitAt(v, k)
  BY <1>1, <1>2, <1>4, BitAtQuad
<1>5. /\ IsBits(AndBits(p, q, w + w), w + w) /\ IsBits(OrBits(p, q, w + w), w + w)
      /\ IsBits(XorBits(p, q, w + w), w + w)
  BY LogicBits
<1>6. ASSUME NEW k \in Nat, k + 1 <= w
      PROVE  /\ AndBits(p, q, w + w)[k] = AndBits(x, y, w)[k]
             /\ OrBits(p, q, w + w)[k] = OrBits(x, y, w)[k]
             /\ XorBits(p, q, w + w)[k] = XorBits(x, y, w)[k]
             /\ AndBits(u, v, w)[k] = AndBits(p, q, w + w)[w + k]
             /\ OrBits(u, v, w)[k] = OrBits(p, q, w + w)[w + k]
             /\ XorBits(u, v, w)[k] = XorBits(p, q, w + w)[w + k]
  <2>1. k \in 0..w - 1 /\ k \in 0..w + w - 1 /\ w + k \in 0..w + w - 1
    BY <1>6
  <2> QED  BY <1>4, <1>6, <2>1 DEF AndBits, OrBits, XorBits
<1>7. ASSUME NEW b, NEW c, NEW d, IsBits(b, w + w),
             \A k \in Nat : k + 1 <= w => b[k] = c[k] /\ d[k] = b[w + k]
      PROVE  FromBits(b, w + w) = FromBits(c, w) + Bits(w) * FromBits(d, w)
  <2>1. FromBits(b, w + w) = FromBits(b, w) + Bits(w) * FromBits(d, w)
    BY <1>7, FromBitsSplit
  <2>2. IsBits(b, w)
    BY <1>7 DEF IsBits
  <2>3. FromBits(b, w) = FromBits(c, w)
    BY <1>7, <2>2, BitsDependOnBits
  <2> QED  BY <2>1, <2>3
<1>8. /\ FromBits(AndBits(p, q, w + w), w + w)
           = FromBits(AndBits(x, y, w), w) + Bits(w) * FromBits(AndBits(u, v, w), w)
      /\ FromBits(OrBits(p, q, w + w), w + w)
           = FromBits(OrBits(x, y, w), w) + Bits(w) * FromBits(OrBits(u, v, w), w)
      /\ FromBits(XorBits(p, q, w + w), w + w)
           = FromBits(XorBits(x, y, w), w) + Bits(w) * FromBits(XorBits(u, v, w), w)
  BY <1>5, <1>6, <1>7
<1>9. \A g, h, n : /\ And(g, h, n) = FromBits(AndBits(g, h, n), n)
                   /\ Or(g, h, n) = FromBits(OrBits(g, h, n), n)
                   /\ Xor(g, h, n) = FromBits(XorBits(g, h, n), n)
  BY Zenon DEF And, Or, Xor, AndBits, OrBits, XorBits
<1> QED  BY <1>1, <1>2, <1>8, <1>9 DEF Quad

-----------------------------------------------------------------------------
(* Results that are words.                                                 *)

\* Quotient and remainder of words are words.
LEMMA DivideWords ==
  ASSUME NEW x \in Word, NEW y \in Word, y # 0
  PROVE  x \div y \in Word /\ x % y \in Word
<1>1. PICK b \in Nat : Word = 0..b - 1
  BY BaseFacts
<1>2. x \in Nat /\ y \in Nat /\ y > 0 /\ x <= b - 1 /\ y <= b - 1
  BY <1>1
<1>3. PICK q \in Int, r \in Nat : q = x \div y /\ r = x % y /\ r <= y - 1 /\ x = y * q + r
  BY <1>2, DivideBy
<1>4. x = y * q + r /\ r <= y - 1
  BY <1>3
<1>5. q >= 0
  <2> SUFFICES ASSUME q <= -1 PROVE FALSE
    OBVIOUS
  <2>1. PICK k \in Nat : k = -1 - q
    OBVIOUS
  <2>2. y * q = -y - y * k
    BY <1>2, <2>1
  <2>3. y * k \in Nat
    BY <1>2, ProductIsNatural
  <2>4. y * q \in Int
    BY <1>2
  <2> QED  BY <1>2, <1>4, <2>2, <2>3, <2>4
<1>6. q <= x
  <2>1. y * q \in Nat /\ y * q >= q
    <3>1. PICK d \in Nat : y = d + 1
      <4>1. y - 1 \in Nat /\ y = y - 1 + 1
        BY <1>2
      <4> QED  BY <4>1
    <3>2. q * d \in Nat /\ q \in Nat
      BY <1>5, ProductIsNatural
    <3>3. y * q = q * d + q
      BY <3>1
    <3> QED  BY <3>2, <3>3
  <2> QED  BY <1>4, <2>1
<1> QED  BY <1>1, <1>2, <1>3, <1>4, <1>5, <1>6

\* So is a truncated quotient.
LEMMA TruncatedIsWord ==
  ASSUME NEW x, NEW n
  PROVE  Truncated(x, n, WordBits) \in Word
<1>1. CASE /\ IsFinite(x, n)
           /\ Value(x, n) \in -Bits(WordBits - 1)..Bits(WordBits - 1) - 1
  <2>1. Value(x, n) \in Int
    <3>1. Bits(WordBits - 1) \in Int
      BY BaseFacts
    <3> QED  BY <1>1, <3>1
  <2>2. Truncated(x, n, WordBits) = Half(Value(x, n))
    BY <1>1 DEF Truncated, Half
  <2> QED  BY <2>1, <2>2, HalfIsWord
<1>2. CASE ~(/\ IsFinite(x, n)
             /\ Value(x, n) \in -Bits(WordBits - 1)..Bits(WordBits - 1) - 1)
  <2>1. Truncated(x, n, WordBits) = MinSigned(WordBits)
    BY <1>2, Zenon DEF Truncated
  <2>2. MinSigned(WordBits) \in Word
    BY BaseFacts
  <2> QED  BY <2>1, <2>2
<1> QED  BY <1>1, <1>2, Zenon

\* The result of a test is a word.
LEMMA TruthIsWord ==
  ASSUME NEW p
  PROVE  Truth(p) \in Word
BY WordIsNat DEF Truth

\* A cut number is a word.
LEMMA LowIsWord ==
  ASSUME NEW x \in Int, NEW n \in {ByteBits, ShortBits, WordBits}
  PROVE  /\ Low(x, n) \in Word
         /\ Extend(x, n, WordBits) \in Word
<1>1. n \in Nat /\ n <= WordBits /\ n >= 1
  BY Sizes
<1>2. Low(x, n) \in 0..Bits(n) - 1 /\ Bits(n) <= Bits(WordBits) /\ Bits(n) \in Int
      /\ Bits(WordBits) \in Int
  BY <1>1, LowIs, BitsGrow, BitsPositive, Sizes
<1>3. Low(x, n) \in Word
  BY <1>2 DEF Word
<1>4. Signed(Low(x, n), n) \in Int
  BY <1>2 DEF Signed
<1>5. Extend(x, n, WordBits) = Half(Signed(Low(x, n), n))
  BY DEF Extend, Half
<1> QED  BY <1>3, <1>4, <1>5, HalfIsWord

\* The result of a bit instruction is a word.
LEMMA BitResultIsWord ==
  ASSUME NEW x \in Word, NEW y \in Word, NEW op \in BitOps \ {"BNOT"}
  PROVE  BitResult(op, x, y) \in Word
<1>1. PICK c \in Nat : c = y % WordBits /\ c <= WordBits
  <2>1. WordBits \in Nat /\ WordBits > 0 /\ y \in Int
    BY Sizes, WordIsNat
  <2> QED  BY <2>1
<1>2. x \in Int /\ y \in Int
  BY WordIsNat
<1>3. CASE op \in {"BAND", "BOR", "BXOR"}
  BY <1>2, <1>3, LogicIsWord DEF BitResult
<1>4. CASE op = "BSLL"
  <2>1. BitResult(op, x, y) = ShiftLeft(x, c, WordBits)
    BY <1>1, <1>4 DEF BitResult
  <2>2. x * Bits(c) \in Int
    BY <1>2, BitsEquations
  <2> QED  BY <2>1, <2>2, HalfIsWord DEF ShiftLeft
<1>5. CASE op = "BSRL"
  <2>1. BitResult(op, x, y) = ShiftRight(x, c)
    BY <1>1, <1>5 DEF BitResult
  <2> QED  BY <1>1, <2>1, ShiftHalves
<1>6. CASE op = "BSRA"
  <2>1. BitResult(op, x, y) = ShiftArithmetic(x, c, WordBits)
    BY <1>1, <1>6 DEF BitResult
  <2>2. Signed(x, WordBits) \div Bits(c) \in Int
    <3>1. Signed(x, WordBits) \in Int
      BY SignedWord
    <3> QED  BY <3>1, BitsPositive, DivideAgain
  <2> QED  BY <2>1, <2>2, HalfIsWord DEF ShiftArithmetic
<1> QED  BY <1>3, <1>4, <1>5, <1>6 DEF BitOps

\* The results of comparisons as words.
LEMMA OrderingCut ==
  ASSUME NEW x \in Int, NEW y \in Int
  PROVE  /\ Low(Ordering(x, y), WordBits) =
              Low(IF x < y THEN -1 ELSE IF x > y THEN 1 ELSE 0, WordBits)
         /\ Low(Ordering(x, y), WordBits) = Low(Truth(x > y) - Truth(x < y), WordBits)
<1>1. Half(-1) = MinusOne(WordBits) /\ Half(MinusOne(WordBits)) = MinusOne(WordBits)
  <2>1. PICK b \in Nat : /\ Word = 0..b - 1 /\ MinusOne(WordBits) = b - 1 /\ b = Base
                         /\ b >= 256
    BY BaseFacts
  <2>2. PICK w \in Word : w = b - 1 /\ w = MinusOne(WordBits)
    BY <2>1
  <2>3. -1 = w + Base * (-1)
    BY <2>1, <2>2
  <2>4. Half(-1) = w
    BY <2>3, HalfOnce
  <2> QED  BY <2>2, <2>4, LowOfWord
<1>2. CASE x = y
  BY <1>2 DEF Ordering, Truth
<1>3. CASE x < y
  <2>1. Ordering(x, y) = MinusOne(WordBits)
    BY <1>3 DEF Ordering
  <2>2. (IF x < y THEN -1 ELSE IF x > y THEN 1 ELSE 0) = -1
    BY <1>3
  <2>3. Truth(x > y) - Truth(x < y) = -1
    BY <1>3 DEF Truth
  <2> QED  BY <1>1, <2>1, <2>2, <2>3 DEF Half
<1>4. CASE x > y
  <2>1. Ordering(x, y) = 1
    BY <1>4 DEF Ordering
  <2>2. (IF x < y THEN -1 ELSE IF x > y THEN 1 ELSE 0) = 1
    BY <1>4
  <2>3. Truth(x > y) - Truth(x < y) = 1
    BY <1>4 DEF Truth
  <2> QED  BY <2>1, <2>2, <2>3
<1> QED  BY <1>2, <1>3, <1>4

\* The squares that fit are those of the words that MaxRoot bounds.
LEMMA MaxSquare ==
  /\ MaxSquareBase \in Nat /\ MaxSquareBase >= 1
  /\ MaxSquareBase * MaxSquareBase < Top1
  /\ (MaxSquareBase + 1) * (MaxSquareBase + 1) >= Top1
<1>1. PICK b \in Nat, t \in Nat : /\ Word = 0..b - 1 /\ b = 2 * t /\ b >= 256
                                  /\ t = Top1 /\ MinSigned(WordBits) = t
  BY BaseFacts
<1> DEFINE T == {c \in Nat : (c + 1) * (c + 1) >= t}
<1>2. t \in T
  <2>1. (t + 1) * (t + 1) = t * t + 2 * t + 1
    OBVIOUS
  <2>2. t * t \in Nat
    BY ProductIsNatural
  <2> QED  BY <2>1, <2>2
<1>3. PICK c \in T : \A y \in T : c <= y
  <2>1. T \in SUBSET Nat /\ T # {}
    BY <1>2
  <2> HIDE DEF T
  <2> QED  BY <2>1, LeastExists
<1>4. c \in Nat /\ (c + 1) * (c + 1) >= t
  BY <1>3
<1>5. c * c < t
  <2>1. CASE c = 0
    BY <1>1, <2>1
  <2>2. CASE c # 0
    <3>1. PICK d \in Nat : c = d + 1
      <4>1. c - 1 \in Nat /\ c = c - 1 + 1
        BY <1>4, <2>2
      <4> QED  BY <4>1
    <3>2. d \notin T
      BY <1>3, <3>1
    <3>3. ~((d + 1) * (d + 1) >= t)
      BY <3>2
    <3>4. c * c \in Int
      BY <1>4
    <3> QED  BY <3>1, <3>3, <3>4
  <2> QED  BY <2>1, <2>2
<1>6. c \in Word
  <2>1. c * c >= c
    <3>1. CASE c = 0
      BY <3>1
    <3>2. CASE c # 0
      BY <1>4, <3>2, ProductIsNatural
    <3> QED  BY <3>1, <3>2
  <2>2. c * c \in Int
    BY <1>4
  <2> QED  BY <1>1, <1>4, <1>5, <2>1, <2>2
<1> HIDE DEF T
<1>7. PICK m : m = MaxSquareBase
  OBVIOUS
<1>8. m \in Word /\ m * m < t /\ (m + 1) * (m + 1) >= t
  BY <1>1, <1>4, <1>5, <1>6, <1>7 DEF MaxSquareBase
<1>9. m \in Nat
  BY <1>8, WordIsNat
<1>10. m >= 1
  BY <1>1, <1>8, <1>9
<1> QED  BY <1>1, <1>7, <1>8, <1>9, <1>10

\* The words of the numbers a division looks for.
LEMMA SpecialQuads ==
  ASSUME NEW x \in Word, NEW u \in Word
  PROVE  /\ Quad(x, u) = 0 <=> x = 0 /\ u = 0
         /\ Signed(Quad(x, u), QuadBits) = 0 <=> x = 0 /\ u = 0
         /\ Signed(Quad(x, u), QuadBits) = -1 <=>
              x = MinusOne(WordBits) /\ u = MinusOne(WordBits)
         /\ Quad(x, u) = MinusOne(QuadBits) <=>
              x = MinusOne(WordBits) /\ u = MinusOne(WordBits)
         /\ Quad(x, u) = MinusOne(WordBits) <=> x = MinusOne(WordBits) /\ u = 0
         /\ Quad(x, u) = MinSigned(QuadBits) <=> x = 0 /\ u = MinSigned(WordBits)
         /\ Signed(Quad(x, u), QuadBits) = -MinSigned(QuadBits) <=>
              x = 0 /\ u = MinSigned(WordBits)
<1>1. PICK b \in Nat, t \in Nat :
        /\ b = Base /\ b = 2 * t /\ b >= 256
        /\ Bits(WordBits) = b /\ Bits(WordBits - 1) = t
        /\ Bits(QuadBits) = b * b /\ Bits(QuadBits - 1) = b * t
        /\ Word = 0..b - 1
        /\ MinusOne(WordBits) = b - 1 /\ MinSigned(WordBits) = t
  BY BaseFacts
<1>2. /\ 0 \in Word /\ b - 1 \in Word /\ t \in Word /\ x \in Int /\ u \in Int
      /\ 0 \in Int /\ t \in Int /\ b - 1 \in Int /\ -1 \in Int /\ -t \in Int
  BY <1>1
<1>3. PICK s \in Int : s = Signed(u, WordBits) /\ Signed(Quad(x, u), QuadBits) = x + b * s
  BY <1>1, SignedQuad
<1>4. s = IF u >= t THEN u - b ELSE u
  BY <1>1, <1>3 DEF Signed
<1>5. /\ s = 0 <=> u = 0
      /\ s = -1 <=> u = b - 1
      /\ s = -t <=> u = t
  BY <1>1, <1>2, <1>4
<1>6. Quad(x, u) = x + b * u
  BY <1>1 DEF Quad
<1>7. /\ MinusOne(QuadBits) = (b - 1) + b * (b - 1) /\ MinusOne(WordBits) = (b - 1) + b * 0
      /\ MinSigned(QuadBits) = 0 + b * t /\ -MinSigned(QuadBits) = 0 + b * (-t)
      /\ -1 = (b - 1) + b * (-1) /\ 0 = 0 + b * 0
  <2>1. b * (b - 1) = b * b - b /\ b * b \in Int
    OBVIOUS
  <2>2. b * (-t) = -(b * t) /\ b * t \in Int
    OBVIOUS
  <2>3. MinusOne(QuadBits) = b * b - 1 /\ MinSigned(QuadBits) = b * t
    BY <1>1 DEF MinusOne, MinSigned
  <2> QED  BY <1>1, <2>1, <2>2, <2>3
<1> DEFINE P(p, h) == p + b * h
<1>8. ASSUME NEW p \in Word, NEW h \in Int, NEW r \in Word, NEW k \in Int
      PROVE  P(p, h) = P(r, k) <=> h = k /\ p = r
  BY <1>1, OrderOfHalves
<1>c. /\ P(0, 0) = 0 + b * 0 /\ P(b - 1, b - 1) = (b - 1) + b * (b - 1)
      /\ P(b - 1, 0) = (b - 1) + b * 0 /\ P(0, t) = 0 + b * t
      /\ P(b - 1, -1) = (b - 1) + b * (-1) /\ P(0, -t) = 0 + b * (-t)
      /\ P(x, u) = x + b * u /\ P(x, s) = x + b * s
  OBVIOUS
<1> HIDE DEF P
<1>d. PICK l \in Word, h \in Int, g \in Int : l = b - 1 /\ h = -1 /\ g = -t
  BY <1>1
<1>9. /\ P(x, u) = P(0, 0) <=> u = 0 /\ x = 0
      /\ P(x, u) = P(l, l) <=> u = l /\ x = l
      /\ P(x, u) = P(l, 0) <=> u = 0 /\ x = l
      /\ P(x, u) = P(0, t) <=> u = t /\ x = 0
  <2>1. 0 \in Word /\ 0 \in Int /\ l \in Int /\ t \in Int /\ u \in Int
    BY <1>1, <1>2
  <2> QED  BY <1>8, <2>1
<1>10. /\ P(x, s) = P(0, 0) <=> s = 0 /\ x = 0
       /\ P(x, s) = P(l, h) <=> s = h /\ x = l
       /\ P(x, s) = P(0, g) <=> s = g /\ x = 0
  BY <1>2, <1>8
<1>11. MinusOne(WordBits) = b - 1 /\ MinSigned(WordBits) = t
  BY <1>1
<1>12. /\ Quad(x, u) = 0 <=> x = 0 /\ u = 0
       /\ Quad(x, u) = MinusOne(QuadBits) <=>
            x = MinusOne(WordBits) /\ u = MinusOne(WordBits)
       /\ Quad(x, u) = MinusOne(WordBits) <=> x = MinusOne(WordBits) /\ u = 0
       /\ Quad(x, u) = MinSigned(QuadBits) <=> x = 0 /\ u = MinSigned(WordBits)
  BY <1>6, <1>7, <1>9, <1>11, <1>c, <1>d, ZenonT(30)
<1>13. /\ Signed(Quad(x, u), QuadBits) = 0 <=> x = 0 /\ u = 0
       /\ Signed(Quad(x, u), QuadBits) = -1 <=>
            x = MinusOne(WordBits) /\ u = MinusOne(WordBits)
       /\ Signed(Quad(x, u), QuadBits) = -MinSigned(QuadBits) <=>
            x = 0 /\ u = MinSigned(WordBits)
  BY <1>3, <1>5, <1>7, <1>10, <1>11, <1>c, <1>d, ZenonT(30)
<1> QED  BY <1>12, <1>13

\* The square, from the magnitude.
LEMMA Squares ==
  ASSUME NEW x \in Word
  PROVE  \E r : /\ r = PowerOf(Signed(x, WordBits), Signed(2, WordBits))
                /\ r.isOverflow <=>
                     (IF IsNegative(Half(-x), WordBits) THEN x ELSE Half(-x)) > MaxSquareBase
                /\ ~r.isOverflow => Half(x * x) = Low(r.value, WordBits)
<1>1. PICK b \in Nat, t \in Nat :
        /\ b = Base /\ b = 2 * t /\ b >= 256 /\ t = Top1
        /\ Bits(WordBits) = b /\ Bits(WordBits - 1) = t
        /\ Word = 0..b - 1 /\ MinSigned(WordBits) = t
  BY BaseFacts
<1>2. x \in Int /\ 0 <= x /\ x <= b - 1
  BY <1>1
<1>3. PICK s \in Int : s = Signed(x, WordBits) /\ s = IF x >= t THEN x - b ELSE x
  <2>1. Signed(x, WordBits) = IF x >= t THEN x - b ELSE x
    BY <1>1 DEF Signed
  <2>2. x - b \in Int /\ x \in Int
    BY <1>2
  <2> QED  BY <2>1, <2>2
<1>4. PICK g \in Nat : g = Magnitude(s) /\ (g = s \/ g = -s)
  BY <1>3 DEF Magnitude
<1>5. Signed(2, WordBits) = 2
  BY <1>1 DEF Signed
<1>a. PICK z : z = IF IsNegative(Half(-x), WordBits) THEN x ELSE Half(-x)
  OBVIOUS
<1>b. PICK r : r = PowerOf(Signed(x, WordBits), Signed(2, WordBits))
  OBVIOUS
<1>6. z = g
  <2>1. CASE x = 0
    <3>1. 0 = 0 + Base * 0 /\ 0 \in Word
      BY <1>1
    <3>2. Half(0) = 0
      BY <3>1, LowOfWord
    <3>3. Half(-x) = 0
      <4>1. PICK y \in Int : y = -x
        BY <1>2
      <4>a. x <= 0 /\ x >= 0 /\ x \in Int
        BY <1>2, <2>1
      <4>2. y = 0
        BY <4>1, <4>a
      <4>3. -x = 0
        BY <4>1, <4>2
      <4> QED  BY <3>2, <4>3
    <3>4. z = 0
      BY <1>1, <1>a, <2>1, <3>3 DEF IsNegative
    <3> QED  BY <1>1, <1>3, <1>4, <2>1, <3>4
  <2>2. CASE x # 0
    <3>1. PICK w \in Word : w = b - x
      <4>1. b - x \in 0..b - 1
        BY <1>2, <2>2
      <4> QED  BY <1>1, <4>1
    <3>2. -x = w + Base * (-1) /\ -x \in Int
      BY <1>1, <1>2, <3>1
    <3>3. Half(-x) = w
      BY <3>2, HalfOnce
    <3>4. z = IF w >= t THEN x ELSE w
      BY <1>1, <1>a, <3>3 DEF IsNegative
    <3> QED  BY <1>1, <1>2, <1>3, <1>4, <3>1, <3>4 DEF Magnitude
  <2> QED  BY <2>1, <2>2
<1>7. PICK c \in Nat : c = MaxSquareBase /\ c >= 1 /\ c * c < t /\ (c + 1) * (c + 1) >= t
  BY <1>1, MaxSquare
<1>8. Power(g, 2) = g * g /\ Power(s, 2) = s * s /\ Power(s, 0) = 1
  <2>1. ASSUME NEW y \in Int PROVE Power(y, 2) = y * y /\ Power(y, 0) = 1
    <3>1. Power(y, 0) = 1 /\ Power(y, 0 + 1) = y * Power(y, 0)
      BY PowerEquations
    <3>2. Power(y, 1) = y
      BY <3>1
    <3>3. Power(y, 1 + 1) = y * Power(y, 1)
      BY PowerEquations
    <3>4. 1 + 1 = 2
      OBVIOUS
    <3> QED  BY <3>1, <3>2, <3>3, <3>4
  <2> QED  BY <2>1
<1>9. g <= c => g * g <= c * c
  <2> SUFFICES ASSUME g <= c PROVE g * g <= c * c
    OBVIOUS
  <2>1. PICK d \in Nat : c = g + d
    <3>1. c - g \in Nat /\ c = g + (c - g)
      OBVIOUS
    <3> QED  BY <3>1
  <2>2. c * c = g * g + g * d + (g * d + d * d)
    BY <2>1
  <2>3. g * d \in Nat /\ d * d \in Nat /\ g * g \in Nat
    BY ProductIsNatural
  <2> QED  BY <2>2, <2>3
<1>10. PICK o \in BOOLEAN : o = (IF s = 0 THEN FALSE ELSE g > 1 /\ (g > c \/ g * g >= t))
  OBVIOUS
<1>11. o <=> g > c
  <2>1. PICK gg \in Int, cc \in Int : gg = g * g /\ cc = c * c
    OBVIOUS
  <2>2. g <= c => gg <= cc
    BY <1>9, <2>1
  <2>3. cc < t /\ o = (IF s = 0 THEN FALSE ELSE g > 1 /\ (g > c \/ gg >= t))
    BY <1>7, <1>10, <2>1
  <2>4. CASE s = 0
    BY <1>4, <1>7, <2>3, <2>4
  <2>5. CASE s # 0
    <3>1. o <=> g > 1 /\ (g > c \/ gg >= t)
      BY <2>3, <2>5
    <3>2. g > c => g > 1
      BY <1>7
    <3>3. gg >= t => g > c
      BY <1>1, <2>2, <2>3
    <3> QED  BY <3>1, <3>2, <3>3
  <2> QED  BY <2>4, <2>5
<1>12. r = [isOverflow |-> o,
            value |-> IF o THEN 0 ELSE IF s \in {-1, 1} THEN 1 ELSE s * s]
  <2>1. WordBits \in Nat /\ WordBits > 4
    BY Sizes, WordBitsAssumption
  <2>2. 2 % 2 = 0 /\ ~(2 >= WordBits - 1) /\ ~(2 < 0) /\ ~(2 <= 0) /\ 2 > 1
    BY <2>1
  <2>3. PICK l \in BOOLEAN : l = (g > 1 /\ \/ 2 >= WordBits - 1
                                           \/ g > c
                                           \/ Power(g, 2) >= t)
    OBVIOUS
  <2>4. l = (g > 1 /\ (g > c \/ g * g >= t))
    BY <1>8, <2>2, <2>3
  <2>5. o = (IF s = 0 THEN 2 <= 0 ELSE 2 > 1 /\ l)
    <3>1. o = (IF s = 0 THEN FALSE ELSE l)
      BY <1>10, <2>4, Zenon
    <3>2. (2 <= 0) = FALSE /\ (2 > 1 /\ l) = l
      OBVIOUS
    <3> QED  BY <3>1, <3>2, Zenon
  <2>6. PowerOf(s, 2) = [isOverflow |-> o,
             value |-> IF o \/ 2 < 0 THEN 0
                       ELSE IF s \in {-1, 1} THEN Power(s, 2 % 2) ELSE Power(s, 2)]
    <3>1. PowerOf(s, 2) =
            [isOverflow |-> (IF s = 0 THEN 2 <= 0 ELSE 2 > 1 /\ l),
             value |-> IF (IF s = 0 THEN 2 <= 0 ELSE 2 > 1 /\ l) \/ 2 < 0 THEN 0
                       ELSE IF s \in {-1, 1} THEN Power(s, 2 % 2) ELSE Power(s, 2)]
      BY <1>1, <1>4, <1>7, <2>3, Zenon DEF PowerOf
    <3> QED  BY <2>5, <3>1, Zenon
  <2>7. r = PowerOf(s, 2)
    BY <1>3, <1>5, <1>b
  <2> QED  BY <1>8, <2>2, <2>6, <2>7
<1>13. Half(x * x) = Half(s * s)
  <2>1. PICK k \in Int : x = s + b * k
    <3>1. x = s + b * 0 \/ x = s + b * 1
      BY <1>1, <1>2, <1>3
    <3> QED  BY <3>1
  <2>2. x * x = s * s + b * (2 * (s * k) + b * (k * k))
    <3>1. PICK p \in Int : p = b * k
      OBVIOUS
    <3>2. x * x = s * s + 2 * (s * p) + p * p
      BY <2>1, <3>1
    <3>3. s * p = b * (s * k) /\ p * p = b * (b * (k * k))
      BY <3>1
    <3>4. b * (2 * (s * k) + b * (k * k)) = b * (2 * (s * k)) + b * (b * (k * k))
      OBVIOUS
    <3>5. b * (2 * (s * k)) = 2 * (b * (s * k))
      OBVIOUS
    <3>6. PICK e \in Int, f \in Int, h \in Int : e = b * (s * k) /\ f = b * (b * (k * k))
                                     /\ h = s * s
      OBVIOUS
    <3> QED  BY <3>2, <3>3, <3>4, <3>5, <3>6
  <2>3. PICK q \in Int, v \in Int, j \in Int :
          q = x * x /\ v = s * s /\ j = 2 * (s * k) + b * (k * k)
    BY <1>2
  <2>4. q = v + Base * j
    BY <1>1, <2>2, <2>3
  <2> QED  BY <2>3, <2>4, HalfCongruent
<1>14. ~o => r.value = s * s
  BY <1>12
<1>15. r.isOverflow = o
  BY <1>12
<1>16. r.isOverflow <=> z > MaxSquareBase
  BY <1>6, <1>7, <1>11, <1>15
<1>17. ~r.isOverflow => Half(x * x) = Low(r.value, WordBits)
  BY <1>13, <1>14, <1>15 DEF Half
<1> QED  BY <1>a, <1>b, <1>16, <1>17

\* A word of which the low bits are replaced.
LEMMA PartIsWord ==
  ASSUME NEW x \in Word, NEW y \in Int, NEW n \in {ByteBits, ShortBits, WordBits}
  PROVE  /\ x - Low(x, n) + Low(y, n) \in Word
         /\ Low(x - Low(x, n) + Low(y, n), WordBits) = x - Low(x, n) + Low(y, n)
<1>1. n \in Nat /\ n <= WordBits
  BY Sizes
<1>2. PICK d \in Nat, e \in Nat : d = Bits(n) /\ d > 0 /\ e > 0 /\ Base = d * e /\ Base = e * d
  BY <1>1, BaseOfBits
<1>3. PICK b \in Nat : b = Base /\ Word = 0..b - 1
  BY BaseFacts
<1>4. x \in Nat /\ x <= b - 1
  BY <1>3
<1>5. x \in Int /\ d \in Nat /\ d > 0
  BY <1>2, <1>4
<1>6. PICK q \in Int, r \in Nat : q = x \div d /\ r = x % d /\ r <= d - 1 /\ x = d * q + r
  BY <1>5, DivideBy, Zenon
<1>7. x = d * q + r /\ r <= d - 1 /\ Low(x, n) = r
  BY <1>2, <1>6 DEF Low
<1>8. PICK s \in Nat : s = Low(y, n) /\ s <= d - 1
  <2>1. Low(y, n) \in 0..Bits(n) - 1
    BY <1>1, LowIs
  <2> QED  BY <1>2, <2>1
<1>9. q \in 0..e - 1
  <2>1. x <= e * d - 1
    BY <1>2, <1>3, <1>4
  <2> QED  BY <1>2, <1>4, <1>7, <2>1, QuotientBounds
<1>10. d * q + s \in 0..b - 1
  <2>1. PICK k \in Nat : k = e - 1 - q
    BY <1>2, <1>9
  <2>2. d * k = d * e - d - d * q /\ d * k \in Nat
    BY <1>2, <2>1, ProductIsNatural
  <2>3. d * q \in Nat
    BY <1>9, ProductIsNatural
  <2>4. PICK z \in Nat, w \in Nat, g \in Nat : z = d * q /\ w = d * k /\ g = d * e
    BY <2>2, <2>3, ProductIsNatural
  <2>5. w = g - d - z /\ b = g
    BY <1>2, <1>3, <2>2, <2>4
  <2> QED  BY <1>8, <2>4, <2>5
<1>11. x - Low(x, n) + Low(y, n) = d * q + s
  <2>1. d * q \in Int
    BY <1>2
  <2> QED  BY <1>7, <1>8, <2>1
<1>12. PICK w \in Word : w = x - Low(x, n) + Low(y, n)
  BY <1>3, <1>10, <1>11
<1> QED  BY <1>12, LowOfWord

-----------------------------------------------------------------------------
(* uTOf: halving a word and doubling the converted half                    *)

\* The one that is shifted out is kept where rounding needs it.
LEMMA HalvedRounds ==
  ASSUME NEW x \in Nat, NEW g \in Nat, NEW b \in {0, 1}, x = 2 * g + b,
         NEW h, h = IF g % 2 = 1 \/ b = 0 THEN g ELSE g + 1
  PROVE  RoundHalfEven(x, 8) = RoundHalfEven(h, 4)
<1>1. PICK k \in Int, j \in 0..7 : x = 8 * k + j /\ x \div 8 = k /\ x % 8 = j
  BY DivideAgain
<1>2. PICK e \in Int, f \in {0, 1} : g = 2 * e + f /\ g % 2 = f
  <2>1. g = 2 * (g \div 2) + (g % 2) /\ g % 2 \in 0..1 /\ g \div 2 \in Int
    BY DivideAgain
  <2> QED  BY <2>1
<1>3. PICK l \in 0..3 : h = 4 * k + l /\ l \in Int
                        /\ (2 * l > 4 <=> 2 * j > 8) /\ (2 * l = 4 <=> 2 * j = 8)
  <2>1. h = IF f = 1 \/ b = 0 THEN g ELSE g + 1
    BY <1>2
  <2>2. j = 4 * (e - 2 * k) + 2 * f + b
    BY <1>1, <1>2
  <2>3. e - 2 * k \in {0, 1}
    BY <1>1, <1>2, <2>2
  <2>4. PICK d \in {0, 1} : d = e - 2 * k
    BY <2>3
  <2>5. PICK l : l = 2 * d + (IF f = 1 \/ b = 0 THEN f ELSE 1)
    OBVIOUS
  <2>6. h = 4 * k + l /\ l \in 0..3
    BY <1>1, <1>2, <2>1, <2>4, <2>5
  <2>7. (2 * l > 4 <=> 2 * j > 8) /\ (2 * l = 4 <=> 2 * j = 8)
    BY <1>2, <2>2, <2>4, <2>5
  <2> QED  BY <2>6, <2>7
<1>4. h % 4 = l /\ h \div 4 = k
  BY <1>1, <1>3, DivideOnce
<1> QED  BY <1>1, <1>3, <1>4 DEF RoundHalfEven

\* The bits of a number make up its low part.
LEMMA BitsMakeLow ==
  ASSUME NEW z \in Nat, NEW b, NEW n \in Nat, \A k \in Nat : k + 1 <= n => b[k] = BitAt(z, k)
  PROVE  FromBits(b, n) = Low(z, n)
<1>0. IsBits(b, n)
  BY BitAtIsBit DEF IsBits
<1>1. PICK S : S = {k \in Nat : k <= n => FromBits(b, k) = Low(z, k)}
  OBVIOUS
<1>2. 0 \in S
  <2>1. FromBits(b, 0) = 0
    <3>1. CASE n = 0
      <4>1. \A k \in Nat : k + 1 <= 0 => b[k] = BitAt(z, k)
        BY <3>1
      <4>2. PICK f : Sums(f, b, 0) /\ FromBits(b, 0) = f[0]
        <5>1. IsBits(b, 0)
          BY <1>0, <3>1
        <5> QED  BY <5>1, SumOfBits
      <4> QED  BY <4>2, SumsAt
    <3>2. CASE n # 0
      <4>1. n - 1 \in Nat /\ IsBits(b, (n - 1) + 1)
        BY <1>0, <3>2
      <4> QED  BY <4>1, FromBitsEquations
    <3> QED  BY <3>1, <3>2
  <2>2. Low(z, 0) = 0
    <3>1. Bits(0) = 1
      BY BitsEquations
    <3>2. z % 1 = 0
      OBVIOUS
    <3> QED  BY <3>1, <3>2 DEF Low
  <2> QED  BY <1>1, <2>1, <2>2
<1>3. ASSUME NEW k \in Nat, k \in S PROVE k + 1 \in S
  <2> SUFFICES ASSUME k + 1 <= n PROVE FromBits(b, k + 1) = Low(z, k + 1)
    BY <1>1
  <2>1. FromBits(b, k) = Low(z, k)
    BY <1>1, <1>3
  <2>2. FromBits(b, k + 1) = FromBits(b, k) + Bits(k) * b[k]
    <3>1. IsBits(b, k + 1)
      BY <1>0 DEF IsBits
    <3> QED  BY <3>1, FromBitsEquations
  <2>3. PICK t \in Nat : t = Bits(k) /\ t > 0 /\ Bits(k + 1) = 2 * t
    BY BitsPositive, BitsEquations
  <2>4. PICK q \in Int, r \in 0..t - 1 : z = t * q + r /\ z \div t = q /\ z % t = r
    <3>1. t > 0 /\ z \in Int
      BY <2>3
    <3>2. z = t * (z \div t) + (z % t) /\ z % t \in 0..t - 1 /\ z \div t \in Int
      BY <3>1, DivideAgain
    <3> QED  BY <3>2
  <2>5. PICK h \in Int, c \in {0, 1} : q = 2 * h + c /\ q % 2 = c
    <3>1. q = 2 * (q \div 2) + (q % 2) /\ q % 2 \in 0..1 /\ q \div 2 \in Int
      BY DivideAgain
    <3> QED  BY <3>1
  <2>6. b[k] = c
    BY <2>3, <2>4, <2>5 DEF BitAt
  <2>7. Low(z, k) = r
    BY <2>3, <2>4 DEF Low
  <2>8. PICK w \in Int : w = t * c /\ (w = 0 \/ w = t)
    <3>1. CASE c = 0
      BY <3>1
    <3>2. CASE c = 1
      BY <3>2
    <3> QED  BY <2>5, <3>1, <3>2
  <2>9. z = (2 * t) * h + (r + w) /\ r + w \in 0..2 * t - 1
    <3>1. t * q = t * (2 * h) + t * c
      BY <2>5, Distribute
    <3>2. PICK v \in Int : v = t * h
      OBVIOUS
    <3>3. t * (2 * h) = 2 * v /\ (2 * t) * h = 2 * v
      BY <3>2
    <3> QED  BY <2>4, <2>8, <3>1, <3>3
  <2>10. Low(z, k + 1) = r + w
    <3>1. PICK e \in Nat : e = 2 * t /\ e > 0 /\ Bits(k + 1) = e
      BY <2>3
    <3>2. PICK y : y = r + w
      OBVIOUS
    <3>3. y \in 0..e - 1 /\ z = e * h + y /\ z \in Int
      BY <2>9, <3>1, <3>2
    <3>4. z % e = y
      BY <3>1, <3>3, DivideOnce
    <3> QED  BY <3>1, <3>2, <3>4 DEF Low
  <2> QED  BY <2>1, <2>2, <2>3, <2>6, <2>7, <2>8, <2>10
<1>4. \A k \in Nat : k \in S
  BY <1>2, <1>3, SetInduction
<1> QED  BY <1>1, <1>4

\* Bit 0 and the rest.
LEMMA FirstBit ==
  ASSUME NEW b, NEW n \in Nat, IsBits(b, n + 1), NEW z \in Nat,
         \A k \in Nat : k + 1 <= n => b[k + 1] = BitAt(z, k)
  PROVE  FromBits(b, n + 1) = b[0] + 2 * Low(z, n)
<1>1. PICK c : c = [k \in Nat |-> b[k + 1]]
  OBVIOUS
<1>2. FromBits(c, n) = Low(z, n)
  <2>1. \A k \in Nat : k + 1 <= n => c[k] = BitAt(z, k)
    BY <1>1
  <2> QED  BY <2>1, BitsMakeLow
<1>3. FromBits(b, 1 + n) = FromBits(b, 1) + Bits(1) * FromBits(c, n)
  <2>1. \A k \in Nat : k + 1 <= n => c[k] = b[1 + k]
    BY <1>1
  <2>2. 1 + n = n + 1 /\ IsBits(b, 1 + n)
    OBVIOUS
  <2> QED  BY <2>1, <2>2, FromBitsSplit
<1>4. FromBits(b, 1) = b[0]
  <2>1. IsBits(b, 0 + 1)
    BY DEF IsBits
  <2>2. FromBits(b, 0) = 0 /\ FromBits(b, 0 + 1) = FromBits(b, 0) + Bits(0) * b[0]
    BY <2>1, FromBitsEquations
  <2>3. Bits(0) = 1 /\ b[0] \in {0, 1}
    BY BitsEquations DEF IsBits
  <2>4. 0 + 1 = 1
    OBVIOUS
  <2> QED  BY <2>2, <2>3, <2>4
<1>5. Bits(1) = 2 /\ 1 + n = n + 1
  BY SmallBits
<1> QED  BY <1>2, <1>3, <1>4, <1>5

\* A bit of a number below a power of two.
LEMMA BitAtOf ==
  ASSUME NEW x \in Nat, NEW k \in Nat
  PROVE  /\ BitAt(x, 0) = x % 2 /\ BitAt(x, k + 1) = BitAt(x \div 2, k)
         /\ x = 2 * (x \div 2) + BitAt(x, 0) /\ x \div 2 \in Nat /\ BitAt(x, 0) \in {0, 1}
<1>1. Bits(0) = 1 /\ Bits(k + 1) = 2 * Bits(k)
  BY BitsEquations
<1>2. x \div 1 = x
  <2>1. x = 1 * x + 0 /\ 0 \in 0..1 - 1
    OBVIOUS
  <2> QED  BY <2>1, DivideOnce
<1>3. BitAt(x, 0) = x % 2
  BY <1>1, <1>2 DEF BitAt
<1>4. PICK t \in Nat : t = Bits(k) /\ t > 0
  BY BitsPositive
<1>5. (x \div 2) \div t = x \div (2 * t)
  BY <1>4, DivideTwice
<1>6. BitAt(x, k + 1) = BitAt(x \div 2, k)
  BY <1>1, <1>4, <1>5 DEF BitAt
<1>7. x = 2 * (x \div 2) + (x % 2) /\ x % 2 \in 0..1 /\ x \div 2 \in Int
  BY DivideAgain
<1> QED  BY <1>3, <1>6, <1>7

\* and with one leaves bit 0.
LEMMA AndOne ==
  ASSUME NEW x \in Word
  PROVE  And(x, 1, WordBits) = BitAt(x, 0)
<1>1. PICK n \in Nat : n = WordBits - 1 /\ n + 1 = WordBits
  BY Sizes
<1>2. x \in Nat /\ 1 \in Int /\ x \in Int
  BY WordIsNat
<1>3. PICK b : b = AndBits(x, 1, WordBits)
  OBVIOUS
<1>4. And(x, 1, WordBits) = FromBits(b, n + 1)
  BY <1>1, <1>3 DEF And, AndBits
<1>5. IsBits(b, n + 1)
  BY <1>1, <1>2, <1>3, LogicBits
<1>6. BitAt(1, 0) = 1 /\ \A k \in Nat : BitAt(1, k + 1) = 0 /\ BitAt(0, k) = 0
  <2>1. 1 % 2 = 1 /\ 1 \div 2 = 0
    OBVIOUS
  <2>2. ASSUME NEW k \in Nat PROVE BitAt(0, k) = 0
    <3>1. PICK t \in Nat : t = Bits(k) /\ t > 0
      BY BitsPositive
    <3>2. 0 \div t = 0
      <4>1. 0 = t * 0 + 0 /\ 0 \in 0..t - 1
        BY <3>1
      <4> QED  BY <3>1, <4>1, DivideOnce
    <3> QED  BY <3>1, <3>2 DEF BitAt
  <2>3. ASSUME NEW k \in Nat PROVE BitAt(1, k + 1) = 0
    <3>1. BitAt(1, k + 1) = BitAt(1 \div 2, k)
      BY BitAtOf
    <3> QED  BY <2>1, <2>2, <3>1
  <2>4. BitAt(1, 0) = 1 % 2
    BY BitAtOf
  <2> QED  BY <2>1, <2>2, <2>3, <2>4
<1>7. \A k \in Nat : k + 1 <= n => b[k + 1] = BitAt(0, k)
  <2> SUFFICES ASSUME NEW k \in Nat, k + 1 <= n PROVE b[k + 1] = 0
    BY <1>6
  <2>1. k + 1 \in 0..WordBits - 1
    BY <1>1
  <2>2. b[k + 1] = BitAt(x, k + 1) * BitAt(1, k + 1)
    BY <1>3, <2>1 DEF AndBits
  <2>3. BitAt(x, k + 1) \in {0, 1}
    BY <1>2, BitAtIsBit
  <2> QED  BY <1>6, <2>2, <2>3
<1>8. b[0] = BitAt(x, 0)
  <2>1. 0 \in 0..WordBits - 1
    BY <1>1
  <2>2. b[0] = BitAt(x, 0) * BitAt(1, 0)
    BY <1>3, <2>1 DEF AndBits
  <2>3. BitAt(x, 0) \in {0, 1}
    BY <1>2, BitAtIsBit
  <2> QED  BY <1>6, <2>2, <2>3
<1>9. FromBits(b, n + 1) = b[0] + 2 * Low(0, n)
  BY <1>5, <1>7, FirstBit
<1>10. Low(0, n) = 0
  <2>1. 0 \in 0..Bits(n) - 1
    BY BitsPositive
  <2> QED  BY <2>1, LowKeeps
<1>11. BitAt(x, 0) \in {0, 1}
  BY <1>2, BitAtIsBit
<1> QED  BY <1>4, <1>8, <1>9, <1>10, <1>11

\* or with a bit sets bit 0.
LEMMA OrBit ==
  ASSUME NEW g \in Word, NEW c \in {0, 1}
  PROVE  Or(g, c, WordBits) = IF g % 2 = 1 \/ c = 0 THEN g ELSE g + 1
<1>1. PICK n \in Nat : n = WordBits - 1 /\ n + 1 = WordBits
  BY Sizes
<1>2. g \in Nat /\ c \in Nat /\ g \in Int /\ c \in Int
  BY WordIsNat
<1>3. PICK b : b = OrBits(g, c, WordBits)
  OBVIOUS
<1>4. Or(g, c, WordBits) = FromBits(b, n + 1)
  BY <1>1, <1>3 DEF Or, OrBits
<1>5. IsBits(b, n + 1)
  BY <1>1, <1>2, <1>3, LogicBits
<1>6. BitAt(c, 0) = c /\ \A k \in Nat : BitAt(c, k + 1) = 0
  <2>1. c % 2 = c /\ c \div 2 = 0
    <3>1. c = 2 * 0 + c /\ c \in 0..2 - 1
      OBVIOUS
    <3> QED  BY <1>2, <3>1, DivideOnce
  <2>2. ASSUME NEW k \in Nat PROVE BitAt(c, k + 1) = 0
    <3>1. BitAt(c, k + 1) = BitAt(0, k)
      BY <1>2, <2>1, BitAtOf
    <3>2. PICK t \in Nat : t = Bits(k) /\ t > 0
      BY BitsPositive
    <3>3. 0 \div t = 0
      <4>1. 0 = t * 0 + 0 /\ 0 \in 0..t - 1
        BY <3>2
      <4> QED  BY <3>2, <4>1, DivideOnce
    <3>4. BitAt(0, k) = 0
      BY <3>2, <3>3 DEF BitAt
    <3> QED  BY <3>1, <3>4
  <2>3. BitAt(c, 0) = c % 2
    BY <1>2, BitAtOf
  <2> QED  BY <2>1, <2>2, <2>3
<1>7. PICK h \in Nat, e \in {0, 1} : h = g \div 2 /\ e = BitAt(g, 0) /\ e = g % 2 /\ g = 2 * h + e
  BY <1>2, BitAtOf
<1>8. \A k \in Nat : k + 1 <= n => b[k + 1] = BitAt(h, k)
  <2> SUFFICES ASSUME NEW k \in Nat, k + 1 <= n PROVE b[k + 1] = BitAt(h, k)
    OBVIOUS
  <2>1. k + 1 \in 0..WordBits - 1
    BY <1>1
  <2>2. b[k + 1] = Truth(BitAt(g, k + 1) + BitAt(c, k + 1) > 0)
    BY <1>3, <2>1 DEF OrBits
  <2>3. PICK d \in {0, 1} : d = BitAt(g, k + 1)
    <3>1. BitAt(g, k + 1) \in {0, 1}
      BY <1>2, BitAtIsBit
    <3> QED  BY <3>1
  <2>4. BitAt(g, k + 1) = BitAt(h, k)
    BY <1>2, <1>7, BitAtOf
  <2>5. BitAt(c, k + 1) = 0
    BY <1>6
  <2> QED  BY <2>2, <2>3, <2>4, <2>5 DEF Truth
<1>9. b[0] = IF e = 1 \/ c = 1 THEN 1 ELSE 0
  <2>1. 0 \in 0..WordBits - 1
    BY <1>1
  <2>2. b[0] = Truth(BitAt(g, 0) + BitAt(c, 0) > 0)
    BY <1>3, <2>1 DEF OrBits
  <2> QED  BY <1>6, <1>7, <2>2 DEF Truth
<1>10. FromBits(b, n + 1) = b[0] + 2 * Low(h, n)
  BY <1>5, <1>8, FirstBit
<1>11. Low(h, n) = h
  <2>1. PICK u \in Nat, t \in Nat : u = Base /\ t = Top1 /\ u = 2 * t /\ Bits(n) = t
                                    /\ Word = 0..u - 1
    BY <1>1, BaseFacts
  <2>2. h \in 0..Bits(n) - 1
    BY <1>7, <2>1
  <2> QED  BY <2>2, LowKeeps
<1> QED  BY <1>4, <1>7, <1>9, <1>10, <1>11

-----------------------------------------------------------------------------
(* Conversion to the single format.                                        *)

\* The length of a number between two powers of two.
LEMMA BitLengthIs ==
  ASSUME NEW a \in Nat, NEW k \in Nat, 1 <= k, k <= QuadBits + 14,
         Bits(k - 1) <= a, a < Bits(k)
  PROVE  BitLength(a) = k
<1>1. QuadBits \in Nat
  BY Sizes
<1>2. k \in 0..QuadBits + 14 /\ Bits(k) > a /\ (k = 0 \/ Bits(k - 1) <= a)
  <2>1. k \in 0..QuadBits + 14
    BY <1>1
  <2>2. PICK u \in Nat : u = Bits(k)
    BY BitsPositive
  <2> QED  BY <2>1, <2>2
<1>3. ASSUME NEW j \in 0..QuadBits + 14, Bits(j) > a, j = 0 \/ Bits(j - 1) <= a
      PROVE  j = k
  <2>0. j \in Nat
    BY <1>1
  <2>a. PICK u \in Nat, v \in Nat, w \in Nat : u = Bits(j) /\ v = Bits(k) /\ w = Bits(k - 1)
    BY <2>0, BitsPositive
  <2>1. ~(j < k)
    <3> SUFFICES ASSUME j < k PROVE FALSE
      OBVIOUS
    <3>1. j <= k - 1 /\ k - 1 \in Nat
      BY <2>0
    <3>2. u <= w
      BY <2>0, <2>a, <3>1, BitsGrow
    <3> QED  BY <1>3, <2>a, <3>2
  <2>2. ~(k < j)
    <3> SUFFICES ASSUME k < j PROVE FALSE
      OBVIOUS
    <3>1. k <= j - 1 /\ j - 1 \in Nat /\ j # 0
      BY <2>0
    <3>2. PICK z \in Nat : z = Bits(j - 1)
      BY <3>1, BitsPositive
    <3>3. v <= z
      BY <2>a, <3>1, <3>2, BitsGrow
    <3>4. z <= a /\ a < v
      BY <1>3, <2>a, <3>1, <3>2
    <3> QED  BY <3>3, <3>4
  <2> QED  BY <2>0, <2>1, <2>2
<1>4. BitLength(a) \in 0..QuadBits + 14 /\ Bits(BitLength(a)) > a
      /\ (BitLength(a) = 0 \/ Bits(BitLength(a) - 1) <= a)
  BY <1>2 DEF BitLength
<1> QED  BY <1>3, <1>4

\* The sizes of the single format.
LEMMA SingleFormat ==
  \E Q \in Nat : /\ Q = Bits(WordBits - 4) /\ Q >= 1
                 /\ Bits(WordBits - 3) = 2 * Q /\ Bits(WordBits - 2) = 4 * Q
                 /\ Bits(WordBits - 1) = 8 * Q /\ Bits(WordBits) = 16 * Q
                 /\ Bits(WordBits + 1) = 32 * Q
                 /\ InfinityCode(WordBits) = 7 * Q /\ Word = 0..16 * Q - 1
                 /\ Mantissa(WordBits) = WordBits - 4
                 /\ WordBits \in Nat /\ WordBits >= 8 /\ QuadBits = 2 * WordBits
<1>0. WordBits \in Nat /\ WordBits >= 8 /\ QuadBits = 2 * WordBits
  BY WordBitsAssumption DEF QuadBits
<1>1. PICK w \in Nat : w = WordBits - 4 /\ w + 1 = WordBits - 3 /\ (w + 1) + 1 = WordBits - 2
                       /\ (w + 2) + 1 = WordBits - 1 /\ (w + 3) + 1 = WordBits
                       /\ (w + 4) + 1 = WordBits + 1
                       /\ w + 2 = WordBits - 2 /\ w + 3 = WordBits - 1 /\ w + 4 = WordBits
  BY <1>0
<1>2. PICK Q \in Nat : Q = Bits(w) /\ Q > 0
  BY BitsPositive
<1>3. Bits(WordBits - 3) = 2 * Q
  BY <1>1, <1>2, BitsEquations
<1>4. Bits(WordBits - 2) = 2 * (2 * Q)
  <2>1. w + 1 \in Nat
    OBVIOUS
  <2> QED  BY <1>1, <1>3, <2>1, BitsEquations
<1>5. Bits(WordBits - 1) = 2 * (4 * Q)
  <2>1. w + 2 \in Nat
    OBVIOUS
  <2>2. Bits((w + 2) + 1) = 2 * Bits(w + 2)
    BY <2>1, BitsEquations
  <2>3. Bits(w + 2) = 4 * Q
    BY <1>1, <1>4
  <2> QED  BY <1>1, <2>2, <2>3
<1>6. Bits(WordBits) = 2 * (8 * Q)
  <2>1. w + 3 \in Nat
    OBVIOUS
  <2>2. Bits((w + 3) + 1) = 2 * Bits(w + 3)
    BY <2>1, BitsEquations
  <2>3. Bits(w + 3) = 8 * Q
    BY <1>1, <1>5
  <2> QED  BY <1>1, <2>2, <2>3
<1>7. Bits(WordBits + 1) = 2 * (16 * Q)
  <2>1. w + 4 \in Nat
    OBVIOUS
  <2>2. Bits((w + 4) + 1) = 2 * Bits(w + 4)
    BY <2>1, BitsEquations
  <2>3. Bits(w + 4) = 16 * Q
    BY <1>1, <1>6
  <2> QED  BY <1>1, <2>2, <2>3
<1>8. Mantissa(WordBits) = WordBits - 4
  BY <1>0 DEF Mantissa
<1>9. InfinityCode(WordBits) = 7 * Q
  BY <1>1, <1>2, <1>5, <1>8 DEF InfinityCode
<1>10. Word = 0..16 * Q - 1
  BY <1>6 DEF Word
<1>11. /\ Bits(WordBits - 2) = 4 * Q /\ Bits(WordBits - 1) = 8 * Q
       /\ Bits(WordBits) = 16 * Q /\ Bits(WordBits + 1) = 32 * Q /\ Q >= 1
  BY <1>2, <1>4, <1>5, <1>6, <1>7
<1>12. Q = Bits(WordBits - 4)
  BY <1>1, <1>2
<1> QED  BY <1>0, <1>3, <1>8, <1>9, <1>10, <1>11, <1>12

\* A number with k bits, two to four more than the mantissa keeps.
LEMMA NearestOf ==
  ASSUME NEW a \in Nat, NEW s \in {2, 3, 4},
         Bits(WordBits - 4 + s) <= a, a < Bits(WordBits - 3 + s),
         NEW c, c = s * Bits(WordBits - 4) + RoundHalfEven(a, Bits(s)),
         c \in Nat, c <= InfinityCode(WordBits)
  PROVE  Nearest(a, WordBits) = c
<1>1. PICK Q \in Nat : /\ Q = Bits(WordBits - 4) /\ InfinityCode(WordBits) = 7 * Q
                       /\ Mantissa(WordBits) = WordBits - 4
                       /\ WordBits \in Nat /\ WordBits >= 8 /\ QuadBits = 2 * WordBits
  BY SingleFormat
<1>2. PICK k \in Nat : k = WordBits - 3 + s /\ k - 1 = WordBits - 4 + s /\ 1 <= k
                       /\ k <= QuadBits + 14
  BY <1>1
<1>3. Bits(k - 1) <= a /\ a < Bits(k)
  BY <1>2
<1>4. BitLength(a) = k
  BY <1>2, <1>3, BitLengthIs
<1>5. Magnitude(a) = a /\ ~(a < 0)
  BY DEF Magnitude
<1>6. PICK p : p = WordBits - 3 /\ p = Mantissa(WordBits) + 1 /\ k - p = s
               /\ p - 1 = WordBits - 4
  BY <1>1, <1>2
<1>7. ~(s <= 0)
  OBVIOUS
<1>8. ~(c > InfinityCode(WordBits))
  BY <1>1
<1> QED  BY <1>4, <1>5, <1>6, <1>7, <1>8 DEF Nearest

-----------------------------------------------------------------------------
(* Registers and frame together are one frame, the view: every access to a *)
(* local reads or writes the view, write-back and reload leave it alone.   *)
(* The exception is a double of which one half has a register; only the    *)
(* one above the highest cached offset can be that.                        *)

\* Machines as emitted code has them: cached offsets name words of the frame.
IsMachine(m) ==
  /\ {"mem", "reg"} \subseteq DOMAIN m
  /\ m.mem = [a \in DOMAIN m.mem |-> m.mem[a]]
  /\ m.reg = [o \in DOMAIN m.reg |-> m.reg[o]]
  /\ DOMAIN m.mem \subseteq Int
  /\ DOMAIN m.reg \subseteq Int
  /\ \A o \in DOMAIN m.reg : Fp - o \in DOMAIN m.mem

\* The frame with both words of the variable at o set.
Both(f, o, p) == [f EXCEPT ![Fp - o] = p[1], ![Fp - o + 1] = p[2]]

\* The view, word by word.
LEMMA ViewOfMachine ==
  ASSUME NEW m, IsMachine(m)
  PROVE  /\ DOMAIN View(m) = DOMAIN m.mem
         /\ View(m) = [a \in DOMAIN m.mem |->
                         IF Fp - a \in DOMAIN m.reg THEN m.reg[Fp - a]
                         ELSE m.mem[a]]
  BY DEF View, FlushCachedLocals, Cached, IsMachine

\* A read of a local finds what the program last wrote, wherever that is.
THEOREM LoadReadsView ==
  ASSUME NEW m, IsMachine(m), NEW o \in Int, Fp - o \in DOMAIN m.mem
  PROVE  LoadVar(m, o) = View(m)[Fp - o]
<1>1. Fp - (Fp - o) = o
  BY LocalCacheAssumption
<1> QED  BY <1>1, ViewOfMachine DEF LoadVar, Cached

\* A write to a cached local.
LEMMA StoreToRegister ==
  ASSUME NEW m, IsMachine(m), NEW o \in DOMAIN m.reg, NEW x
  PROVE  LET n == [m EXCEPT !.reg[o] = x]
         IN  /\ n.mem = m.mem
             /\ n.reg = [m.reg EXCEPT ![o] = x]
             /\ DOMAIN n.reg = DOMAIN m.reg
             /\ {"mem", "reg"} \subseteq DOMAIN n
  BY DEF IsMachine

\* A write to the frame.
LEMMA StoreToFrame ==
  ASSUME NEW m, IsMachine(m), NEW at, NEW x
  PROVE  LET n == [m EXCEPT !.mem[at] = x]
         IN  /\ n.reg = m.reg
             /\ n.mem = [m.mem EXCEPT ![at] = x]
             /\ DOMAIN n.mem = DOMAIN m.mem
             /\ {"mem", "reg"} \subseteq DOMAIN n
  BY DEF IsMachine

\* A write to a local changes the word of the view it names, and no other.
THEOREM StoreWritesView ==
  ASSUME NEW m, IsMachine(m), NEW o \in Int, Fp - o \in DOMAIN m.mem, NEW x
  PROVE  /\ IsMachine(StoreVar(m, o, x))
         /\ DOMAIN StoreVar(m, o, x).mem = DOMAIN m.mem
         /\ DOMAIN StoreVar(m, o, x).reg = DOMAIN m.reg
         /\ View(StoreVar(m, o, x)) = [View(m) EXCEPT ![Fp - o] = x]
<1> DEFINE n == StoreVar(m, o, x)
<1>a. DOMAIN m.mem \subseteq Int /\ DOMAIN m.reg \subseteq Int
  BY DEF IsMachine
<1>1. CASE o \in DOMAIN m.reg
  <2>1. n = [m EXCEPT !.reg[o] = x]
    BY <1>1 DEF StoreVar, Cached
  <2>2. /\ n.mem = m.mem /\ n.reg = [m.reg EXCEPT ![o] = x]
        /\ DOMAIN n.reg = DOMAIN m.reg /\ {"mem", "reg"} \subseteq DOMAIN n
    BY <2>1, <1>1, StoreToRegister
  <2>3. IsMachine(n)
    BY <2>2 DEF IsMachine
  <2> HIDE DEF n
  <2>4. View(n) = [a \in DOMAIN m.mem |->
                     IF Fp - a \in DOMAIN m.reg THEN n.reg[Fp - a] ELSE m.mem[a]]
    BY <2>2, <2>3, ViewOfMachine
  <2>5. \A a \in DOMAIN m.mem : Fp - a = o <=> a = Fp - o
    BY <1>a, LocalCacheAssumption
  <2>6. View(n) = [View(m) EXCEPT ![Fp - o] = x]
    BY <2>2, <2>4, <2>5, <1>1, ViewOfMachine
  <2> QED  BY <2>2, <2>3, <2>6 DEF n
<1>2. CASE o \notin DOMAIN m.reg
  <2>1. n = [m EXCEPT !.mem[Fp - o] = x]
    BY <1>2 DEF StoreVar, Cached
  <2>2. /\ n.reg = m.reg /\ n.mem = [m.mem EXCEPT ![Fp - o] = x]
        /\ DOMAIN n.mem = DOMAIN m.mem /\ {"mem", "reg"} \subseteq DOMAIN n
    BY <2>1, StoreToFrame
  <2>3. IsMachine(n)
    BY <2>2 DEF IsMachine
  <2> HIDE DEF n
  <2>4. View(n) = [a \in DOMAIN m.mem |->
                     IF Fp - a \in DOMAIN m.reg THEN m.reg[Fp - a] ELSE n.mem[a]]
    BY <2>2, <2>3, ViewOfMachine
  <2>5. Fp - (Fp - o) = o
    BY LocalCacheAssumption
  <2>6. View(n) = [View(m) EXCEPT ![Fp - o] = x]
    BY <2>2, <2>4, <2>5, <1>2, ViewOfMachine
  <2> QED  BY <2>2, <2>3, <2>6 DEF n
<1> QED  BY <1>1, <1>2

-----------------------------------------------------------------------------
\* A 64-bit variable is read and written half by half, each where it lives.
THEOREM Load64ReadsView ==
  ASSUME NEW m, IsMachine(m), NEW o \in Int,
         Fp - o \in DOMAIN m.mem, Fp - o + 1 \in DOMAIN m.mem
  PROVE  LoadVar64(m, o) = <<View(m)[Fp - o], View(m)[Fp - o + 1]>>
<1>1. o - 1 \in Int /\ Fp - (o - 1) = Fp - o + 1
  BY LocalCacheAssumption
<1>2. LoadVar(m, o) = View(m)[Fp - o]
  BY LoadReadsView
<1>3. LoadVar(m, o - 1) = View(m)[Fp - o + 1]
  BY <1>1, LoadReadsView
<1> QED  BY <1>2, <1>3 DEF LoadVar64

\* A 64-bit store writes both words of the view.
THEOREM Store64WritesView ==
  ASSUME NEW m, IsMachine(m), NEW o \in Int,
         Fp - o \in DOMAIN m.mem, Fp - o + 1 \in DOMAIN m.mem, NEW p
  PROVE  /\ IsMachine(StoreVar64(m, o, p))
         /\ View(StoreVar64(m, o, p)) = Both(View(m), o, p)
<1>1. o - 1 \in Int /\ Fp - (o - 1) = Fp - o + 1
  BY LocalCacheAssumption
<1>2. PICK n : n = StoreVar(m, o, p[1])
  OBVIOUS
<1>3. /\ IsMachine(n) /\ DOMAIN n.mem = DOMAIN m.mem
      /\ View(n) = [View(m) EXCEPT ![Fp - o] = p[1]]
  BY <1>2, StoreWritesView
<1>4. PICK j \in Int : j = o - 1
  BY <1>1
<1>5. PICK x : x = p[2]
  OBVIOUS
<1>6. Fp - j \in DOMAIN n.mem
  BY <1>1, <1>3, <1>4
<1>7. /\ IsMachine(StoreVar(n, j, x))
      /\ View(StoreVar(n, j, x)) = [View(n) EXCEPT ![Fp - j] = x]
  <2>1. IsMachine(n)
    BY <1>3
  <2> QED  BY <2>1, <1>6, StoreWritesView
<1>8. StoreVar64(m, o, p) = StoreVar(n, j, x)
  BY <1>2, <1>4, <1>5 DEF StoreVar64
<1>9. View(StoreVar(n, j, x)) = Both(View(m), o, p)
  BY <1>1, <1>3, <1>4, <1>5, <1>7 DEF Both
<1> QED  BY <1>7, <1>8, <1>9

\* SSE code takes both words of a double from one place; as long as the halves
\* live in the same place that is the view.
THEOREM LoadDoubleReadsView ==
  ASSUME NEW m, IsMachine(m), NEW o \in Int, NEW sse,
         Fp - o \in DOMAIN m.mem, Fp - o + 1 \in DOMAIN m.mem,
         ~IsSplit(m, o)
  PROVE  LoadDoubleVar(m, o, sse) = <<View(m)[Fp - o], View(m)[Fp - o + 1]>>
<1>1. CASE ThroughMemory(m, o, sse)
  <2>1. o \notin DOMAIN m.reg /\ o - 1 \notin DOMAIN m.reg
    BY <1>1 DEF ThroughMemory, IsSplit, Cached
  <2>2. Fp - (Fp - o) = o /\ Fp - (Fp - o + 1) = o - 1
    BY LocalCacheAssumption
  <2>3. View(m)[Fp - o] = m.mem[Fp - o] /\ View(m)[Fp - o + 1] = m.mem[Fp - o + 1]
    BY <2>1, <2>2, ViewOfMachine
  <2> QED  BY <1>1, <2>3 DEF LoadDoubleVar
<1>2. CASE ~ThroughMemory(m, o, sse)
  BY <1>2, Load64ReadsView DEF LoadDoubleVar
<1> QED  BY <1>1, <1>2

\* A double is stored where it lives unless its halves live apart.
THEOREM StoreDoubleWritesView ==
  ASSUME NEW m, IsMachine(m), NEW o \in Int, NEW sse, NEW p,
         Fp - o \in DOMAIN m.mem, Fp - o + 1 \in DOMAIN m.mem,
         ~IsSplit(m, o)
  PROVE  View(StoreDoubleVar(m, o, p, sse)) = Both(View(m), o, p)
<1>1. CASE ThroughMemory(m, o, sse)
  <2> DEFINE n == [m EXCEPT !.mem[Fp - o] = p[1], !.mem[Fp - o + 1] = p[2]]
  <2>1. o \notin DOMAIN m.reg /\ o - 1 \notin DOMAIN m.reg
    BY <1>1 DEF ThroughMemory, IsSplit, Cached
  <2>2. Fp - (Fp - o) = o /\ Fp - (Fp - o + 1) = o - 1
    BY LocalCacheAssumption
  <2>3. /\ n.reg = m.reg /\ n.mem = Both(m.mem, o, p)
        /\ {"mem", "reg"} \subseteq DOMAIN n
    BY DEF IsMachine, Both
  <2>4. DOMAIN n.mem = DOMAIN m.mem
    BY <2>3 DEF Both
  <2>5. IsMachine(n)
    BY <2>3, <2>4 DEF IsMachine, Both
  <2> HIDE DEF n
  <2>6. View(n) = [a \in DOMAIN m.mem |->
                     IF Fp - a \in DOMAIN m.reg THEN m.reg[Fp - a]
                     ELSE Both(m.mem, o, p)[a]]
    BY <2>3, <2>4, <2>5, ViewOfMachine
  <2>7. View(n) = Both(View(m), o, p)
    BY <2>1, <2>2, <2>6, ViewOfMachine DEF Both
  <2> QED  BY <1>1, <2>7 DEF StoreDoubleVar, n
<1>2. CASE ~ThroughMemory(m, o, sse)
  BY <1>2, Store64WritesView DEF StoreDoubleVar
<1> QED  BY <1>1, <1>2

-----------------------------------------------------------------------------
\* Before a boundary the frame becomes the view, and the view stays.
THEOREM FlushWritesFrame ==
  ASSUME NEW m, IsMachine(m)
  PROVE  /\ FlushCachedLocals(m).mem = View(m)
         /\ View(FlushCachedLocals(m)) = View(m)
         /\ IsMachine(FlushCachedLocals(m))
<1> DEFINE n == FlushCachedLocals(m)
<1>1. n.mem = View(m)
  BY DEF View
<1>2. n.reg = m.reg /\ {"mem", "reg"} \subseteq DOMAIN n
  BY DEF FlushCachedLocals, IsMachine
<1>3. DOMAIN View(m) = DOMAIN m.mem /\
      View(m) = [a \in DOMAIN m.mem |-> IF Fp - a \in DOMAIN m.reg
                                        THEN m.reg[Fp - a] ELSE m.mem[a]]
  BY ViewOfMachine
<1>4. IsMachine(n)
  BY <1>1, <1>2, <1>3 DEF IsMachine
<1> HIDE DEF n
<1>5. View(n) = View(m)
  BY <1>1, <1>2, <1>3, <1>4, ViewOfMachine
<1> QED  BY <1>1, <1>4, <1>5 DEF n

\* After a boundary every local is what the frame says, whatever the helper,
\* the callee or the cleaning of the frame made of it.
THEOREM ReloadReadsFrame ==
  ASSUME NEW m, IsMachine(m)
  PROVE  /\ View(ReloadCachedLocals(m)) = m.mem
         /\ IsMachine(ReloadCachedLocals(m))
<1> DEFINE n == ReloadCachedLocals(m)
<1>1. n.mem = m.mem /\ n.reg = [o \in DOMAIN m.reg |-> m.mem[Fp - o]]
  BY DEF ReloadCachedLocals, IsMachine, Cached
<1>2. {"mem", "reg"} \subseteq DOMAIN n
  BY DEF ReloadCachedLocals, IsMachine
<1>3. IsMachine(n)
  BY <1>1, <1>2 DEF IsMachine
<1>4. \A a \in DOMAIN m.mem : Fp - (Fp - a) = a
  BY LocalCacheAssumption DEF IsMachine
<1> HIDE DEF n
<1>5. View(n) = [a \in DOMAIN m.mem |->
                   IF Fp - a \in DOMAIN m.reg THEN m.mem[Fp - (Fp - a)]
                   ELSE m.mem[a]]
  BY <1>1, <1>3, ViewOfMachine
<1>6. View(n) = m.mem
  BY <1>4, <1>5 DEF IsMachine
<1> QED  BY <1>3, <1>6 DEF n

-----------------------------------------------------------------------------
\* Whatever offsets a function uses, a 64-bit variable it names has both halves
\* in registers or none, unless its low word is just above the last register.
THEOREM OnlyTheHighestSplits ==
  ASSUME NEW m, NEW recorded \in SUBSET Int,
         DOMAIN m.reg = CollectCachedLocalOffsets(recorded),
         NEW o \in recorded, o >= 2
  PROVE  IsSplit(m, o) <=> o = MaxCachedLocals + 1
<1>1. o \in UNION {1..w : w \in recorded} /\ o - 1 \in UNION {1..w : w \in recorded}
  <2>1. o \in 1..o /\ o - 1 \in 1..o
    OBVIOUS
  <2> QED  BY <2>1
<1>2. o \in DOMAIN m.reg <=> o <= MaxCachedLocals
  BY <1>1, LocalCacheAssumption DEF CollectCachedLocalOffsets
<1>3. o - 1 \in DOMAIN m.reg <=> o - 1 <= MaxCachedLocals
  BY <1>1, LocalCacheAssumption DEF CollectCachedLocalOffsets
<1> QED  BY <1>2, <1>3, LocalCacheAssumption DEF IsSplit, Cached
=============================================================================
