--------------------------- MODULE NumericHelpers ---------------------------
(***************************************************************************)
(* What the arithmetic instructions do in the interpreter, as the helpers  *)
(* of src/bytecode/helpers do it: every helper works on the frame in       *)
(* memory and on the registers of asSVMRegisters.                          *)
(*                                                                         *)
(* An instruction is a record: op, the word arguments a, b and c, q (the   *)
(* DWORD argument q[1], or both halves of the QWORD argument), p (the      *)
(* pointer argument) and kind (what the type it names is). A machine adds  *)
(* to LocalCache's mem and reg the value register vr = <<low, high>>, the  *)
(* stack pointer sp, the object register and the exception raised.         *)
(* Addresses count dwords.                                                 *)
(***************************************************************************)
EXTENDS Words, LocalCache

\* The variable at offset o, and a 64-bit one.
Var(m, o) == m.mem[Fp - o]
Var64(m, o) == Quad(m.mem[Fp - o], m.mem[Fp - o + 1])

SetVar(m, o, x) == [m EXCEPT !.mem[Fp - o] = Low(x, WordBits)]
SetVar64(m, o, x) ==
  LET q == Low(x, QuadBits)
  IN  [m EXCEPT !.mem[Fp - o] = LowHalf(q), !.mem[Fp - o + 1] = HighHalf(q)]

SetResult(m, x) == [m EXCEPT !.vr[1] = Low(x, WordBits)]

Pushed(m, words) ==
  LET n == Len(words)
  IN  [m EXCEPT !.sp = @ - n,
                !.mem = [a \in DOMAIN m.mem |->
                           IF a \in m.sp - n..m.sp - 1
                           THEN words[a - (m.sp - n) + 1] ELSE @[a]]]

Popped(m) == [m EXCEPT !.sp = @ + 1]

Top(m) == m.mem[m.sp]
SetTop(m, x) == [m EXCEPT !.mem[m.sp] = x]

SetInternalException(m, text) == [m EXCEPT !.exc = text]

NullCheck(m, x, next) ==
  IF x = 0 THEN SetInternalException(m, "TXT_NULL_POINTER_ACCESS") ELSE next

-----------------------------------------------------------------------------
(* numeric32_helpers.cpp                                                   *)

NegateOps == {"NOT", "NEGi", "NEGf", "NEGd"}
Negate(i, m) ==
  LET x == Var(m, i.a)
  IN  CASE i.op = "NOT" -> SetVar(m, i.a, Truth(Low(x, ByteBits) = 0))
        [] i.op = "NEGi" -> SetVar(m, i.a, -x)
        [] i.op = "NEGf" -> SetVar(m, i.a, Negated(x, WordBits))
        [] i.op = "NEGd" -> SetVar64(m, i.a, Negated(Var64(m, i.a), QuadBits))

\* Increment and decrement of what the value register points to.
StepOps == {"INCi", "DECi", "INCi8", "DECi8", "INCi16", "DECi16", "INCf",
            "DECf", "INCd", "DECd"}

One(n) == Nearest(1, n)

Step(i, m) ==
  LET at == Fp - m.vr[1]
      x == Var(m, at)
      \* the low n bits of the dword change
      Part(y, n) == SetVar(m, at, x - Low(x, n) + Low(y, n))
  IN  CASE i.op = "INCi" -> SetVar(m, at, x + 1)
        [] i.op = "DECi" -> SetVar(m, at, x - 1)
        [] i.op = "INCi8" -> Part(x + 1, ByteBits)
        [] i.op = "DECi8" -> Part(x - 1, ByteBits)
        [] i.op = "INCi16" -> Part(x + 1, ShortBits)
        [] i.op = "DECi16" -> Part(x - 1, ShortBits)
        [] i.op = "INCf" -> SetVar(m, at, SumOf(x, One(WordBits), WordBits))
        [] i.op = "DECf" ->
             SetVar(m, at, SumOf(x, Negated(One(WordBits), WordBits), WordBits))
        [] i.op = "INCd" ->
             SetVar64(m, at, SumOf(Var64(m, at), One(QuadBits), QuadBits))
        [] i.op = "DECd" ->
             SetVar64(m, at, SumOf(Var64(m, at),
                                   Negated(One(QuadBits), QuadBits), QuadBits))

StepVariableOps == {"IncVi", "DecVi"}
StepVariable(i, m) ==
  SetVar(m, i.a, Var(m, i.a) + (IF i.op = "IncVi" THEN 1 ELSE -1))

BitOps == {"BNOT", "BAND", "BOR", "BXOR", "BSLL", "BSRL", "BSRA"}

\* A 32-bit count counts modulo 32: what shl, shr and sar do, and what the
\* shift of C++ compiles to.
BitResult(op, x, y) ==
  LET c == y % WordBits
  IN  CASE op = "BAND" -> And(x, y, WordBits)
        [] op = "BOR" -> Or(x, y, WordBits)
        [] op = "BXOR" -> Xor(x, y, WordBits)
        [] op = "BSLL" -> ShiftLeft(x, c, WordBits)
        [] op = "BSRL" -> ShiftRight(x, c)
        [] op = "BSRA" -> ShiftArithmetic(x, c, WordBits)

Bit(i, m) ==
  IF i.op = "BNOT" THEN SetVar(m, i.a, Complement(Var(m, i.a), WordBits))
  ELSE SetVar(m, i.a, BitResult(i.op, Var(m, i.b), Var(m, i.c)))

ConvertOps == {"iTOf", "fTOi", "uTOf", "fTOu"}
Convert(i, m) ==
  LET x == Var(m, i.a)
  IN  SetVar(m, i.a,
        CASE i.op = "iTOf" -> Nearest(Signed(x, WordBits), WordBits)
          [] i.op = "uTOf" -> Nearest(x, WordBits)
          [] i.op \in {"fTOi", "fTOu"} -> Truncated(x, WordBits, WordBits))

ExtendOps == {"sbTOi", "swTOi", "ubTOi", "uwTOi"}
ExtendPart(i, m) ==
  LET x == Var(m, i.a)
  IN  SetVar(m, i.a,
        CASE i.op = "sbTOi" -> Extend(x, ByteBits, WordBits)
          [] i.op = "swTOi" -> Extend(x, ShortBits, WordBits)
          [] i.op = "ubTOi" -> Low(x, ByteBits)
          [] i.op = "uwTOi" -> Low(x, ShortBits))

ConvertDoubleOps == {"dTOi", "dTOu", "dTOf", "iTOd", "uTOd", "fTOd"}
ConvertDouble(i, m) ==
  LET x == Var(m, i.b)
      d == Var64(m, i.b)
  IN  CASE i.op \in {"dTOi", "dTOu"} ->
             SetVar(m, i.a, Truncated(d, QuadBits, WordBits))
        [] i.op = "dTOf" -> SetVar(m, i.a, Converted(d, QuadBits, WordBits))
        [] i.op = "iTOd" ->
             SetVar64(m, i.a, Nearest(Signed(x, WordBits), QuadBits))
        [] i.op = "uTOd" -> SetVar64(m, i.a, Nearest(x, QuadBits))
        [] i.op = "fTOd" -> SetVar64(m, i.a, Converted(x, WordBits, QuadBits))

IntegerOps == {"ADDi", "SUBi", "MULi"}
IntegerResult(op, x, y) ==
  CASE op \in {"ADDi", "ADDIi"} -> x + y
    [] op \in {"SUBi", "SUBIi"} -> x - y
    [] op \in {"MULi", "MULIi"} -> x * y
Integer(i, m) == SetVar(m, i.a, IntegerResult(i.op, Var(m, i.b), Var(m, i.c)))

\* The division of the signed n-bit words x and y, or the exception it raises.
DivideSigned(m, x, y, n, isQuotient, Store(_, _)) ==
  LET i == Signed(x, n)
      j == Signed(y, n)
  IN  IF j = 0 THEN SetInternalException(m, "TXT_DIVIDE_BY_ZERO")
      ELSE IF j = -1 /\ x = MinSigned(n)
      THEN SetInternalException(m, "TXT_DIVIDE_OVERFLOW")
      ELSE Store(m, IF isQuotient THEN Quotient(i, j) ELSE Remainder(i, j))

DivideOps == {"DIVi", "MODi"}
Divide(i, m) ==
  LET Store(s, x) == SetVar(s, i.a, x)
  IN  DivideSigned(m, Var(m, i.b), Var(m, i.c), WordBits, i.op = "DIVi", Store)

FloatOps == {"ADDf", "SUBf", "MULf", "DIVf", "MODf"}
FloatResult(op, x, y, n) ==
  CASE op \in {"ADDf", "ADDd", "ADDIf"} -> SumOf(x, y, n)
    [] op \in {"SUBf", "SUBd", "SUBIf"} -> SumOf(x, Negated(y, n), n)
    [] op \in {"MULf", "MULd", "MULIf"} -> Opaque(1, x, y, n)
    [] op \in {"DIVf", "DIVd"} -> Opaque(2, x, y, n)
    [] op \in {"MODf", "MODd"} -> Opaque(3, x, y, n)
Float(i, m) ==
  IF i.op \in {"DIVf", "MODf"} /\ IsZero(Var(m, i.c), WordBits)
  THEN SetInternalException(m, "TXT_DIVIDE_BY_ZERO")
  ELSE SetVar(m, i.a, FloatResult(i.op, Var(m, i.b), Var(m, i.c), WordBits))

DoubleOps == {"ADDd", "SUBd", "MULd", "DIVd", "MODd"}
Double(i, m) ==
  IF i.op \in {"DIVd", "MODd"} /\ IsZero(Var64(m, i.c), QuadBits)
  THEN SetInternalException(m, "TXT_DIVIDE_BY_ZERO")
  ELSE SetVar64(m, i.a,
                FloatResult(i.op, Var64(m, i.b), Var64(m, i.c), QuadBits))

IntegerImmediateOps == {"ADDIi", "SUBIi", "MULIi"}
IntegerImmediate(i, m) ==
  SetVar(m, i.a, IntegerResult(i.op, Var(m, i.b), i.q[1]))

FloatImmediateOps == {"ADDIf", "SUBIf", "MULIf"}
FloatImmediate(i, m) ==
  SetVar(m, i.a, FloatResult(i.op, Var(m, i.b), i.q[1], WordBits))

SetGlobalOps == {"SetG4"}
SetGlobal(i, m) == [m EXCEPT !.mem[i.p] = i.q[1]]

NarrowOps == {"iTOb", "iTOw"}
Narrow(i, m) ==
  SetVar(m, i.a, Low(Var(m, i.a), IF i.op = "iTOb" THEN ByteBits ELSE ShortBits))

-----------------------------------------------------------------------------
(* numeric64_helpers.cpp                                                   *)

Convert64Ops == {"i64TOi", "uTOi64", "iTOi64", "fTOi64", "dTOi64", "fTOu64",
                 "dTOu64", "i64TOf", "u64TOf", "i64TOd", "u64TOd"}
Convert64(i, m) ==
  LET x == Var(m, i.b)
      q == Var64(m, i.b)
      own == Var64(m, i.a)
  IN  CASE i.op = "i64TOi" -> SetVar(m, i.a, LowHalf(q))
        [] i.op = "uTOi64" -> SetVar64(m, i.a, x)
        [] i.op = "iTOi64" -> SetVar64(m, i.a, Signed(x, WordBits))
        [] i.op \in {"fTOi64", "fTOu64"} ->
             SetVar64(m, i.a, Truncated(x, WordBits, QuadBits))
        [] i.op \in {"dTOi64", "dTOu64"} ->
             SetVar64(m, i.a, Truncated(own, QuadBits, QuadBits))
        [] i.op = "i64TOf" ->
             SetVar(m, i.a, Nearest(Signed(q, QuadBits), WordBits))
        [] i.op = "u64TOf" -> SetVar(m, i.a, Nearest(q, WordBits))
        [] i.op = "i64TOd" ->
             SetVar64(m, i.a, Nearest(Signed(own, QuadBits), QuadBits))
        [] i.op = "u64TOd" -> SetVar64(m, i.a, Nearest(own, QuadBits))

Unary64Ops == {"NEGi64", "BNOT64", "INCi64", "DECi64"}
Unary64(i, m) ==
  LET at == Fp - m.vr[1]
  IN  CASE i.op = "NEGi64" -> SetVar64(m, i.a, -Var64(m, i.a))
        [] i.op = "BNOT64" ->
             SetVar64(m, i.a, Complement(Var64(m, i.a), QuadBits))
        [] i.op = "INCi64" -> SetVar64(m, at, Var64(m, at) + 1)
        [] i.op = "DECi64" -> SetVar64(m, at, Var64(m, at) - 1)

Integer64Ops == {"ADDi64", "SUBi64", "MULi64"}

\* x * y modulo 2^n through the halves of y, so that TLC can compute it.
Product(x, y, n) ==
  Low(Low(x * LowHalf(y), n) + ShiftLeft(Low(x * HighHalf(y), n), WordBits, n), n)

Integer64(i, m) ==
  LET x == Var64(m, i.b)
      y == Var64(m, i.c)
  IN  SetVar64(m, i.a, CASE i.op = "ADDi64" -> x + y
                         [] i.op = "SUBi64" -> x - y
                         [] i.op = "MULi64" -> Product(x, y, QuadBits))

Divide64Ops == {"DIVi64", "MODi64"}
Divide64(i, m) ==
  LET Store(s, x) == SetVar64(s, i.a, x)
  IN  DivideSigned(m, Var64(m, i.b), Var64(m, i.c), QuadBits,
                   i.op = "DIVi64", Store)

Bit64Ops == {"BAND64", "BOR64", "BXOR64"}
Bit64(i, m) ==
  LET x == Var64(m, i.b)
      y == Var64(m, i.c)
  IN  SetVar64(m, i.a, CASE i.op = "BAND64" -> And(x, y, QuadBits)
                         [] i.op = "BOR64" -> Or(x, y, QuadBits)
                         [] i.op = "BXOR64" -> Xor(x, y, QuadBits))

\* Counts of 64 and more are undefined in C++; none is given to it here.
Shift64Ops == {"BSLL64", "BSRL64", "BSRA64"}
Shift64(i, m) ==
  LET x == Var64(m, i.b)
      c == Var(m, i.c)
  IN  SetVar64(m, i.a, CASE i.op = "BSLL64" -> ShiftLeft(x, c, QuadBits)
                         [] i.op = "BSRL64" -> ShiftRight(x, c)
                         [] i.op = "BSRA64" -> ShiftArithmetic(x, c, QuadBits))

Compare64Ops == {"CMPi64", "CMPu64"}
Compare64(i, m) ==
  LET x == Var64(m, i.a)
      y == Var64(m, i.b)
  IN  SetResult(m, IF i.op = "CMPu64" THEN Ordering(x, y)
                   ELSE Ordering(Signed(x, QuadBits), Signed(y, QuadBits)))

ClearHighOps == {"ClrHi"}
ClearHigh(i, m) == [m EXCEPT !.vr[1] = Low(@, ByteBits)]

DivideUnsignedOps == {"DIVu", "MODu"}
DivideUnsigned(i, m) ==
  LET y == Var(m, i.c)
  IN  IF y = 0 THEN SetInternalException(m, "TXT_DIVIDE_BY_ZERO")
      ELSE SetVar(m, i.a, IF i.op = "DIVu" THEN Var(m, i.b) \div y
                          ELSE Var(m, i.b) % y)

DivideUnsigned64Ops == {"DIVu64", "MODu64"}
DivideUnsigned64(i, m) ==
  LET y == Var64(m, i.c)
  IN  IF y = 0 THEN SetInternalException(m, "TXT_DIVIDE_BY_ZERO")
      ELSE SetVar64(m, i.a, IF i.op = "DIVu64" THEN Var64(m, i.b) \div y
                            ELSE Var64(m, i.b) % y)

-----------------------------------------------------------------------------
(* comparison_helpers.cpp                                                  *)

\* The tests leave a whole 64-bit truth value in the value register, the
\* comparisons only a 32-bit one.
TestOps == {"TZ", "TNZ", "TS", "TNS", "TP", "TNP"}
Test(i, m) ==
  LET x == Signed(m.vr[1], WordBits)
      holds == CASE i.op \in {"TZ", "TNZ"} -> (x = 0) = (i.op = "TZ")
                 [] i.op \in {"TS", "TNS"} -> (x < 0) = (i.op = "TS")
                 [] i.op \in {"TP", "TNP"} -> (x > 0) = (i.op = "TP")
  IN  [m EXCEPT !.vr = <<Truth(holds), 0>>]

\* A NaN is neither equal nor less.
FloatOrdering(x, y, n) ==
  IF IsNaN(x, n) \/ IsNaN(y, n) THEN 1 ELSE Ordering(Rank(x, n), Rank(y, n))

CompareOps == {"CMPd", "CMPu", "CMPf", "CMPi", "CMPIi", "CMPIf", "CMPIu",
               "CmpPtr"}
CompareVariables(i, m) ==
  LET x == Var(m, i.a)
      y == IF i.op \in {"CMPIi", "CMPIf", "CMPIu"} THEN i.q[1] ELSE Var(m, i.b)
  IN  SetResult(m,
        CASE i.op = "CMPd" ->
               FloatOrdering(Var64(m, i.a), Var64(m, i.b), QuadBits)
          [] i.op \in {"CMPf", "CMPIf"} -> FloatOrdering(x, y, WordBits)
          [] i.op \in {"CMPu", "CMPIu", "CmpPtr"} -> Ordering(x, y)
          [] i.op \in {"CMPi", "CMPIi"} ->
               Ordering(Signed(x, WordBits), Signed(y, WordBits)))

-----------------------------------------------------------------------------
(* power_helpers.cpp                                                       *)

\* pow_info[2].MaxBasei32: the largest number whose square is an int.
MaxSquareBase == CHOOSE b \in Word : b * b < MinSigned(WordBits)
                                     /\ (b + 1) * (b + 1) >= MinSigned(WordBits)

\* as_powi: the power, or 0 with isOverflow.
PowerOf(i, j) ==
  LET large == Magnitude(i) > 1
               /\ \/ j >= WordBits - 1
                  \/ Magnitude(i) > MaxSquareBase
                  \/ Power(Magnitude(i), j) >= MinSigned(WordBits)
      isOverflow == IF i = 0 THEN j <= 0 ELSE j > 1 /\ large
  IN  [isOverflow |-> isOverflow,
       value |-> IF isOverflow \/ j < 0 THEN 0
                 ELSE IF i \in {-1, 1} THEN Power(i, j % 2) ELSE Power(i, j)]

PowerOps == {"POWi", "POWu", "POWf", "POWd", "POWdi", "POWi64", "POWu64"}

\* The result is stored before the overflow is raised. Only the power of two
\* ints has code of its own; the others are some function of their operands.
RaiseToPower(i, m) ==
  LET whole == i.op \in {"POWd", "POWdi", "POWi64", "POWu64"}
      n == IF whole THEN QuadBits ELSE WordBits
      x == IF whole THEN Var64(m, i.b) ELSE Var(m, i.b)
      y == IF whole /\ i.op # "POWdi" THEN Var64(m, i.c) ELSE Var(m, i.c)
      int == PowerOf(Signed(Var(m, i.b), WordBits), Signed(Var(m, i.c), WordBits))
      r == IF i.op = "POWi"
           THEN int
           ELSE [isOverflow |-> Opaque(5, x, y, 2) = 0,
                 value |-> Opaque(4, x, y, n)]
      stored == IF whole THEN SetVar64(m, i.a, r.value)
                ELSE SetVar(m, i.a, r.value)
  IN  IF r.isOverflow THEN SetInternalException(stored, "TXT_POW_OVERFLOW")
      ELSE stored
=============================================================================
