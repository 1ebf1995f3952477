------------------------ MODULE EmittedInstructions ------------------------
(***************************************************************************)
(* What the native code of an instruction does, as the emitters of         *)
(* src/codegen/emit/numeric.cpp write it: operands through LoadVar and     *)
(* StoreVar, which know the cached locals, and the value register and the  *)
(* stack in asSVMRegisters. A machine has two more fields: sse, whether    *)
(* the processor's SSE loads and stores are used, and local, set when the  *)
(* code raised an exception by itself. An instruction has one more,        *)
(* square: the constant two was found for the exponent of a POWi.          *)
(***************************************************************************)
EXTENDS MemoryHelpers

Half(x) == Low(x, WordBits)
Halves(x) == LET q == Low(x, QuadBits) IN <<LowHalf(q), HighHalf(q)>>

\* An SSE register holds as much as the store takes from it.
LoadFloatVar(m, o) == LoadVar(m, o)
StoreFloatVar(m, o, x) == StoreVar(m, o, Half(x))

LoadDouble(m, o) ==
  LET p == LoadDoubleVar(m, o, m.sse) IN Quad(p[1], p[2])
StoreDouble(m, o, x) == StoreDoubleVar(m, o, Halves(x), m.sse)

LoadQuad(m, o) == LET p == LoadVar64(m, o) IN Quad(p[1], p[2])

\* Mutants: registers not read back, registers not written back.
EmitHelperCallNoReload(i, m) == Interpret(i, FlushCachedLocals(m))
EmitInternalExceptionNoFlush(m, text) ==
  [SetInternalException(m, text) EXCEPT !.local = TRUE]

\* A helper, or another function of C++, works on the frame in memory.
EmitHelperCall(i, m) ==
  ReloadCachedLocals(Interpret(i, FlushCachedLocals(m)))

\* Raising leaves this instruction for the catch block or for the exit. The
\* code that raises by itself (local) may jump to the catch block, a helper
\* that raises leaves the function.
EmitInternalException(m, text) ==
  [SetInternalException(FlushCachedLocals(m), text) EXCEPT !.local = TRUE]

NullGuard(m, x, next) ==
  IF x = 0 THEN EmitInternalException(m, "TXT_NULL_POINTER_ACCESS") ELSE next

-----------------------------------------------------------------------------
(* EmitNumeric: 64-bit integers as two words                               *)

AddSub64(i, m) ==
  LET x == LoadVar64(m, i.b)
      y == LoadVar64(m, i.c)
      carry == Truth(x[1] + y[1] >= Bits(WordBits))
      borrow == Truth(x[1] < y[1])
  IN  StoreVar64(m, i.a,
        IF i.op = "ADDi64"
        THEN <<Half(x[1] + y[1]), Half(x[2] + y[2] + carry)>>
        ELSE <<Half(x[1] - y[1]), Half(x[2] - y[2] - borrow)>>)

Multiply64(i, m) ==
  LET x == LoadVar64(m, i.b)
      y == LoadVar64(m, i.c)
      low == x[1] * y[1]
      high == HighHalf(low) + Half(x[2] * y[1]) + Half(y[2] * x[1])
  IN  StoreVar64(m, i.a, <<LowHalf(low), Half(high)>>)

\* neg, adc with zero, neg.
Negate64(i, m) ==
  LET x == LoadVar64(m, i.a)
  IN  StoreVar64(m, i.a, <<Half(-x[1]), Half(-(x[2] + Truth(x[1] # 0)))>>)

Not64(i, m) ==
  LET x == LoadVar64(m, i.a)
  IN  StoreVar64(m, i.a,
                 <<Complement(x[1], WordBits), Complement(x[2], WordBits)>>)

Bits64(i, m) ==
  LET x == LoadVar64(m, i.b)
      y == LoadVar64(m, i.c)
      op == CASE i.op = "BAND64" -> "BAND" [] i.op = "BOR64" -> "BOR"
              [] i.op = "BXOR64" -> "BXOR"
  IN  StoreVar64(m, i.a, <<BitResult(op, x[1], y[1]), BitResult(op, x[2], y[2])>>)

WidenUnsigned(i, m) == StoreVar64(m, i.a, <<LoadVar(m, i.b), 0>>)

\* The sign from sar by 31.
WidenSigned(i, m) ==
  LET x == LoadVar(m, i.b)
  IN  StoreVar64(m, i.a, <<x, ShiftArithmetic(x, WordBits - 1, WordBits)>>)

CutQuad(i, m) == StoreVar(m, i.a, LoadVar(m, i.b))

IntToDouble(i, m) ==
  StoreVar64(m, i.a, Halves(Nearest(Signed(LoadVar(m, i.b), WordBits), QuadBits)))

DoubleToInt(i, m) ==
  StoreVar(m, i.a, Truncated(LoadQuad(m, i.b), QuadBits, WordBits))

\* Mutant: the result is not cut to a word.
AddSubMulUncut(i, m) ==
  StoreVar(m, i.a, IntegerResult(i.op, LoadVar(m, i.b), LoadVar(m, i.c)))

AddSubMul(i, m) ==
  StoreVar(m, i.a, Half(IntegerResult(i.op, LoadVar(m, i.b), LoadVar(m, i.c))))

FloatArithmetic(i, m) ==
  StoreFloatVar(m, i.a, FloatResult(i.op, LoadFloatVar(m, i.b),
                                    LoadFloatVar(m, i.c), WordBits))

DoubleArithmetic(i, m) ==
  StoreDouble(m, i.a, FloatResult(i.op, LoadDouble(m, i.b),
                                  LoadDouble(m, i.c), QuadBits))

\* A zero divisor, found without its sign, is left to the helper.
DivideFloat(i, m) ==
  IF Low(LoadVar(m, i.c), WordBits - 1) = 0 THEN EmitHelperCall(i, m)
  ELSE FloatArithmetic(i, m)

\* The zero test looks at the halves, the division at the double.
DivideDouble(i, m) ==
  LET y == LoadVar64(m, i.c)
  IN  IF y[1] = 0 /\ Low(y[2], WordBits - 1) = 0 THEN EmitHelperCall(i, m)
      ELSE DoubleArithmetic(i, m)

FloatWithImmediate(i, m) ==
  StoreFloatVar(m, i.a, FloatResult(i.op, LoadFloatVar(m, i.b), i.q[1], WordBits))

FlipSign(i, m) ==
  LET o == IF i.op = "NEGf" THEN i.a ELSE i.a - 1
  IN  StoreVar(m, o, Half(LoadVar(m, o) + MinSigned(WordBits)))

\* ucomiss and ucomisd: parity for a NaN, then carry, then zero.
CompareFloat(i, m) ==
  LET n == IF i.op = "CMPd" THEN QuadBits ELSE WordBits
      x == IF i.op = "CMPd" THEN LoadDouble(m, i.a) ELSE LoadFloatVar(m, i.a)
      y == CASE i.op = "CMPd" -> LoadDouble(m, i.b)
             [] i.op = "CMPf" -> LoadFloatVar(m, i.b)
             [] i.op = "CMPIf" -> i.q[1]
      parity == IsNaN(x, n) \/ IsNaN(y, n)
      carry == parity \/ Rank(x, n) < Rank(y, n)
      zero == parity \/ Rank(x, n) = Rank(y, n)
  IN  SetResult(m, IF parity THEN 1 ELSE IF carry THEN -1
                   ELSE IF zero THEN 0 ELSE 1)

\* Mutant: the overflow is not looked for.
DivideIntNoOverflow(i, m) ==
  LET p == Signed(LoadVar(m, i.b), WordBits)
      q == Signed(LoadVar(m, i.c), WordBits)
  IN  IF q = 0 THEN EmitInternalException(m, "TXT_DIVIDE_BY_ZERO")
      ELSE StoreVar(m, i.a, Half(IF i.op = "DIVi" THEN Quotient(p, q)
                                 ELSE Remainder(p, q)))

DivideInt(i, m) ==
  LET x == LoadVar(m, i.b)
      y == LoadVar(m, i.c)
      p == Signed(x, WordBits)
      q == Signed(y, WordBits)
  IN  IF y = 0 THEN EmitInternalException(m, "TXT_DIVIDE_BY_ZERO")
      ELSE IF y = MinusOne(WordBits) /\ x = MinSigned(WordBits)
      THEN EmitInternalException(m, "TXT_DIVIDE_OVERFLOW")
      ELSE StoreVar(m, i.a, Half(IF i.op = "DIVi" THEN Quotient(p, q)
                                 ELSE Remainder(p, q)))

DivideUint(i, m) ==
  LET x == LoadVar(m, i.b)
      y == LoadVar(m, i.c)
  IN  IF y = 0 THEN EmitInternalException(m, "TXT_DIVIDE_BY_ZERO")
      ELSE StoreVar(m, i.a, IF i.op = "DIVu" THEN x \div y ELSE x % y)

\* The tests compare the divisor's halves with -1 and 0; the division of C++
\* is undefined for the smallest number and -1.
DivideQuad(i, m) ==
  LET x == LoadVar64(m, i.b)
      y == LoadVar64(m, i.c)
      p == Signed(Quad(x[1], x[2]), QuadBits)
      q == Signed(Quad(y[1], y[2]), QuadBits)
      called == ReloadCachedLocals(FlushCachedLocals(m))
      r == IF i.op = "DIVi64" THEN Quotient(p, q) ELSE Remainder(p, q)
  IN  IF y = <<0, 0>> THEN EmitInternalException(m, "TXT_DIVIDE_BY_ZERO")
      ELSE IF y = <<MinusOne(WordBits), 0>> /\ x = <<0, MinSigned(WordBits)>>
      THEN EmitInternalException(m, "TXT_DIVIDE_OVERFLOW")
      ELSE IF q = -1 /\ p = -MinSigned(QuadBits)
      THEN [m EXCEPT !.exc = "undefined behaviour"]
      ELSE StoreVar64(called, i.a, Halves(r))

BitsAndShifts(i, m) ==
  StoreVar(m, i.a, BitResult(i.op, LoadVar(m, i.b), LoadVar(m, i.c)))

UnaryInt(i, m) ==
  LET x == LoadVar(m, i.a)
  IN  StoreVar(m, i.a, CASE i.op = "NEGi" -> Half(-x)
                         [] i.op = "BNOT" -> Complement(x, WordBits)
                         [] i.op = "NOT" -> Truth(Low(x, ByteBits) = 0))

TestRegister(i, m) ==
  LET f == Compare(m.vr[1], 0)
      condition == CASE i.op = "TZ" -> f.zero
                     [] i.op = "TNZ" -> ~f.zero
                     [] i.op = "TS" -> SignedLess(f)
                     [] i.op = "TNS" -> ~SignedLess(f)
                     [] i.op = "TP" -> SignedGreater(f)
                     [] i.op = "TNP" -> ~SignedGreater(f)
  IN  [m EXCEPT !.vr = <<Truth(condition), 0>>]

ConvertFloat(i, m) ==
  CASE i.op = "iTOf" ->
         StoreFloatVar(m, i.a, Nearest(Signed(LoadVar(m, i.a), WordBits), WordBits))
    [] i.op \in {"fTOi", "fTOu"} ->
         StoreVar(m, i.a, Truncated(LoadFloatVar(m, i.a), WordBits, WordBits))
    [] i.op = "dTOf" ->
         StoreFloatVar(m, i.a, Converted(LoadDouble(m, i.b), QuadBits, WordBits))
    [] i.op = "fTOd" ->
         StoreDouble(m, i.a, Converted(LoadFloatVar(m, i.b), WordBits, QuadBits))

\* neg and cmov take the magnitude; the comparison is unsigned.
SquareOrPower(i, m) ==
  LET x == LoadVar(m, i.b)
      magnitude == IF IsNegative(Half(-x), WordBits) THEN x ELSE Half(-x)
  IN  IF ~i.square THEN EmitHelperCall(i, m)
      ELSE IF magnitude > MaxSquareBase
      THEN EmitInternalException(m, "TXT_POW_OVERFLOW")
      ELSE StoreVar(m, i.a, Half(x * x))

StepLocal(i, m) ==
  StoreVar(m, i.a, Half(LoadVar(m, i.a) + (IF i.op = "IncVi" THEN 1 ELSE -1)))

IntWithImmediate(i, m) ==
  StoreVar(m, i.a, Half(IntegerResult(i.op, LoadVar(m, i.b), i.q[1])))

IsUnsignedCompare(op) == op \in {"CmpPtr", "CMPu", "CMPIu"}

CompareFlags(i, m) ==
  Compare(LoadVar(m, i.a),
          IF i.op \in {"CMPi", "CmpPtr", "CMPu"} THEN LoadVar(m, i.b) ELSE i.q[1])

\* setg minus setl, or seta minus setb.
CompareInt(i, m) ==
  LET f == CompareFlags(i, m)
      greater == IF IsUnsignedCompare(i.op) THEN UnsignedGreater(f)
                 ELSE SignedGreater(f)
      less == IF IsUnsignedCompare(i.op) THEN f.carry ELSE SignedLess(f)
  IN  SetResult(m, Truth(greater) - Truth(less))

\* The high words decide, the low words only when they are equal.
CompareQuad(i, m) ==
  LET x == LoadVar64(m, i.a)
      y == LoadVar64(m, i.b)
      h == Compare(x[2], y[2])
      l == Compare(x[1], y[1])
      below == IF i.op = "CMPu64" THEN h.carry ELSE SignedLess(h)
      above == IF i.op = "CMPu64" THEN UnsignedGreater(h) ELSE SignedGreater(h)
  IN  SetResult(m, IF below THEN -1 ELSE IF above THEN 1
                   ELSE IF l.carry THEN -1 ELSE IF UnsignedGreater(l) THEN 1
                   ELSE 0)

\* shld or shrd for the word that takes bits from the other, shl, shr or sar
\* for the other; all of them mask the count.
ShiftQuad(i, m) ==
  LET p == LoadVar64(m, i.b)
      c == LoadVar(m, i.c) % WordBits
      q == Quad(p[1], p[2])
  IN  StoreVar64(m, i.a,
        CASE i.op = "BSLL64" ->
               <<ShiftLeft(p[1], c, WordBits), HighHalf(ShiftLeft(q, c, QuadBits))>>
          [] i.op = "BSRL64" ->
               <<LowHalf(ShiftRight(q, c)), ShiftRight(p[2], c)>>
          [] i.op = "BSRA64" ->
               <<LowHalf(ShiftRight(q, c)), ShiftArithmetic(p[2], c, WordBits)>>)

DivideUnsignedQuad(i, m) ==
  LET x == LoadQuad(m, i.b)
      y == LoadQuad(m, i.c)
      r == IF i.op = "DIVu64" THEN x \div y ELSE x % y
      called == ReloadCachedLocals(FlushCachedLocals(m))
  IN  IF y = 0 THEN EmitInternalException(m, "TXT_DIVIDE_BY_ZERO")
      ELSE StoreVar64(called, i.a, Halves(r))

\* The processor converts signed words only: a word with the top bit is
\* halved, keeping a one that is shifted out, converted and doubled.
UnsignedToFloat(i, m) ==
  LET x == LoadVar(m, i.a)
      halved == Or(ShiftRight(x, 1), And(x, 1, WordBits), WordBits)
      f == Nearest(halved, WordBits)
  IN  StoreFloatVar(m, i.a, IF IsNegative(x, WordBits) THEN SumOf(f, f, WordBits)
                            ELSE Nearest(x, WordBits))

ClearRegister(i, m) == [m EXCEPT !.vr = <<Low(m.vr[1], ByteBits), 0>>]

RemainderFloat(i, m) ==
  IF Low(LoadVar(m, i.c), WordBits - 1) = 0 THEN EmitHelperCall(i, m)
  ELSE StoreFloatVar(ReloadCachedLocals(FlushCachedLocals(m)), i.a,
                     FloatResult(i.op, LoadVar(m, i.b), LoadVar(m, i.c), WordBits))

EmitNumeric(i, m) ==
  CASE i.op \in {"ADDi64", "SUBi64"} -> AddSub64(i, m)
    [] i.op = "MULi64" -> Multiply64(i, m)
    [] i.op = "NEGi64" -> Negate64(i, m)
    [] i.op = "BNOT64" -> Not64(i, m)
    [] i.op \in Bit64Ops -> Bits64(i, m)
    [] i.op = "uTOi64" -> WidenUnsigned(i, m)
    [] i.op = "iTOi64" -> WidenSigned(i, m)
    [] i.op = "i64TOi" -> CutQuad(i, m)
    [] i.op = "iTOd" -> IntToDouble(i, m)
    [] i.op = "dTOi" -> DoubleToInt(i, m)
    [] i.op \in IntegerOps -> AddSubMul(i, m)
    [] i.op \in {"ADDf", "SUBf", "MULf"} -> FloatArithmetic(i, m)
    [] i.op \in {"ADDd", "SUBd", "MULd"} -> DoubleArithmetic(i, m)
    [] i.op = "DIVf" -> DivideFloat(i, m)
    [] i.op = "DIVd" -> DivideDouble(i, m)
    [] i.op \in FloatImmediateOps -> FloatWithImmediate(i, m)
    [] i.op \in {"NEGf", "NEGd"} -> FlipSign(i, m)
    [] i.op \in {"CMPf", "CMPd", "CMPIf"} -> CompareFloat(i, m)
    [] i.op \in DivideOps -> DivideInt(i, m)
    [] i.op \in DivideUnsignedOps -> DivideUint(i, m)
    [] i.op \in Divide64Ops -> DivideQuad(i, m)
    [] i.op \in BitOps \ {"BNOT"} -> BitsAndShifts(i, m)
    [] i.op \in {"NEGi", "BNOT", "NOT"} -> UnaryInt(i, m)
    [] i.op \in TestOps -> TestRegister(i, m)
    [] i.op \in {"iTOf", "fTOi", "fTOu", "dTOf", "fTOd"} -> ConvertFloat(i, m)
    [] i.op = "POWi" -> SquareOrPower(i, m)
    [] i.op \in StepVariableOps -> StepLocal(i, m)
    [] i.op \in IntegerImmediateOps -> IntWithImmediate(i, m)
    [] i.op \in {"CMPi", "CMPIi", "CMPu", "CMPIu", "CmpPtr"} -> CompareInt(i, m)
    [] i.op \in Compare64Ops -> CompareQuad(i, m)
    [] i.op \in Shift64Ops -> ShiftQuad(i, m)
    [] i.op \in DivideUnsigned64Ops -> DivideUnsignedQuad(i, m)
    [] i.op = "uTOf" -> UnsignedToFloat(i, m)
    [] i.op = "ClrHi" -> ClearRegister(i, m)
    [] i.op = "MODf" -> RemainderFloat(i, m)

NumericOps ==
  NegateOps \union StepVariableOps \union BitOps \union IntegerOps
    \union DivideOps \union (FloatOps) \union (DoubleOps \ {"MODd"})
    \union IntegerImmediateOps \union FloatImmediateOps \union Integer64Ops
    \union Divide64Ops \union Bit64Ops \union Shift64Ops \union Compare64Ops
    \union ClearHighOps \union DivideUnsignedOps \union DivideUnsigned64Ops
    \union TestOps \union CompareOps
    \union {"NEGi64", "BNOT64", "uTOi64", "iTOi64", "i64TOi", "iTOd", "dTOi",
            "iTOf", "fTOi", "fTOu", "uTOf", "dTOf", "fTOd", "POWi"}
=============================================================================
