-------------------------- MODULE InstructionPairs --------------------------
(***************************************************************************)
(* Every instruction, run once by the interpreter and once by the code     *)
(* emitted for it, from the same state of the program: the interpreter has *)
(* the frame in memory, the emitted code has some locals in registers.     *)
(***************************************************************************)
EXTENDS EmittedMemory, FunctionAnalysis

CONSTANTS Instructions,   \* the instructions that are run
          Machines(_)     \* the states of emitted code to run each of them in

\* The words of an instruction that name variables name words of the frame, a
\* word that is not used the first argument.
NamesVariables(i) ==
  i.op \notin {"ADDSi", "COPY", "ChkNullS"} \union ArgumentOps \union ListOps

OperandsFit(i, m) ==
  /\ {i.a, i.b, i.c} \subseteq Int /\ i.q \in Word \X Word
  /\ NamesVariables(i) =>
       \A o \in {i.a, i.b, i.c} : {Fp - o, Fp - o + 1} \subseteq DOMAIN m.mem

\* Globals are words of the memory, and so is what the value register points
\* to when an instruction goes through it, what an instruction takes from the
\* stack, and what it looks at through a reference found there.
AddressesFit(i, m) ==
  /\ i.op \in {"CpyGtoV4", "LdGRdR4"} => i.p \in DOMAIN m.mem
  /\ i.op \in IndirectOps \union StepOps \union {"INCi64", "DECi64"} =>
       {m.vr[1], m.vr[1] + 1} \subseteq DOMAIN m.mem
  /\ i.op \in {"CHKREF", "ChkRefS", "Cast", "REFCPY", "COPY"} =>
       {m.sp, m.sp + 1} \subseteq DOMAIN m.mem
  /\ i.op = "ChkNullS" => m.sp + i.a \in DOMAIN m.mem
  /\ i.op = "ChkRefS" => Top(m) \in DOMAIN m.mem
  /\ i.op = "Cast" => Top(m) \in DOMAIN m.mem \union {0}

\* Locals are in registers only in a function that CacheLocals admits: it has
\* cacheable instructions only, none of them takes the address of a local
\* (PSF, LDV, GETREF), and the stack is below the frame.
CachedApart(i, m) ==
  LET cached == {Fp - o : o \in Cached(m)}
  IN  cached # {} =>
        /\ IsCacheableLocalOp(i.op)
        /\ {m.sp, m.sp + 1} \intersect cached = {}
        /\ i.op = "ChkNullS" => m.sp + i.a \notin cached
        /\ {m.mem[m.sp], m.mem[m.sp + 1]} \intersect cached = {}

\* The exponent of a POWi marked square is the constant two.
SquareKnown(i, m) ==
  i.op = "POWi" => i.square \in BOOLEAN /\ (i.square => LoadVar(m, i.c) = 2)

ASSUME InstructionsAssumption == \A i \in Instructions : i.op \in InterpretedOps

ASSUME MachinesAssumption ==
  \A i \in Instructions : \A m \in Machines(i) :
    /\ IsMachineState(m) /\ OperandsFit(i, m) /\ AddressesFit(i, m)
    /\ CachedApart(i, m) /\ SquareKnown(i, m)

VARIABLES instruction,    \* the instruction
          before,         \* the state of the emitted code before it
          interpreter,    \* the state of the interpreter
          native,         \* the state of the emitted code
          done

vars == <<instruction, before, interpreter, native, done>>

\* The interpreter's view of a state of emitted code.
Interpreted(m) == [m EXCEPT !.mem = View(m), !.reg = NoRegisters]

Init ==
  /\ instruction \in Instructions
  /\ native \in Machines(instruction)
  /\ before = native
  /\ interpreter = Interpreted(native)
  /\ done = FALSE

\* as_powi negates the smallest int, which C++ leaves undefined: it may find
\* the overflow or compute the power modulo the word. (When the exponent is not
\* known to be two both sides call the same function.)
Interpretations(i, m) ==
  {Interpret(i, m)}
    \union (IF /\ i.op = "POWi" /\ i.square
               /\ Var(m, i.b) = MinSigned(WordBits)
            THEN {SetVar(m, i.a, 0)} ELSE {})

Run(Emit(_, _)) ==
  /\ ~done
  /\ interpreter' \in Interpretations(instruction, interpreter)
  /\ native' = Emit(instruction, native)
  /\ done' = TRUE
  /\ UNCHANGED <<instruction, before>>

RunStack == instruction.op \in StackOps /\ Run(EmitStack)
RunReferences == instruction.op \in ReferenceOps /\ Run(EmitReferences)
RunMemory == instruction.op \in MemoryOps /\ Run(EmitMemory)
RunNumeric == instruction.op \in NumericOps /\ Run(EmitNumeric)
RunHelper ==
  /\ instruction.op \notin StackOps \union ReferenceOps \union MemoryOps
                             \union NumericOps
  /\ Run(EmitHelperCall)

Next == RunStack \/ RunReferences \/ RunMemory \/ RunNumeric \/ RunHelper

Spec == Init /\ [][Next]_vars

-----------------------------------------------------------------------------
(* Where emitted code and interpreter are known to differ.                 *)

Dividend == Var64(Interpreted(before), instruction.b)
Divisor == Var64(Interpreted(before), instruction.c)

\* DIVi64 and MODi64 look for the divisor 2^32 - 1 instead of -1 when the
\* dividend is the smallest number.
DivideOverflowMissed ==
  /\ instruction.op \in Divide64Ops
  /\ Dividend = MinSigned(QuadBits)
  /\ Divisor \in {MinusOne(QuadBits), MinusOne(WordBits)}

\* shld and shrd count modulo the word.
LongShift ==
  instruction.op \in Shift64Ops /\ LoadVar(before, instruction.c) >= WordBits

DoubleOperandOps == {"ADDd", "SUBd", "MULd", "DIVd", "CMPd", "dTOf", "fTOd"}

\* The words of an instruction that name doubles.
DoubleOperands ==
  CASE instruction.op \in DoubleOps ->
         {instruction.a, instruction.b, instruction.c}
    [] instruction.op = "CMPd" -> {instruction.a, instruction.b}
    [] instruction.op = "dTOf" -> {instruction.b}
    [] instruction.op = "fTOd" -> {instruction.a}
    [] OTHER -> {}

\* SSE code takes both halves of a double from where the low one lives.
HalfCachedDouble ==
  before.sse /\ \E o \in DoubleOperands : IsSplit(before, o)

\* The square that overflows is not stored, the helper stores a zero first.
SquareNotStored == instruction.op = "POWi" /\ native.exc = "TXT_POW_OVERFLOW"

\* The square of the smallest int is undefined in as_powi.
SquareOfSmallest ==
  instruction.op = "POWi" /\ instruction.square
    /\ LoadVar(before, instruction.b) = MinSigned(WordBits)

HighWordCleared == instruction.op = "ClrHi"

-----------------------------------------------------------------------------
SameRegisters(m, n) ==
  m.vr = n.vr /\ m.sp = n.sp /\ m.object = n.object /\ m.exc = n.exc

\* Registers, memory and stack words are as the other machine's.
Alike(m, n) == View(m) = n.mem /\ SameRegisters(m, n)
Same == Alike(native, interpreter)

\* Machine words, small integers and known names only.
TypeOK ==
  /\ done \in BOOLEAN
  /\ \A x \in DOMAIN native.mem : native.mem[x] \in Word
  /\ \A o \in DOMAIN native.reg : native.reg[o] \in Word
  /\ \A x \in DOMAIN interpreter.mem : interpreter.mem[x] \in Word
  /\ native.vr \in Word \X Word /\ interpreter.vr \in Word \X Word
  /\ DOMAIN native.mem = DOMAIN before.mem
  /\ DOMAIN native.reg = DOMAIN before.reg

\* Emitted code leaves the program in the state the interpreter leaves it in
\* (jit_consistency.cpp compares results, out parameters and exceptions),
\* whatever locals are in registers, except where it is known to differ.
SameResult ==
  done => \/ Same
          \/ DivideOverflowMissed \/ LongShift \/ HalfCachedDouble
          \/ SquareNotStored \/ SquareOfSmallest \/ HighWordCleared

\* Emitted code raises an exception exactly when the interpreter does, and the
\* same; the overflow of a 64-bit division is missed, or undefined in C++, in
\* two cases and in no other.
SameException ==
  done /\ ~SquareOfSmallest =>
    (native.exc # interpreter.exc <=> DivideOverflowMissed)

\* The known differences stay where they are: nothing but the destination, the
\* high word of the value register or the flag of the exception differs.
DifferencesAreLocal ==
  done =>
    LET destination == {Fp - instruction.a, Fp - instruction.a + 1}
    IN  /\ \A x \in DOMAIN interpreter.mem \ destination :
             View(native)[x] = interpreter.mem[x]
        /\ native.sp = interpreter.sp
        /\ native.object = interpreter.object
        /\ native.vr # interpreter.vr =>
             HighWordCleared \/ instruction.op = "CMPd"

\* The lists of analysis.cpp let native code keep the value register elsewhere,
\* or not store it at all: what preserves it leaves it alone and, if it is no
\* reader, does not depend on it; what writes it does not depend on it. CpyRtoV8
\* is listed as preserving only, although it reads.
ValueRegisterListsRight ==
  done /\ native.exc = "none" =>
    LET op == instruction.op
        Another(v) == Interpret(instruction, [Interpreted(before) EXCEPT !.vr = v])
        others == {Another(v) : v \in {<<200, 9>>, <<1, 0>>}}
        writes == WritesValueRegister(op)
        ignores == /\ PreservesValueRegister(op) /\ ~ReadsValueRegister32(op)
                   /\ op # "CpyRtoV8"
    IN  /\ PreservesValueRegister(op) => native.vr[1] = before.vr[1]
        /\ ignores => \A m \in others : m.mem = interpreter.mem
        /\ writes => \A m \in others : m.vr[1] = interpreter.vr[1]

\* Whoever takes over after an exception, a catch block or the interpreter,
\* finds every local in the frame.
ExceptionFindsFrame ==
  done /\ native.exc # "none" /\ native.local => native.mem = View(native)
=============================================================================
